--------------------------- MODULE CallStackReturns ---------------------------
(***************************************************************************)
(* The inductive invariant of CallStack, for any threads and limits and    *)
(* for call stacks of any height, and why the steps that end calls         *)
(* preserve it: returns, yields and errors.  CallStackProofs has the steps *)
(* that begin calls, and the theorems.                                     *)
(*                                                                         *)
(* The call frames of a thread outlive its native frames, so what relates  *)
(* the two is not in the state.  The invariant says that there is, for     *)
(* each element of the native stack, a note of the height of the frames    *)
(* and of the counts when it called what lies above it.                    *)
(***************************************************************************)
EXTENDS CallStack, SequenceTheorems, FiniteSetTheorems, WellFoundedInduction, TLAPS

-----------------------------------------------------------------------------
(* Types                                                                    *)

FrameType == [kind : Kind, handle : BOOLEAN, errfunc : BOOLEAN, return : BOOLEAN,
              opyield : BOOLEAN, pcall : BOOLEAN, forcall : BOOLEAN]

Phases == {"start", "called", "loop", "handling", "handle"}
Element ==
    [fn : {"C", "luau_execute", "luaD_callny", "callerrfunc"}, L : Thread]
    \cup [fn : {"luaD_callint"}, L : Thread, from : BOOLEAN, frames : Nat]
    \cup [fn : {"luaV_callTM", "luaD_performcally"}, L : Thread, frames : Nat]
    \cup [fn : {"luaD_pcall"}, L : Thread, nCcalls : Nat, baseCcalls : Nat, frames : Nat,
          errfunc : BOOLEAN, handling : BOOLEAN]
    \cup [fn : {"resume_continue"}, L : Thread, base : Nat]
    \cup [fn : {"lua_resume"}, L : Thread, nCcalls : Nat, phase : Phases, handler : Nat]

Statuses == {"ok", "yield", "reentry", "error"}
CallTypeOK ==
    /\ luauFastpcall \in BOOLEAN
    /\ ci \in [Thread -> Seq(FrameType)]
    /\ nCcalls \in [Thread -> Nat] /\ baseCcalls \in [Thread -> Nat]
    /\ status \in [Thread -> Statuses]
    /\ native \in Seq(Element) /\ native # <<>>
    /\ signal \in {"run", "return", "throw"}

\* What an element noted: the height of the frames of its thread, how much nCcalls is
\* ahead of baseCcalls, and lower bounds of both.
Note == [h : Nat, y : Nat, c : Nat, b : Nat]

-----------------------------------------------------------------------------
(* The native stack                                                         *)

Protects(e) == e.fn \in {"luaD_pcall", "callerrfunc", "lua_resume"}
Handling(e) ==
    \/ e.fn = "luaD_pcall" /\ e.handling
    \/ e.fn = "lua_resume" /\ e.phase = "handling"
GivesWay(e) ==
    \/ e.fn \in {"luau_execute", "C", "luaD_performcally", "luaD_pcall", "resume_continue"}
    \/ e.fn = "luaD_callint" /\ e.from

Noted(z, h, y, c, b) == z.h = h /\ z.y = y /\ z.c = c /\ z.b = b

\* Element e with note z may lie on element d with note x.
Atop(fast, d, x, e, z) ==
    /\ e.fn # "lua_resume" => e.L = d.L
    /\ e.fn = "lua_resume" =>
          /\ d.fn = "C" /\ x.c < e.nCcalls
          /\ Noted(z, e.handler, 0, e.nCcalls, e.nCcalls)
          /\ e.phase # "handling" => e.handler = 0
    /\ e.fn = "luaD_pcall" =>
          /\ d.fn = "C" /\ Noted(z, x.h, x.y, x.c, x.b) /\ e.frames = x.h
          /\ e.nCcalls = e.baseCcalls + x.y /\ e.nCcalls >= x.c /\ e.baseCcalls >= x.b
    /\ e.fn = "luaD_callint" =>
          /\ d.fn \in {"C", "luau_execute"} \/ (d.fn = "luaD_pcall" /\ ~d.handling)
          /\ e.frames = x.h
          /\ e.from => Noted(z, x.h, x.y, x.c + 1, x.b + 1)
          /\ ~e.from => Noted(z, x.h, x.y + 1, x.c + 1, x.b)
    /\ e.fn = "luaV_callTM" =>
          d.fn = "luau_execute" /\ e.frames = x.h /\ Noted(z, x.h, x.y + 1, x.c + 1, x.b)
    /\ e.fn = "luaD_performcally" =>
          d.fn = "luau_execute" /\ e.frames = x.h /\ Noted(z, x.h, x.y, x.c + 1, x.b + 1)
    /\ e.fn = "callerrfunc" => Handling(d) /\ x.h <= z.h /\ Noted(z, z.h, z.y, x.c, x.b)
    /\ e.fn = "luaD_callny" =>
          d.fn = "callerrfunc" /\ z.y > 0 /\ Noted(z, x.h, z.y, x.c + 1, x.b)
    /\ e.fn = "resume_continue" =>
          /\ Noted(z, x.h, x.y, x.c, x.b) /\ e.base = x.h
          /\ \/ fast /\ d.fn \in {"luaD_callint", "luaD_performcally", "luaD_callny"}
             \/ d.fn = "lua_resume" /\ d.phase = "loop"
    /\ e.fn = "luau_execute" =>
          /\ x.h < z.h /\ Noted(z, z.h, x.y, x.c, x.b)
          /\ \/ ~fast /\ d.fn \in {"luaD_callint", "luaD_performcally", "luaD_callny"}
             \/ d.fn = "resume_continue"
    /\ e.fn = "C" =>
          /\ x.h < z.h /\ Noted(z, z.h, x.y, x.c, x.b)
          /\ \/ /\ d.fn \in {"luaD_callint", "luaV_callTM", "luaD_performcally", "luaD_callny", "luau_execute"}
                /\ z.h = x.h + 1
             \/ d.fn = "resume_continue" /\ x.y = 0
             \/ d.fn = "lua_resume" /\ d.phase \in {"called", "handle"}

\* From its lua_resume on, everything up to element i gives way to a yield.
Clear(nat, i) ==
    \E r \in 2 .. i :
        /\ nat[r].fn = "lua_resume" /\ nat[r].L = nat[i].L
        /\ \A k \in (r + 1) .. i : GivesWay(nat[k]) /\ nat[k].L = nat[i].L

\* How many of the elements up to element i are C calls
DepthOf(nat, i) == Cardinality({k \in 1 .. i : nat[k].fn \in
    {"luaD_callint", "luaV_callTM", "luaD_callny", "luaD_performcally", "lua_resume"}})

\* The host's thread is at the bottom.
Grounded(nat, g) ==
    /\ Len(nat) > 0 /\ Len(g) = Len(nat)
    /\ nat[1] = Native("C", MainThread) /\ Noted(g[1], 0, 0, 0, 0)
    /\ Len(nat) > 1 => nat[2].fn \in {"luaD_pcall", "lua_resume"}
    /\ Len(nat) > 2 /\ nat[2].fn = "luaD_pcall" /\ nat[3].fn = "luaD_callint" => ~nat[3].from

Lies(fast, nat, g) == \A i \in 2 .. Len(nat) : Atop(fast, nat[i - 1], g[i - 1], nat[i], g[i])

\* A thread is resumed when it has no native frames, so those that it has are together.
Fresh(nat) == \A i \in 2 .. Len(nat) : \A k \in 2 .. (i - 1) :
    nat[i].fn = "lua_resume" => nat[k].L # nat[i].L
Together(nat) == \A j \in 2 .. Len(nat) : \A i \in 2 .. j : \A k \in i .. j :
    nat[i].L = nat[j].L => nat[k].L = nat[j].L
Higher(x, z) == x.h <= z.h /\ x.c <= z.c /\ x.b <= z.b
Rising(nat, g) == \A j \in 2 .. Len(nat) : \A i \in 2 .. j :
    nat[i].L = nat[j].L => Higher(g[i], g[j])

Deep(nat, g) == \A i \in 1 .. Len(nat) : DepthOf(nat, i) <= g[i].c
Clears(nat, g) == \A i \in 2 .. Len(nat) :
    nat[i].fn # "callerrfunc" /\ (i = 2 => nat[i].fn # "luaD_pcall") => (g[i].y = 0 <=> Clear(nat, i))

Stack(fast, nat, g) ==
    /\ Grounded(nat, g) /\ Lies(fast, nat, g) /\ Fresh(nat) /\ Together(nat) /\ Rising(nat, g)
    /\ Deep(nat, g) /\ Clears(nat, g)

-----------------------------------------------------------------------------
(* The frames of a thread                                                   *)

\* A Lua frame that luau_execute does not end with was called by a Lua frame.
FramesOK(fast, f) ==
    \A k \in DOMAIN f :
        /\ f[k].kind = "lua" /\ ~f[k].return => k > 1 /\ f[k - 1].kind = "lua"
        /\ f[k].handle \/ f[k].pcall => f[k].kind = "cont"
        /\ f[k].forcall \/ f[k].opyield => f[k].kind = "lua"
        /\ fast => f[k].forcall = f[k].opyield

\* What luau_execute may lie on
Beginning == {"luaD_callint", "luaD_performcally", "luaD_callny", "resume_continue"}

\* What element i with note z knows of the frames f of its thread; d with note x lies below
\* and fn above it.
Knows(f, d, x, e, z, above) ==
    /\ z.h <= Len(f)
    /\ e.fn = "C" => f[z.h].kind # "lua" /\ (f[z.h].handle => above = "luaD_pcall")
    /\ (e.fn \in Beginning /\ z.h < Len(f) /\ f[z.h + 1].kind = "lua") => f[z.h + 1].return
    /\ e.fn = "luaD_performcally" => f[z.h].forcall
    /\ e.fn = "luau_execute" =>
          /\ \/ f[z.h].kind = "lua"
             \/ f[z.h].pcall /\ z.h > x.h + 1 /\ z.y = 0 /\ f[z.h - 1].kind = "lua"
          /\ (d.fn # "resume_continue" \/ z.y > 0) =>
                \A k \in (x.h + 1) .. z.h : f[k].kind = "lua" /\ (f[k].return => k = x.h + 1)
    /\ e.fn = "lua_resume" /\ e.phase = "handling" =>
          z.h > 0 /\ f[z.h].kind = "cont" /\ ~f[z.h].handle

\* What the elements of thread u up to element m know, when fn is on the last of them
Known(u, f, nat, g, m, fn) ==
    \A i \in 2 .. m : nat[i].L = u =>
        Knows(f, nat[i - 1], g[i - 1], nat[i], g[i], IF i < m THEN nat[i + 1].fn ELSE fn)

Frames(fast, u, f, nat, g, fn) == FramesOK(fast, f) /\ Known(u, f, nat, g, Len(nat), fn)

\* A thread could not be continued in frame k.
Bad(f, k) == (f[k].kind = "c" /\ k < Len(f)) \/ f[k].forcall # f[k].opyield

\* It need not, as what called from frame k is on the native stack, or an error is handled
\* below it.
Calls(u, f, k, nat) ==
    \E j \in 2 .. Len(nat) :
        /\ nat[j].L = u
        /\ \/ nat[j].fn = "luaD_performcally"
           \/ nat[j].fn = "luaD_callint" /\ ~nat[j].from /\ f[k].kind # "lua"
        /\ nat[j].frames = k
Failed(u, k, nat, g, throws) ==
    \E j \in 2 .. Len(nat) :
        /\ nat[j].L = u /\ g[j].h <= k
        /\ \/ Handling(nat[j])
           \/ throws /\ Protects(nat[j]) /\ \A m \in (j + 1) .. Len(nat) : ~Protects(nat[m])
Explained(u, f, nat, g, throws) ==
    \A k \in DOMAIN f : Bad(f, k) => Calls(u, f, k, nat) \/ Failed(u, k, nat, g, throws)

\* A protected call that lies above such a frame is on the native stack, too; without
\* LuauFastpcall, so are all that lie above another one.
Marks(fast, u, f, nat, g) ==
    /\ \A p \in DOMAIN f : f[p].handle /\ (\E k \in 1 .. (p - 1) : Bad(f, k)) =>
          \E j \in 2 .. Len(nat) : nat[j].L = u /\ nat[j].fn = "luaD_pcall" /\ nat[j].frames = p
    /\ ~fast => \A i \in 2 .. Len(nat) : (nat[i].L = u /\ nat[i].fn = "luaD_pcall") =>
          \A p \in (g[i].h + 1) .. Len(f) : f[p].handle =>
              \E j \in (i + 1) .. Len(nat) : nat[j].L = u /\ nat[j].fn = "luaD_pcall" /\ nat[j].frames = p

Whole(fast, u, f, nat, g) ==
    Frames(fast, u, f, nat, g, "none") /\ Explained(u, f, nat, g, FALSE) /\ Marks(fast, u, f, nat, g)

Suspended(fast, f) ==
    /\ FramesOK(fast, f) /\ f # <<>> /\ ~f[Len(f)].handle
    /\ \A k \in DOMAIN f : ~Bad(f, k)

-----------------------------------------------------------------------------
(* The inductive invariant                                                  *)

\* The thread on top of nat has frames f, counts n and b, and status st.
Runs(fast, f, n, b, st, nat, g) ==
    LET N == Len(nat)   e == nat[N]   x == g[N] IN
    /\ n >= x.c /\ b >= x.b /\ n = b + x.y
    /\ \/ /\ e.fn \in {"C", "luau_execute"} /\ st = "ok" /\ Len(f) = x.h
          /\ Whole(fast, e.L, f, nat, g)
          /\ ~f[x.h].handle /\ (e.fn = "luau_execute" => f[x.h].kind = "lua")
       \/ /\ e.fn = "lua_resume" /\ e.phase = "start"
          /\ (st = "ok" /\ f = <<>>) \/ (st = "yield" /\ Suspended(fast, f))

Returns(fast, f, n, b, nat, g) ==
    LET N == Len(nat)   e == nat[N]   x == g[N] IN
    /\ n >= x.c /\ b >= x.b
    /\ Whole(fast, e.L, f, nat, g)
    /\ ~Handling(e) /\ e.fn # "callerrfunc" =>
          /\ n = b + x.y
          /\ e.fn # "lua_resume" => Len(f) = x.h \/ (e.fn = "resume_continue" /\ x.y = 0)
    /\ (e.fn = "resume_continue" /\ Len(f) > x.h) \/ (e.fn = "lua_resume" /\ e.phase = "handle" /\ f # <<>>) =>
          f[Len(f)].kind # "c"

\* The thread leaves frames f for a while.
Leaves(f, st) ==
    /\ f # <<>>
    /\ st \in {"yield", "reentry"}
    /\ st = "reentry" => f[Len(f)].kind = "lua"
    /\ st = "yield" => ~f[Len(f)].handle

Yields(fast, f, n, b, st, nat, g) ==
    LET N == Len(nat)   e == nat[N]   x == g[N] IN
    /\ n >= x.c /\ b >= x.b /\ n = b /\ x.y = 0
    /\ Clear(nat, N) /\ ~Handling(e)
    /\ Frames(fast, e.L, f, nat, g, "luaD_pcall") /\ Explained(e.L, f, nat, g, FALSE)
    /\ Leaves(f, st)

Throws(fast, f, n, b, st, nat, g) ==
    LET N == Len(nat)   e == nat[N]   x == g[N] IN
    /\ n >= x.c /\ b >= x.b /\ n >= b /\ st = "ok" /\ ~Handling(e)
    /\ Frames(fast, e.L, f, nat, g, "luaD_pcall") /\ Explained(e.L, f, nat, g, TRUE) /\ Marks(fast, e.L, f, nat, g)

\* The thread below a lua_resume
Waits(fast, u, f, n, b, st, nat, g, i) ==
    /\ st = "ok" /\ Len(f) = g[i].h
    /\ n >= g[i].c /\ b >= g[i].b /\ n = b + g[i].y
    /\ Whole(fast, u, f, nat, g)

OnTop(fast, f, n, b, st, nat, g, sig) ==
    /\ sig = "run" => Runs(fast, f, n, b, st, nat, g)
    /\ sig = "return" /\ st = "ok" => Returns(fast, f, n, b, nat, g)
    /\ sig = "return" /\ st # "ok" => Yields(fast, f, n, b, st, nat, g)
    /\ sig = "throw" => Throws(fast, f, n, b, st, nat, g)

Rests(fast, u, f, n, b, st, nat, g) ==
    /\ (\A i \in 2 .. Len(nat) : nat[i].L # u) /\ st = "yield" => Suspended(fast, f)
    /\ \A i \in 2 .. (Len(nat) - 1) : (nat[i].L = u /\ nat[i + 1].fn = "lua_resume") =>
          Waits(fast, u, f, n, b, st, nat, g, i)

Balanced(g) ==
    /\ CallTypeOK
    /\ g \in Seq(Note)
    /\ Stack(luauFastpcall, native, g)
    /\ Len(native) = 1 => signal # "throw"
    /\ (\A i \in 2 .. Len(native) : native[i].L # MainThread) => nCcalls[MainThread] = baseCcalls[MainThread]
    /\ Len(native) > 1 =>
          OnTop(luauFastpcall, ci[Top.L], nCcalls[Top.L], baseCcalls[Top.L], status[Top.L], native, g, signal)
    /\ \A u \in Thread : (Len(native) > 1 => u # Top.L) =>
          Rests(luauFastpcall, u, ci[u], nCcalls[u], baseCcalls[u], status[u], native, g)

CallInv == \E g \in Seq(Note) : Balanced(g)

-----------------------------------------------------------------------------
(* PROOFS: sequences and elements                                           *)

LEMMA LenIs ==
  ASSUME NEW S, NEW s \in Seq(S)
  PROVE  /\ Len(s) \in Nat /\ DOMAIN s = 1 .. Len(s)
         /\ \A i \in 1 .. Len(s) : s[i] \in S
         /\ s = <<>> <=> Len(s) = 0
<1>1. Len(s) \in Nat /\ DOMAIN s = 1 .. Len(s)
  BY LenProperties
<1>2. \A i \in 1 .. Len(s) : s[i] \in S
  BY ElementOfSeq
<1>3. s = <<>> <=> Len(s) = 0
  BY EmptySeq
<1> QED BY <1>1, <1>2, <1>3

LEMMA NotEmpty ==
  ASSUME NEW s, Len(s) # 0
  PROVE  s # <<>>
OBVIOUS

LEMMA AppendIs ==
  ASSUME NEW S, NEW s \in Seq(S), NEW e \in S
  PROVE  /\ Append(s, e) \in Seq(S) /\ Append(s, e) # <<>>
         /\ Len(Append(s, e)) = Len(s) + 1
         /\ \A i \in 1 .. Len(s) : Append(s, e)[i] = s[i]
         /\ Append(s, e)[Len(s) + 1] = e
BY AppendProperties

LEMMA PrefixIs ==
  ASSUME NEW S, NEW s \in Seq(S), NEW m \in 0 .. Len(s)
  PROVE  /\ SubSeq(s, 1, m) \in Seq(S) /\ Len(SubSeq(s, 1, m)) = m
         /\ \A i \in 1 .. m : SubSeq(s, 1, m)[i] = s[i]
<1>1. m \in Nat /\ m <= Len(s) /\ Len(s) \in Nat
  BY LenIs
<1>2. \A i \in 1 .. m : s[i] \in S
  BY <1>1, LenIs
<1>3. SubSeq(s, 1, m) = [i \in 1 .. m |-> s[i]]
  BY <1>1
<1>4. [i \in 1 .. m |-> s[i]] \in Seq(S)
  BY <1>1, <1>2
<1> QED BY <1>1, <1>3, <1>4

LEMMA FrontIs ==
  ASSUME NEW S, NEW s \in Seq(S), s # <<>>
  PROVE  /\ Len(s) \in Nat /\ Len(s) > 0
         /\ Front(s) = SubSeq(s, 1, Len(s) - 1)
         /\ Front(s) \in Seq(S) /\ Len(Front(s)) = Len(s) - 1
         /\ \A i \in 1 .. (Len(s) - 1) : Front(s)[i] = s[i]
         /\ Last(s) = s[Len(s)] /\ Last(s) \in S
<1>1. Len(s) \in Nat /\ Len(s) > 0
  BY LenIs
<1>2. Front(s) = SubSeq(s, 1, Len(s) - 1)
  BY DEF Front
<1>3. Len(s) - 1 \in 0 .. Len(s)
  BY <1>1
<1>4. /\ SubSeq(s, 1, Len(s) - 1) \in Seq(S) /\ Len(SubSeq(s, 1, Len(s) - 1)) = Len(s) - 1
      /\ \A i \in 1 .. (Len(s) - 1) : SubSeq(s, 1, Len(s) - 1)[i] = s[i]
  BY <1>3, PrefixIs
<1>5. Last(s) = s[Len(s)] /\ Last(s) \in S
  BY <1>1, LenIs DEF Last
<1> QED BY <1>1, <1>2, <1>4, <1>5

LEMMA ExceptIs ==
  ASSUME NEW S, NEW s \in Seq(S), NEW m \in 1 .. Len(s), NEW e \in S
  PROVE  /\ [s EXCEPT ![m] = e] \in Seq(S) /\ Len([s EXCEPT ![m] = e]) = Len(s)
         /\ \A i \in 1 .. Len(s) : [s EXCEPT ![m] = e][i] = IF i = m THEN e ELSE s[i]
<1>1. DOMAIN s = 1 .. Len(s) /\ Len(s) \in Nat
  BY LenIs
<1> QED BY <1>1, ExceptSeq

\* Counting one call less, in nCcalls only or in both counts.
LEMMA Lower ==
  ASSUME NEW n, NEW c, NEW c0, n \in Nat, c \in Nat, c0 = c + 1, n >= c0
  PROVE  n - 1 \in Nat /\ n - 1 >= c
OBVIOUS

LEMMA OneLess ==
  ASSUME NEW n, NEW b, NEW c, NEW y, NEW c0, NEW y0, n \in Nat, b \in Nat, c \in Nat, y \in Nat,
         c0 = c + 1, y0 = y + 1, n >= c0, n = b + y0
  PROVE  n - 1 \in Nat /\ n - 1 >= c /\ n - 1 = b + y
OBVIOUS

LEMMA BothLess ==
  ASSUME NEW n, NEW b, NEW c, NEW d, NEW y, NEW c0, NEW d0, n \in Nat, b \in Nat, c \in Nat, d \in Nat, y \in Nat,
         c0 = c + 1, d0 = d + 1, n >= c0, b >= d0, n = b + y
  PROVE  n - 1 \in Nat /\ b - 1 \in Nat /\ n - 1 >= c /\ b - 1 >= d /\ n - 1 = (b - 1) + y
OBVIOUS

LEMMA AtLeast ==
  ASSUME NEW n, NEW b, NEW c, NEW y, n \in Nat, b \in Nat, c \in Nat, y \in Nat, n >= c, n = b + y
  PROVE  n + 1 >= c /\ n + 1 >= b
OBVIOUS

\* A set of numbers up to n has a greatest.
LEMMA Greatest ==
  ASSUME NEW n \in Nat, NEW T, T \subseteq 1 .. n, T # {}
  PROVE  \E m \in T : \A k \in T : k <= m
<1> DEFINE U == {n - k : k \in T}
           R == OpToRel(<, Nat)
<1>1. U \subseteq Nat /\ U # {}
  <2>1. PICK k : k \in T
    OBVIOUS
  <2>2. n - k \in U
    BY <2>1
  <2>3. \A l \in T : n - l \in Nat
    OBVIOUS
  <2> QED BY <2>2, <2>3
<1>2. IsWellFoundedOn(R, Nat)
  BY NatLessThanWellFounded
<1>3. \A x, y \in Nat : <<x, y>> \in R <=> x < y
  BY DEF OpToRel
<1> HIDE DEF R
<1>4. PICK l \in U : \A k \in U : ~ (<<k, l>> \in R)
  <2> HIDE DEF U
  <2> QED BY <1>1, <1>2, WFMin
<1>5. PICK m \in T : l = n - m
  OBVIOUS
<1>6. ASSUME NEW k \in T
      PROVE  k <= m
  <2>1. n - k \in U /\ n - k \in Nat /\ l \in Nat
    BY <1>1
  <2>2. ~ (n - k < l)
    BY <1>3, <1>4, <2>1
  <2> QED BY <1>5, <2>2
<1> QED BY <1>6

Names == {"C", "luau_execute", "luaD_callny", "callerrfunc", "luaD_callint", "luaV_callTM",
          "luaD_performcally", "luaD_pcall", "resume_continue", "lua_resume"}

LEMMA ElementIs ==
  ASSUME NEW e,
         e \in Element
  PROVE  /\ e.fn \in Names /\ e.L \in Thread
         /\ e.fn = "luaD_callint" => e.from \in BOOLEAN /\ e.frames \in Nat
         /\ e.fn \in {"luaV_callTM", "luaD_performcally"} => e.frames \in Nat
         /\ e.fn = "luaD_pcall" => /\ e.nCcalls \in Nat /\ e.baseCcalls \in Nat /\ e.frames \in Nat
                                   /\ e.errfunc \in BOOLEAN /\ e.handling \in BOOLEAN
         /\ e.fn = "resume_continue" => e.base \in Nat
         /\ e.fn = "lua_resume" => e.nCcalls \in Nat /\ e.phase \in Phases /\ e.handler \in Nat
BY DEF Element, Names

LEMMA NoteIs ==
  ASSUME NEW z,
         z \in Note
  PROVE  z.h \in Nat /\ z.y \in Nat /\ z.c \in Nat /\ z.b \in Nat
BY DEF Note

LEMMA HigherIs ==
  ASSUME NEW x, NEW w, NEW z, x \in Note, w \in Note, z \in Note, Higher(x, w), Higher(w, z)
  PROVE  Higher(x, z)
BY NoteIs DEF Higher

\* Heights grow from element to element of a thread.
LEMMA AtopHeight ==
  ASSUME NEW fast, NEW d, NEW x, NEW e, NEW z,
         x \in Note, e \in Element, z \in Note, Atop(fast, d, x, e, z), e.fn # "lua_resume"
  PROVE  x.h <= z.h /\ e.L = d.L /\ Higher(x, z)
BY ElementIs, NoteIs DEF Atop, Names, Noted, Higher

-----------------------------------------------------------------------------
(* The native stack                                                         *)

\* Of stacks that agree, the depth and what gives way agree.
LEMMA PrefixDepth ==
  ASSUME NEW nat, NEW nat2, NEW i \in Nat, \A k \in 1 .. i : nat2[k].fn = nat[k].fn
  PROVE  DepthOf(nat2, i) = DepthOf(nat, i)
BY DEF DepthOf

LEMMA PrefixClear ==
  ASSUME NEW nat, NEW nat2, NEW i,
         i \in Nat, \A k \in 1 .. i : nat2[k].fn = nat[k].fn /\ nat2[k].L = nat[k].L
                           /\ (GivesWay(nat2[k]) <=> GivesWay(nat[k]))
  PROVE  Clear(nat2, i) <=> Clear(nat, i)
<1>1. \A r \in 2 .. i : r \in 1 .. i /\ i \in 1 .. i /\ \A k \in (r + 1) .. i : k \in 1 .. i
  OBVIOUS
<1> QED BY <1>1 DEF Clear

\* Another element is at most one C call more.
LEMMA PushDepth ==
  ASSUME NEW nat, NEW i,
         i \in Nat
  PROVE  /\ DepthOf(nat, i) \in Nat
         /\ DepthOf(nat, i + 1) \in Nat
         /\ DepthOf(nat, i + 1) <= DepthOf(nat, i) + 1
         /\ nat[i + 1].fn \notin {"luaD_callint", "luaV_callTM", "luaD_callny", "luaD_performcally",
                                  "lua_resume"} => DepthOf(nat, i + 1) = DepthOf(nat, i)
<1> DEFINE C == {"luaD_callint", "luaV_callTM", "luaD_callny", "luaD_performcally", "lua_resume"}
           D(j) == {k \in 1 .. j : nat[k].fn \in C}
<1>1. IsFiniteSet(1 .. i) /\ IsFiniteSet(1 .. (i + 1))
  BY FS_Interval
<1>2. IsFiniteSet(D(i)) /\ IsFiniteSet(D(i + 1))
  BY <1>1, FS_Subset
<1>3. Cardinality(D(i)) \in Nat /\ Cardinality(D(i + 1)) \in Nat
  BY <1>2, FS_CardinalityType
<1>4. CASE nat[i + 1].fn \in C
  <2>1. D(i + 1) = D(i) \cup {i + 1} /\ i + 1 \notin D(i)
    BY <1>4
  <2>2. Cardinality(D(i + 1)) = Cardinality(D(i)) + 1
    <3> HIDE DEF D
    <3> QED BY <1>2, <2>1, FS_AddElement
  <2> QED BY <1>3, <1>4, <2>2 DEF DepthOf
<1>5. CASE nat[i + 1].fn \notin C
  <2>1. D(i + 1) = D(i)
    BY <1>5
  <2>2. DepthOf(nat, i) = Cardinality(D(i)) /\ DepthOf(nat, i + 1) = Cardinality(D(i + 1))
    BY DEF DepthOf
  <2>3. DepthOf(nat, i + 1) = DepthOf(nat, i) /\ DepthOf(nat, i) \in Nat
    <3> HIDE DEF D
    <3> QED BY <1>3, <2>1, <2>2
  <2> QED BY <2>3
<1> QED BY <1>4, <1>5

LEMMA PrefixStack ==
  ASSUME NEW fast, NEW nat, NEW g, NEW m,
         nat \in Seq(Element), g \in Seq(Note), Stack(fast, nat, g), m \in 1 .. Len(nat)
  PROVE  Stack(fast, SubSeq(nat, 1, m), SubSeq(g, 1, m))
<1> DEFINE nat2 == SubSeq(nat, 1, m)
           g2 == SubSeq(g, 1, m)
<1>1. Len(nat) \in Nat /\ Len(g) = Len(nat)
  BY LenIs DEF Stack, Grounded
<1>2. /\ nat2 \in Seq(Element) /\ Len(nat2) = m /\ \A i \in 1 .. m : nat2[i] = nat[i]
      /\ g2 \in Seq(Note) /\ Len(g2) = m /\ \A i \in 1 .. m : g2[i] = g[i]
  BY <1>1, PrefixIs
<1> HIDE DEF nat2, g2
<1>3. Grounded(nat2, g2)
  BY <1>1, <1>2 DEF Stack, Grounded
<1>4. Lies(fast, nat2, g2)
  <2> SUFFICES ASSUME NEW i \in 2 .. m
               PROVE  Atop(fast, nat2[i - 1], g2[i - 1], nat2[i], g2[i])
    BY <1>2 DEF Lies
  <2>1. i - 1 \in 1 .. m /\ i \in 1 .. m /\ i \in 2 .. Len(nat)
    BY <1>1
  <2> QED BY <1>2, <2>1 DEF Stack, Lies
<1>5. Fresh(nat2) /\ Together(nat2) /\ Rising(nat2, g2)
  <2>1. Fresh(nat2)
    <3> SUFFICES ASSUME NEW i \in 2 .. m, NEW k \in 2 .. (i - 1), nat2[i].fn = "lua_resume"
                 PROVE  nat2[k].L # nat2[i].L
      BY <1>2 DEF Fresh
    <3>1. i \in 2 .. Len(nat) /\ i \in 1 .. m /\ k \in 1 .. m
      BY <1>1
    <3> QED BY <1>2, <3>1 DEF Stack, Fresh
  <2>2. ASSUME NEW j \in 2 .. m, NEW i \in 2 .. j, nat2[i].L = nat2[j].L
        PROVE  Higher(g2[i], g2[j]) /\ \A k \in i .. j : nat2[k].L = nat2[j].L
    <3>1. j \in 2 .. Len(nat) /\ i \in 1 .. m /\ j \in 1 .. m /\ \A k \in i .. j : k \in 1 .. m
      BY <1>1
    <3>2. nat[i].L = nat[j].L
      BY <1>2, <2>2, <3>1
    <3>3. Higher(g[i], g[j]) /\ \A k \in i .. j : nat[k].L = nat[j].L
      BY <3>1, <3>2 DEF Stack, Together, Rising
    <3> QED BY <1>2, <3>1, <3>3
  <2> QED BY <1>2, <2>1, <2>2 DEF Together, Rising
<1>6. Deep(nat2, g2)
  <2> SUFFICES ASSUME NEW i \in 1 .. m
               PROVE  DepthOf(nat2, i) <= g2[i].c
    BY <1>2 DEF Deep
  <2>1. DepthOf(nat2, i) = DepthOf(nat, i)
    BY <1>2, PrefixDepth
  <2> QED BY <1>1, <1>2, <2>1 DEF Stack, Deep
<1>7. Clears(nat2, g2)
  <2> SUFFICES ASSUME NEW i \in 2 .. m
               PROVE  Clear(nat2, i) <=> Clear(nat, i)
    BY <1>1, <1>2 DEF Stack, Clears
  <2>1. \A k \in 1 .. i : nat2[k] = nat[k]
    BY <1>2
  <2> QED BY <2>1, PrefixClear
<1> QED BY <1>3, <1>4, <1>5, <1>6, <1>7 DEF Stack, nat2, g2

LEMMA PushStack ==
  ASSUME NEW fast, NEW nat, NEW g, NEW e, NEW z,
         nat \in Seq(Element), g \in Seq(Note), Stack(fast, nat, g), e \in Element, z \in Note,
         Atop(fast, nat[Len(nat)], g[Len(nat)], e, z), Len(nat) = 1 => e.fn \in {"luaD_pcall", "lua_resume"},
         Len(nat) = 2 /\ nat[2].fn = "luaD_pcall" /\ e.fn = "luaD_callint" => ~e.from,
         e.fn = "lua_resume" => \A k \in 2 .. Len(nat) : nat[k].L # e.L
  PROVE  Stack(fast, Append(nat, e), Append(g, z))
<1> DEFINE nat2 == Append(nat, e)
           g2 == Append(g, z)
           N == Len(nat)
<1>1. N \in Nat /\ N > 0 /\ Len(g) = N
  BY LenIs DEF Stack, Grounded
<1>2. /\ nat2 \in Seq(Element) /\ Len(nat2) = N + 1 /\ \A i \in 1 .. N : nat2[i] = nat[i]
      /\ g2 \in Seq(Note) /\ Len(g2) = N + 1 /\ \A i \in 1 .. N : g2[i] = g[i]
      /\ nat2[N + 1] = e /\ g2[N + 1] = z
  BY <1>1, AppendIs
<1>3. nat[N] \in Element /\ g[N] \in Note
  BY <1>1, LenIs
<1> HIDE DEF nat2, g2
<1>4. Grounded(nat2, g2)
  BY <1>1, <1>2 DEF Stack, Grounded
<1>5. Lies(fast, nat2, g2)
  <2> SUFFICES ASSUME NEW i \in 2 .. (N + 1)
               PROVE  Atop(fast, nat2[i - 1], g2[i - 1], nat2[i], g2[i])
    BY <1>2 DEF Lies
  <2>1. CASE i = N + 1
    BY <1>1, <1>2, <2>1
  <2>2. CASE i # N + 1
    <3>1. i - 1 \in 1 .. N /\ i \in 1 .. N /\ i \in 2 .. N
      BY <1>1, <2>2
    <3> QED BY <1>2, <3>1 DEF Stack, Lies
  <2> QED BY <2>1, <2>2
<1>6. e.fn # "lua_resume" => e.L = nat[N].L /\ Higher(g[N], z)
  BY <1>3, AtopHeight
<1>7. Fresh(nat2)
  <2> SUFFICES ASSUME NEW i \in 2 .. (N + 1), NEW k \in 2 .. (i - 1), nat2[i].fn = "lua_resume"
               PROVE  nat2[k].L # nat2[i].L
    BY <1>2 DEF Fresh
  <2>1. k \in 1 .. N /\ k \in 2 .. N
    BY <1>1
  <2>2. CASE i = N + 1
    BY <1>2, <2>1, <2>2
  <2>3. CASE i # N + 1
    <3>1. i \in 2 .. N /\ i \in 1 .. N /\ k \in 2 .. (i - 1)
      BY <1>1, <2>3
    <3> QED BY <1>2, <2>1, <3>1 DEF Stack, Fresh
  <2> QED BY <2>2, <2>3
<1>8. Together(nat2) /\ Rising(nat2, g2)
  <2> SUFFICES ASSUME NEW j \in 2 .. (N + 1), NEW i \in 2 .. j, nat2[i].L = nat2[j].L
               PROVE  Higher(g2[i], g2[j]) /\ \A k \in i .. j : nat2[k].L = nat2[j].L
    BY <1>2 DEF Together, Rising
  <2>1. CASE j # N + 1
    <3>1. j \in 2 .. N /\ i \in 1 .. N /\ j \in 1 .. N /\ \A k \in i .. j : k \in 1 .. N
      BY <1>1, <2>1
    <3> QED BY <1>2, <3>1 DEF Stack, Together, Rising
  <2>2. CASE i = N + 1
    <3>1. j = N + 1 /\ i .. j = {N + 1} /\ Higher(z, z)
      BY <1>1, <2>2, NoteIs DEF Higher
    <3> QED BY <1>2, <2>2, <3>1
  <2>3. CASE j = N + 1 /\ i # N + 1
    <3>1. i \in 2 .. N /\ N \in 2 .. N /\ i \in 1 .. N
      BY <1>1, <2>3
    <3>2. e.fn # "lua_resume" /\ nat[i].L = nat[N].L
      BY <1>2, <1>6, <2>3, <3>1
    <3>3. Higher(g[i], g[N]) /\ \A k \in i .. N : nat[k].L = nat[N].L
      BY <3>1, <3>2 DEF Stack, Together, Rising
    <3>4. g[i] \in Note
      BY <1>1, <3>1, LenIs
    <3>5. Higher(g2[i], g2[j])
      <4>1. Higher(g[i], z)
        BY <1>3, <1>6, <3>2, <3>3, <3>4, HigherIs
      <4> QED BY <1>2, <2>3, <3>1, <4>1
    <3>6. ASSUME NEW k \in i .. j
          PROVE  nat2[k].L = nat2[j].L
      <4>1. k = N + 1 \/ (k \in i .. N /\ k \in 1 .. N)
        BY <1>1, <2>3, <3>1
      <4> QED BY <1>2, <1>6, <2>3, <3>2, <3>3, <4>1
    <3> QED BY <3>5, <3>6
  <2> QED BY <2>1, <2>2, <2>3
<1>9. Deep(nat2, g2)
  <2> SUFFICES ASSUME NEW i \in 1 .. (N + 1)
               PROVE  DepthOf(nat2, i) <= g2[i].c
    BY <1>2 DEF Deep
  <2>1. \A k \in 1 .. N : DepthOf(nat2, k) = DepthOf(nat, k)
    BY <1>1, <1>2, PrefixDepth
  <2>2. CASE i \in 1 .. N
    BY <1>2, <2>1, <2>2 DEF Stack, Deep
  <2>3. CASE i = N + 1
    <3>1. DepthOf(nat2, N) \in Nat /\ DepthOf(nat2, N) <= g[N].c
      <4>1. N \in 1 .. N
        BY <1>1
      <4>2. DepthOf(nat, N) <= g[N].c
        BY <4>1 DEF Stack, Deep
      <4>3. DepthOf(nat2, N) \in Nat
        BY <1>1, PushDepth
      <4> QED BY <2>1, <4>1, <4>2, <4>3
    <3>2. /\ DepthOf(nat2, N + 1) \in Nat /\ DepthOf(nat2, N + 1) <= DepthOf(nat2, N) + 1
          /\ e.fn \notin {"luaD_callint", "luaV_callTM", "luaD_callny", "luaD_performcally",
                          "lua_resume"} => DepthOf(nat2, N + 1) = DepthOf(nat2, N)
      BY <1>1, <1>2, PushDepth
    <3>3. /\ g[N].c \in Nat /\ z.c \in Nat /\ e.fn \in Names
          /\ e.fn = "lua_resume" => e.nCcalls \in Nat
      BY <1>3, NoteIs, ElementIs
    <3>4. IF e.fn \in {"luaD_callint", "luaV_callTM", "luaD_callny", "luaD_performcally", "lua_resume"}
          THEN z.c >= g[N].c + 1 ELSE z.c = g[N].c
      BY <3>3, ElementIs DEF Atop, Noted, Names
    <3> QED BY <1>2, <2>3, <3>1, <3>2, <3>3, <3>4
  <2> QED BY <2>2, <2>3
<1>10. Clears(nat2, g2)
  <2> SUFFICES ASSUME NEW i \in 2 .. (N + 1), nat2[i].fn # "callerrfunc",
                      i = 2 => nat2[i].fn # "luaD_pcall"
               PROVE  g2[i].y = 0 <=> Clear(nat2, i)
    BY <1>2 DEF Clears
  <2>1. CASE i # N + 1
    <3>1. i \in 2 .. N /\ i \in 1 .. N /\ \A k \in 1 .. i : nat2[k] = nat[k]
      BY <1>1, <1>2, <2>1
    <3>2. Clear(nat2, i) <=> Clear(nat, i)
      BY <3>1, PrefixClear
    <3> QED BY <1>2, <3>1, <3>2 DEF Stack, Clears
  <2>2. CASE i = N + 1 /\ e.fn = "lua_resume"
    <3>1. z.y = 0
      BY <2>2 DEF Atop, Noted
    <3>2. Clear(nat2, N + 1)
      BY <1>1, <1>2, <2>2 DEF Clear
    <3> QED BY <1>2, <2>2, <3>1, <3>2
  <2>3. CASE i = N + 1 /\ e.fn # "lua_resume"
    <3>1. N \in 2 .. N /\ e.fn \in Names /\ e.L = nat[N].L
      BY <1>1, <1>2, <1>6, <2>3, ElementIs
    <3>2. Clear(nat2, N + 1) <=> (GivesWay(e) /\ Clear(nat, N))
      <4>1. ASSUME Clear(nat2, N + 1)
            PROVE  GivesWay(e) /\ Clear(nat, N)
        <5>1. PICK r \in 2 .. (N + 1) : /\ nat2[r].fn = "lua_resume" /\ nat2[r].L = nat2[N + 1].L
                  /\ \A k \in (r + 1) .. (N + 1) : GivesWay(nat2[k]) /\ nat2[k].L = nat2[N + 1].L
          BY <4>1 DEF Clear
        <5>2. r \in 2 .. N /\ r \in 1 .. N /\ N + 1 \in (r + 1) .. (N + 1)
          BY <1>1, <1>2, <2>3, <5>1
        <5>3. GivesWay(e)
          BY <1>2, <5>1, <5>2
        <5>4. \A k \in (r + 1) .. N : k \in (r + 1) .. (N + 1) /\ k \in 1 .. N
          BY <1>1, <5>2
        <5> QED BY <1>2, <3>1, <5>1, <5>2, <5>3, <5>4 DEF Clear
      <4>2. ASSUME GivesWay(e), Clear(nat, N)
            PROVE  Clear(nat2, N + 1)
        <5>1. PICK r \in 2 .. N : /\ nat[r].fn = "lua_resume" /\ nat[r].L = nat[N].L
                  /\ \A k \in (r + 1) .. N : GivesWay(nat[k]) /\ nat[k].L = nat[N].L
          BY <4>2 DEF Clear
        <5>2. r \in 2 .. (N + 1) /\ r \in 1 .. N
          BY <1>1
        <5>3. \A k \in (r + 1) .. (N + 1) : k = N + 1 \/ (k \in (r + 1) .. N /\ k \in 1 .. N)
          BY <1>1, <5>2
        <5> QED BY <1>2, <3>1, <4>2, <5>1, <5>2, <5>3 DEF Clear
      <4> QED BY <4>1, <4>2
    <3>3. CASE nat[N].fn = "callerrfunc"
      <4>1. e.fn = "luaD_callny" /\ z.y > 0
        BY <1>2, <2>3, <3>1, <3>3 DEF Atop, Names, Handling
      <4> QED BY <1>2, <2>3, <3>2, <4>1, <1>3, NoteIs DEF GivesWay
    <3>4. CASE N = 2 /\ nat[N].fn = "luaD_pcall"
      <4>1. e.fn = "luaD_callint" /\ ~e.from
        BY <1>2, <2>3, <3>1, <3>4 DEF Atop, Names, Handling
      <4>2. z.y > 0
        BY <1>3, <4>1, NoteIs DEF Atop, Noted
      <4> QED BY <1>2, <2>3, <3>2, <4>1, <4>2, NoteIs DEF GivesWay
    <3>5. CASE nat[N].fn # "callerrfunc" /\ ~(N = 2 /\ nat[N].fn = "luaD_pcall")
      <4>1. g[N].y = 0 <=> Clear(nat, N)
        BY <3>1, <3>5 DEF Stack, Clears
      <4>2. g[N].y \in Nat /\ (e.fn = "luaD_callint" => e.from \in BOOLEAN)
        BY <1>3, NoteIs, ElementIs
      <4>3. z.y = 0 <=> (g[N].y = 0 /\ GivesWay(e))
        BY <1>2, <2>3, <3>1, <3>5, <4>2 DEF Atop, Noted, Names, GivesWay
      <4> QED BY <1>2, <2>3, <3>2, <4>1, <4>3
    <3> QED BY <3>3, <3>4, <3>5
  <2> QED BY <2>1, <2>2, <2>3
<1> QED BY <1>4, <1>5, <1>7, <1>8, <1>9, <1>10 DEF Stack, nat2, g2

\* What the top of the stack lies on
LEMMA TopIs ==
  ASSUME NEW fast, NEW nat, NEW g, NEW N,
         nat \in Seq(Element), g \in Seq(Note), Stack(fast, nat, g), Len(nat) = N, N > 1
  PROVE  /\ N \in Nat /\ N - 1 \in Nat /\ N \in 1 .. N /\ N - 1 \in 1 .. N /\ N \in 2 .. N
         /\ Len(g) = N
         /\ nat[N] \in Element /\ nat[N - 1] \in Element /\ g[N] \in Note /\ g[N - 1] \in Note
         /\ Atop(fast, nat[N - 1], g[N - 1], nat[N], g[N])
<1>1. N \in Nat /\ Len(g) = N
  BY LenIs DEF Stack, Grounded
<1>2. N \in 1 .. N /\ N - 1 \in 1 .. N /\ N \in 2 .. N
  BY <1>1
<1>3. Atop(fast, nat[N - 1], g[N - 1], nat[N], g[N])
  BY <1>2 DEF Stack, Lies
<1>4. nat[N] \in Element /\ nat[N - 1] \in Element /\ g[N] \in Note /\ g[N - 1] \in Note
  BY <1>1, <1>2, LenIs
<1> QED BY <1>1, <1>2, <1>3, <1>4

LEMMA SameSeq ==
  ASSUME NEW S, NEW s, NEW t,
         s \in Seq(S), t \in Seq(S), Len(s) = Len(t), \A i \in 1 .. Len(s) : s[i] = t[i]
  PROVE  s = t
BY SeqEqual

LEMMA ReplaceIs ==
  ASSUME NEW S, NEW s, NEW e,
         s \in Seq(S), Len(s) > 0, e \in S
  PROVE  Append(SubSeq(s, 1, Len(s) - 1), e) = [s EXCEPT ![Len(s)] = e]
<1> DEFINE N == Len(s)
           f == SubSeq(s, 1, N - 1)
           a == Append(f, e)
           r == [s EXCEPT ![N] = e]
<1>1. N \in Nat /\ N - 1 \in 0 .. N /\ N \in 1 .. N
  BY LenIs
<1>2. f \in Seq(S) /\ Len(f) = N - 1 /\ \A i \in 1 .. (N - 1) : f[i] = s[i]
  BY <1>1, PrefixIs
<1>3. r \in Seq(S) /\ Len(r) = N /\ \A i \in 1 .. N : r[i] = IF i = N THEN e ELSE s[i]
  BY <1>1, ExceptIs
<1> HIDE DEF f, r
<1>4. /\ a \in Seq(S) /\ Len(a) = N /\ \A i \in 1 .. (N - 1) : a[i] = f[i]
      /\ a[N] = e
  BY <1>1, <1>2, AppendIs
<1> HIDE DEF a, N
<1>5. \A i \in 1 .. N : i = N \/ i \in 1 .. (N - 1)
  BY <1>1
<1>6. a = r
  BY <1>1, <1>2, <1>3, <1>4, <1>5, SameSeq
<1> QED BY <1>6 DEF a, r, f, N
LEMMA Shift ==
  ASSUME NEW m, NEW k,
         m \in Nat, k \in Nat, m - 1 = k
  PROVE  m = k + 1
OBVIOUS

\* The element on top is replaced, or its note.
LEMMA ReplaceStack ==
  ASSUME NEW fast, NEW nat, NEW g, NEW N, NEW e, NEW z,
         nat \in Seq(Element), g \in Seq(Note), Stack(fast, nat, g), Len(nat) = N, N > 1, e \in Element,
         z \in Note, Atop(fast, nat[N - 1], g[N - 1], e, z), e.fn = nat[N].fn, e.L = nat[N].L,
         e.fn = "luaD_callint" => e.from = nat[N].from
  PROVE  Stack(fast, [nat EXCEPT ![N] = e], [g EXCEPT ![N] = z])
<1> DEFINE nat1 == SubSeq(nat, 1, N - 1)
           g1 == SubSeq(g, 1, N - 1)
<1>1. N \in Nat /\ N - 1 \in 1 .. N /\ N \in 1 .. N /\ Len(g) = N /\ N \in 2 .. N
  BY TopIs
<1>2. /\ nat1 \in Seq(Element) /\ Len(nat1) = N - 1 /\ \A i \in 1 .. (N - 1) : nat1[i] = nat[i]
      /\ g1 \in Seq(Note) /\ Len(g1) = N - 1 /\ \A i \in 1 .. (N - 1) : g1[i] = g[i]
  <2>1. N - 1 \in 0 .. N
    BY <1>1
  <2> QED BY <1>1, <2>1, PrefixIs
<1>3. Stack(fast, nat1, g1)
  BY <1>1, PrefixStack
<1> HIDE DEF nat1, g1
<1>4. N - 1 \in 1 .. (N - 1) /\ nat1[N - 1] = nat[N - 1] /\ g1[N - 1] = g[N - 1]
  BY <1>1, <1>2
<1>5. Stack(fast, Append(nat1, e), Append(g1, z))
  <2>1. ASSUME N - 1 = 1
        PROVE  e.fn \in {"luaD_pcall", "lua_resume"}
    <3>1. N = 2
      BY <1>1, <2>1, Shift
    <3> QED BY <3>1 DEF Stack, Grounded
  <2>2. ASSUME N - 1 = 2, nat1[2].fn = "luaD_pcall", e.fn = "luaD_callint"
        PROVE  ~e.from
    <3>1. N = 3
      BY <1>1, <2>2, Shift
    <3>2. nat1[2] = nat[2]
      BY <1>2, <3>1
    <3>3. nat[3].fn = "luaD_callint" /\ e.from = nat[3].from
      BY <2>2, <3>1
    <3> QED BY <2>2, <3>1, <3>2, <3>3 DEF Stack, Grounded
  <2>3. ASSUME e.fn = "lua_resume", NEW k \in 2 .. (N - 1)
        PROVE  nat1[k].L # e.L
    <3>1. k \in 1 .. (N - 1)
      OBVIOUS
    <3> QED BY <1>1, <1>2, <2>3, <3>1 DEF Stack, Fresh
  <2> QED BY <1>2, <1>3, <1>4, <2>1, <2>2, <2>3, PushStack
<1>6. Append(nat1, e) = [nat EXCEPT ![N] = e] /\ Append(g1, z) = [g EXCEPT ![N] = z]
  BY <1>1, ReplaceIs DEF nat1, g1
<1> QED BY <1>5, <1>6

\* Of its own thread's elements the top is the highest, and one that runs is higher.
LEMMA TopHighest ==
  ASSUME NEW fast, NEW nat \in Seq(Element), NEW g \in Seq(Note), Stack(fast, nat, g),
         NEW N, Len(nat) = N, NEW i \in 2 .. N, nat[i].L = nat[N].L
  PROVE  /\ g[i].h <= g[N].h /\ g[i] \in Note /\ Higher(g[i], g[N])
         /\ \A k \in i .. N : nat[k].L = nat[N].L
         /\ i < N => /\ nat[N].fn # "lua_resume" /\ i \in 2 .. (N - 1)
                      /\ g[i].h <= g[N - 1].h /\ nat[N - 1].L = nat[N].L
                      /\ nat[N].fn \in {"C", "luau_execute"} => g[i].h < g[N].h
<1>1. N \in Nat /\ N > 1
  BY LenIs
<1>2. /\ N - 1 \in Nat /\ N \in 1 .. N /\ N - 1 \in 1 .. N /\ N \in 2 .. N /\ Len(g) = N
      /\ nat[N] \in Element /\ nat[N - 1] \in Element /\ g[N] \in Note /\ g[N - 1] \in Note
      /\ Atop(fast, nat[N - 1], g[N - 1], nat[N], g[N])
  BY <1>1, TopIs
<1>3. g[i].h <= g[N].h /\ Higher(g[i], g[N]) /\ \A k \in i .. N : nat[k].L = nat[N].L
  BY <1>2 DEF Stack, Rising, Together, Higher
<1>4. g[i] \in Note
  <2>1. i \in 1 .. Len(g)
    BY <1>2
  <2> QED BY <2>1, LenIs
<1>5. ASSUME i < N
      PROVE  /\ nat[N].fn # "lua_resume" /\ i \in 2 .. (N - 1)
             /\ g[i].h <= g[N - 1].h /\ nat[N - 1].L = nat[N].L
             /\ nat[N].fn \in {"C", "luau_execute"} => g[i].h < g[N].h
  <2>1. i \in 2 .. (N - 1) /\ N - 1 \in 2 .. N /\ N - 1 \in i .. N
    BY <1>1, <1>5
  <2>2. nat[N].fn # "lua_resume"
    BY <1>2, <2>1 DEF Stack, Fresh
  <2>3. nat[N - 1].L = nat[N].L
    BY <1>3, <2>1
  <2>4. g[i].h <= g[N - 1].h
    <3>1. nat[i].L = nat[N - 1].L
      BY <2>3
    <3>2. \A q \in 2 .. N : \A p \in 2 .. q : nat[p].L = nat[q].L => g[p].h <= g[q].h
      BY DEF Stack, Rising, Higher
    <3> QED BY <2>1, <3>1, <3>2
  <2>5. nat[N].fn \in {"C", "luau_execute"} => g[N - 1].h < g[N].h
    BY <1>2 DEF Atop
  <2> QED BY <1>2, <1>4, <2>1, <2>2, <2>3, <2>4, <2>5, NoteIs
<1> QED BY <1>3, <1>4, <1>5

-----------------------------------------------------------------------------
(* What the elements know                                                   *)

LEMMA BelowHeight ==
  ASSUME NEW fast, NEW nat, NEW g, NEW N,
         nat \in Seq(Element), g \in Seq(Note), Stack(fast, nat, g), Len(nat) = N, N > 1
  PROVE  \A i \in 2 .. (N - 1) : nat[i].L = nat[N].L => g[i].h <= g[N - 1].h
<1> SUFFICES ASSUME NEW i \in 2 .. (N - 1), nat[i].L = nat[N].L
             PROVE  g[i].h <= g[N - 1].h
  OBVIOUS
<1>1. N \in Nat
  BY TopIs
<1>2. N \in 2 .. Len(nat) /\ i \in 2 .. N /\ N - 1 \in i .. N /\ N - 1 \in 2 .. Len(nat) /\ i \in 2 .. (N - 1)
  BY <1>1
<1>3. nat[N - 1].L = nat[N].L
  BY <1>2 DEF Stack, Together
<1> QED BY <1>2, <1>3 DEF Stack, Rising, Higher

Agree(nat, g, nat2, g2, m) ==
    m <= Len(nat) /\ m <= Len(nat2) /\ \A i \in 1 .. m : nat2[i] = nat[i] /\ g2[i] = g[i]

\* Up to height H, f2 is f, but that marks may be gone.
Kept(f, f2, H) ==
    /\ H \in Nat /\ H <= Len(f) /\ H <= Len(f2)
    /\ \A k \in 1 .. H : /\ f2[k].kind = f[k].kind /\ f2[k].return = f[k].return
                         /\ f2[k].pcall = f[k].pcall
                         /\ (f2[k].handle => f[k].handle) /\ (f[k].forcall => f2[k].forcall)
    /\ H < Len(f2) /\ f2[H + 1].kind = "lua" =>
          f2[H + 1].return \/ (H < Len(f) /\ f[H + 1].kind = "lua" /\ ~f[H + 1].return)

LEMMA FrameIs ==
  ASSUME NEW f,
         f \in Seq(FrameType)
  PROVE  /\ Len(f) \in Nat /\ DOMAIN f = 1 .. Len(f)
         /\ \A k \in 1 .. Len(f) : f[k] \in FrameType
BY LenIs

LEMMA KnowsKept ==
  ASSUME NEW f, NEW f2, NEW d, NEW x, NEW e, NEW z, NEW fn, NEW fn2, NEW H,
         f \in Seq(FrameType), f2 \in Seq(FrameType), d \in Element, x \in Note, e \in Element, z \in Note,
         Kept(f, f2, H), Knows(f, d, x, e, z, fn), z.h <= H,
         e.fn \in {"C", "luau_execute", "luaD_performcally"} => z.h > 0,
         fn = "luaD_pcall" /\ fn2 # "luaD_pcall" /\ e.fn = "C" => ~f2[z.h].handle
  PROVE  Knows(f2, d, x, e, z, fn2)
<1>1. z.h \in Nat /\ x.h \in Nat /\ H \in Nat /\ Len(f) \in Nat /\ Len(f2) \in Nat
  BY NoteIs, LenIs DEF Kept
<1>2. z.h <= Len(f2) /\ (z.h > 0 => z.h \in 1 .. H)
  BY <1>1 DEF Kept
<1>3. e.fn = "C" => f2[z.h].kind # "lua" /\ (f2[z.h].handle => fn2 = "luaD_pcall")
  BY <1>1, <1>2 DEF Knows, Kept
<1>4. ASSUME e.fn \in Beginning, z.h < Len(f2), f2[z.h + 1].kind = "lua"
      PROVE  f2[z.h + 1].return
  <2>1. CASE z.h = H
    BY <1>1, <1>4, <2>1 DEF Knows, Kept
  <2>2. CASE z.h # H
    <3>1. z.h + 1 \in 1 .. H /\ z.h < Len(f)
      BY <1>1, <2>2 DEF Kept
    <3> QED BY <1>4, <3>1 DEF Knows, Kept
  <2> QED BY <2>1, <2>2
<1>5. e.fn = "luaD_performcally" => f2[z.h].forcall
  BY <1>1, <1>2 DEF Knows, Kept
<1>6. e.fn = "luau_execute" =>
          \/ f2[z.h].kind = "lua"
          \/ f2[z.h].pcall /\ z.h > x.h + 1 /\ z.y = 0 /\ f2[z.h - 1].kind = "lua"
  <2>1. z.h > x.h + 1 => z.h \in 1 .. H /\ z.h - 1 \in 1 .. H
    BY <1>1, <1>2
  <2> QED BY <1>1, <1>2, <2>1 DEF Knows, Kept
<1>7. ASSUME e.fn = "luau_execute", d.fn # "resume_continue" \/ z.y > 0, NEW k \in (x.h + 1) .. z.h
      PROVE  f2[k].kind = "lua" /\ (f2[k].return => k = x.h + 1)
  <2>1. k \in 1 .. H
    BY <1>1
  <2> QED BY <1>7, <2>1 DEF Knows, Kept
<1>8. e.fn = "lua_resume" /\ e.phase = "handling" =>
          z.h > 0 /\ f2[z.h].kind = "cont" /\ ~f2[z.h].handle
  BY <1>1, <1>2 DEF Knows, Kept
<1> QED BY <1>2, <1>3, <1>4, <1>5, <1>6, <1>7, <1>8 DEF Knows

\* Elements that run, and what they called, are above the first frame.
LEMMA HeightIs ==
  ASSUME NEW fast, NEW d, NEW x, NEW e, NEW z,
         d \in Element, x \in Note, e \in Element, z \in Note, Atop(fast, d, x, e, z),
         e.fn \in {"C", "luau_execute"}
  PROVE  z.h > 0 /\ z.h \in Nat
BY NoteIs DEF Atop

LEMMA KnownOn ==
  ASSUME NEW fast, NEW u, NEW f, NEW f2, NEW nat, NEW g, NEW nat2, NEW g2, NEW m, NEW fn, NEW fn2, NEW H,
         f \in Seq(FrameType), f2 \in Seq(FrameType), nat \in Seq(Element), g \in Seq(Note),
         Stack(fast, nat, g), nat2 \in Seq(Element), g2 \in Seq(Note), m \in Nat, Agree(nat, g, nat2, g2, m),
         Known(u, f, nat, g, m, fn), Kept(f, f2, H), \A i \in 2 .. m : nat[i].L = u => g[i].h <= H,
         fn = "luaD_pcall" /\ fn2 # "luaD_pcall" /\ nat[m].fn = "C" /\ nat[m].L = u => ~f2[g[m].h].handle
  PROVE  Known(u, f2, nat2, g2, m, fn2)
<1> SUFFICES ASSUME NEW i \in 2 .. m, nat2[i].L = u
             PROVE  Knows(f2, nat2[i - 1], g2[i - 1], nat2[i], g2[i], IF i < m THEN nat2[i + 1].fn ELSE fn2)
  BY DEF Known
<1>1. Len(nat) \in Nat /\ Len(g) = Len(nat) /\ m <= Len(nat)
  BY LenIs DEF Stack, Grounded, Agree
<1>2. i \in 1 .. m /\ i - 1 \in 1 .. m /\ i \in 1 .. Len(nat) /\ i - 1 \in 1 .. Len(nat) /\ i \in 2 .. Len(nat)
  BY <1>1
<1>3. i < m => i + 1 \in 1 .. m /\ nat2[i + 1].fn = nat[i + 1].fn
  BY <1>1, <1>2 DEF Agree
<1>4. /\ nat[i] \in Element /\ nat[i - 1] \in Element /\ g[i] \in Note /\ g[i - 1] \in Note
      /\ nat2[i] = nat[i] /\ nat2[i - 1] = nat[i - 1] /\ g2[i] = g[i] /\ g2[i - 1] = g[i - 1]
  BY <1>1, <1>2, LenIs DEF Agree
<1>5. Atop(fast, nat[i - 1], g[i - 1], nat[i], g[i])
  BY <1>2 DEF Stack, Lies
<1>6. Knows(f, nat[i - 1], g[i - 1], nat[i], g[i], IF i < m THEN nat[i + 1].fn ELSE fn)
  BY <1>4 DEF Known
<1>7. g[i].h <= H
  BY <1>4
<1>8. nat[i].fn \in {"C", "luau_execute", "luaD_performcally"} => g[i].h > 0
  <2>1. CASE nat[i].fn = "luaD_performcally"
    <3>1. nat[i - 1].fn = "luau_execute" /\ g[i].h = g[i - 1].h
      BY <1>5, <2>1 DEF Atop, Noted
    <3>2. i - 1 # 1
      BY <3>1 DEF Stack, Grounded, Native
    <3>3. i - 1 \in 2 .. Len(nat) /\ (i - 1) - 1 \in 1 .. Len(nat)
      BY <1>1, <1>2, <3>2
    <3>4. Atop(fast, nat[(i - 1) - 1], g[(i - 1) - 1], nat[i - 1], g[i - 1])
      BY <3>3 DEF Stack, Lies
    <3>5. nat[(i - 1) - 1] \in Element /\ g[(i - 1) - 1] \in Note
      BY <1>1, <3>3, LenIs
    <3> QED BY <1>4, <3>1, <3>4, <3>5, HeightIs
  <2> QED BY <1>4, <1>5, <2>1, HeightIs
<1>9. CASE i < m
  <2>1. Knows(f, nat[i - 1], g[i - 1], nat[i], g[i], nat[i + 1].fn)
    BY <1>6, <1>9
  <2> DEFINE a == nat[i + 1].fn
  <2>2. Knows(f, nat[i - 1], g[i - 1], nat[i], g[i], a)
    BY <2>1
  <2>3. Knows(f2, nat[i - 1], g[i - 1], nat[i], g[i], a)
    <3> HIDE DEF a
    <3> QED BY <1>4, <1>7, <1>8, <2>2, KnowsKept
  <2> QED BY <1>3, <1>4, <1>9, <2>3
<1>10. CASE ~(i < m)
  <2>1. i = m
    BY <1>2, <1>10
  <2>2. Knows(f, nat[i - 1], g[i - 1], nat[i], g[i], fn)
    BY <1>6, <1>10
  <2>3. fn = "luaD_pcall" /\ fn2 # "luaD_pcall" /\ nat[i].fn = "C" => ~f2[g[i].h].handle
    BY <1>4, <2>1
  <2>4. Knows(f2, nat[i - 1], g[i - 1], nat[i], g[i], fn2)
    BY <1>4, <1>7, <1>8, <2>2, <2>3, KnowsKept
  <2> QED BY <1>4, <1>10, <2>4
<1> QED BY <1>9, <1>10

\* One more element
LEMMA KnownPush ==
  ASSUME NEW u, NEW f, NEW nat, NEW g, NEW e, NEW z, NEW fn,
         nat \in Seq(Element), g \in Seq(Note), Len(g) = Len(nat), Len(nat) > 0, e \in Element, z \in Note,
         Known(u, f, nat, g, Len(nat), e.fn), e.L = u => Knows(f, nat[Len(nat)], g[Len(nat)], e, z, fn)
  PROVE  Known(u, f, Append(nat, e), Append(g, z), Len(nat) + 1, fn)
<1> DEFINE N == Len(nat)
           nat2 == Append(nat, e)
           g2 == Append(g, z)
<1>1. N \in Nat /\ N > 0
  BY LenIs
<1>2. /\ \A i \in 1 .. N : nat2[i] = nat[i] /\ g2[i] = g[i]
      /\ nat2[N + 1] = e /\ g2[N + 1] = z
  BY <1>1, AppendIs
<1> HIDE DEF nat2, g2
<1> SUFFICES ASSUME NEW i \in 2 .. (N + 1), nat2[i].L = u
             PROVE  Knows(f, nat2[i - 1], g2[i - 1], nat2[i], g2[i], IF i < N + 1 THEN nat2[i + 1].fn ELSE fn)
  BY DEF Known, nat2, g2
<1>3. CASE i = N + 1
  <2>1. N \in 1 .. N /\ i - 1 = N
    BY <1>1, <1>3
  <2> QED BY <1>1, <1>2, <1>3, <2>1
<1>4. CASE i = N
  <2>1. N \in 2 .. N /\ i - 1 \in 1 .. N /\ i \in 1 .. N /\ i < N + 1 /\ ~(i < N)
    BY <1>1, <1>4
  <2>2. Knows(f, nat[i - 1], g[i - 1], nat[i], g[i], e.fn)
    BY <1>2, <1>4, <2>1 DEF Known
  <2> QED BY <1>2, <1>4, <2>1, <2>2
<1>5. CASE i < N
  <2>1. i \in 2 .. N /\ i - 1 \in 1 .. N /\ i \in 1 .. N /\ i + 1 \in 1 .. N /\ i < N + 1
    BY <1>1, <1>5
  <2>2. Knows(f, nat[i - 1], g[i - 1], nat[i], g[i], nat[i + 1].fn)
    BY <1>2, <1>5, <2>1 DEF Known
  <2> QED BY <1>2, <2>1, <2>2
<1> QED BY <1>1, <1>3, <1>4, <1>5

\* One less, and the last one
LEMMA KnownPop ==
  ASSUME NEW u, NEW f, NEW nat, NEW g, NEW N, NEW fn,
         nat \in Seq(Element), Len(nat) = N, N > 1, Known(u, f, nat, g, N, fn)
  PROVE  /\ Known(u, f, nat, g, N - 1, nat[N].fn)
         /\ nat[N].L = u => Knows(f, nat[N - 1], g[N - 1], nat[N], g[N], fn)
<1>1. N \in Nat /\ N \in 2 .. N /\ ~(N < N)
  BY LenIs
<1>2. ASSUME NEW i \in 2 .. (N - 1), nat[i].L = u
      PROVE  Knows(f, nat[i - 1], g[i - 1], nat[i], g[i], IF i < N - 1 THEN nat[i + 1].fn ELSE nat[N].fn)
  <2>1. i \in 2 .. N /\ i < N
    BY <1>1
  <2>2. Knows(f, nat[i - 1], g[i - 1], nat[i], g[i], nat[i + 1].fn)
    BY <1>2, <2>1 DEF Known
  <2>3. ~(i < N - 1) => i + 1 = N
    BY <1>1, <2>1
  <2> QED BY <2>2, <2>3
<1>3. nat[N].L = u => Knows(f, nat[N - 1], g[N - 1], nat[N], g[N], fn)
  BY <1>1 DEF Known
<1> QED BY <1>2, <1>3 DEF Known

\* And with the last one again
LEMMA KnownTop ==
  ASSUME NEW u, NEW f, NEW nat, NEW g, NEW N, NEW fn,
         N \in Nat, N > 1, Known(u, f, nat, g, N - 1, nat[N].fn),
         nat[N].L = u => Knows(f, nat[N - 1], g[N - 1], nat[N], g[N], fn)
  PROVE  Known(u, f, nat, g, N, fn)
<1> SUFFICES ASSUME NEW i \in 2 .. N, nat[i].L = u
             PROVE  Knows(f, nat[i - 1], g[i - 1], nat[i], g[i], IF i < N THEN nat[i + 1].fn ELSE fn)
  BY DEF Known
<1>1. CASE i = N
  BY <1>1
<1>2. CASE i # N
  <2>1. i \in 2 .. (N - 1) /\ i < N /\ (~(i < N - 1) => i + 1 = N)
    BY <1>2
  <2>2. Knows(f, nat[i - 1], g[i - 1], nat[i], g[i], IF i < N - 1 THEN nat[i + 1].fn ELSE nat[N].fn)
    BY <2>1 DEF Known
  <2> QED BY <2>1, <2>2
<1> QED BY <1>1, <1>2

-----------------------------------------------------------------------------
(* What explains the others                                                 *)

Excused(u, f, k, nat, g, throws) == Calls(u, f, k, nat) \/ Failed(u, k, nat, g, throws)

\* Element e is what called from frame k.
CalledFrom(u, f, e, k) ==
    /\ e.L = u /\ e.frames = k
    /\ e.fn = "luaD_performcally" \/ (e.fn = "luaD_callint" /\ ~e.from /\ f[k].kind # "lua")

\* No element above element m excuses frame k.
Unneeded(u, f, k, nat, g, m) ==
    \A j \in (m + 1) .. Len(nat) : ~CalledFrom(u, f, nat[j], k) /\ ~(nat[j].L = u /\ Handling(nat[j]) /\ g[j].h <= k)

LEMMA ExcusedOn ==
  ASSUME NEW u, NEW f, NEW f2, NEW k, NEW nat, NEW g, NEW nat2, NEW g2, NEW m,
         nat \in Seq(Element), nat2 \in Seq(Element), m \in Nat, Agree(nat, g, nat2, g2, m),
         f2[k].kind = f[k].kind, Excused(u, f, k, nat, g, FALSE),
         Unneeded(u, f, k, nat, g, m)
  PROVE  Excused(u, f2, k, nat2, g2, FALSE)
<1>1. Len(nat) \in Nat /\ Len(nat2) \in Nat
  BY LenIs
<1>2. \A j \in 2 .. Len(nat) : j \in (m + 1) .. Len(nat) \/ (j \in 1 .. m /\ j \in 2 .. Len(nat2) /\ nat2[j] = nat[j] /\ g2[j] = g[j])
  <2> SUFFICES ASSUME NEW j \in 2 .. Len(nat), j \notin (m + 1) .. Len(nat)
               PROVE  j \in 1 .. m /\ j \in 2 .. Len(nat2) /\ nat2[j] = nat[j] /\ g2[j] = g[j]
    OBVIOUS
  <2>1. j \in 1 .. m /\ j \in 2 .. Len(nat2)
    BY <1>1 DEF Agree
  <2> QED BY <2>1 DEF Agree
<1>3. CASE Calls(u, f, k, nat)
  <2>1. PICK j \in 2 .. Len(nat) : /\ nat[j].L = u
                                   /\ \/ nat[j].fn = "luaD_performcally"
                                      \/ nat[j].fn = "luaD_callint" /\ ~nat[j].from /\ f[k].kind # "lua"
                                   /\ nat[j].frames = k
    BY <1>3 DEF Calls
  <2>2. j \in 2 .. Len(nat2) /\ nat2[j] = nat[j]
    BY <1>2, <2>1 DEF CalledFrom, Unneeded
  <2>3. Calls(u, f2, k, nat2)
    BY <2>1, <2>2 DEF Calls
  <2> QED BY <2>3 DEF Excused
<1>4. CASE Failed(u, k, nat, g, FALSE)
  <2>1. PICK j \in 2 .. Len(nat) : nat[j].L = u /\ g[j].h <= k /\ Handling(nat[j])
    BY <1>4 DEF Failed
  <2>2. j \in 2 .. Len(nat2) /\ nat2[j] = nat[j] /\ g2[j] = g[j]
    BY <1>2, <2>1 DEF Unneeded
  <2>3. Failed(u, k, nat2, g2, FALSE)
    BY <2>1, <2>2 DEF Failed
  <2> QED BY <2>3 DEF Excused
<1> QED BY <1>3, <1>4 DEF Excused

\* The nearest protected call is below frame k.
Caught(u, k, nat, g) ==
    \E j \in 2 .. Len(nat) : /\ nat[j].L = u /\ g[j].h <= k
                             /\ Protects(nat[j]) /\ \A m \in (j + 1) .. Len(nat) : ~Protects(nat[m])

\* What is bad in f2 was so before, and what excused it is still there, or something new does.
ExplainedKept(u, f, f2, nat, g, nat2, g2, m, throws, throws2) ==
    \A k \in DOMAIN f2 : Bad(f2, k) =>
        \/ /\ k \in DOMAIN f /\ Bad(f, k) /\ f2[k].kind = f[k].kind
           /\ Unneeded(u, f, k, nat, g, m) /\ (throws => ~Caught(u, k, nat, g))
        \/ Excused(u, f2, k, nat2, g2, throws2)

LEMMA ExplainedOn ==
  ASSUME NEW u, NEW f, NEW f2, NEW nat, NEW g, NEW nat2, NEW g2, NEW m, NEW throws, NEW throws2,
         nat \in Seq(Element), nat2 \in Seq(Element), m \in Nat, Agree(nat, g, nat2, g2, m),
         Explained(u, f, nat, g, throws), ExplainedKept(u, f, f2, nat, g, nat2, g2, m, throws, throws2)
  PROVE  Explained(u, f2, nat2, g2, throws2)
<1> SUFFICES ASSUME NEW k \in DOMAIN f2, Bad(f2, k)
             PROVE  Excused(u, f2, k, nat2, g2, throws2)
  BY DEF Explained, Excused
<1>1. CASE /\ k \in DOMAIN f /\ Bad(f, k) /\ f2[k].kind = f[k].kind
           /\ Unneeded(u, f, k, nat, g, m) /\ (throws => ~Caught(u, k, nat, g))
  <2>1. Excused(u, f, k, nat, g, FALSE)
    BY <1>1 DEF Explained, Excused, Failed, Caught
  <2>2. Excused(u, f2, k, nat2, g2, FALSE)
    BY <1>1, <2>1, ExcusedOn
  <2> QED BY <2>2 DEF Excused, Failed
<1> QED BY <1>1 DEF ExplainedKept

\* When it has been caught
LEMMA ExplainedCaught ==
  ASSUME NEW u, NEW f, NEW f2, NEW nat, NEW g, NEW nat2, NEW g2, NEW m,
         nat \in Seq(Element), nat2 \in Seq(Element), m \in Nat, Agree(nat, g, nat2, g2, m),
         Explained(u, f, nat, g, TRUE), ExplainedKept(u, f, f2, nat, g, nat2, g2, m, TRUE, FALSE)
  PROVE  Explained(u, f2, nat2, g2, FALSE)
<1> SUFFICES ASSUME NEW k \in DOMAIN f2, Bad(f2, k)
             PROVE  Excused(u, f2, k, nat2, g2, FALSE)
  BY DEF Explained, Excused
<1>1. CASE /\ k \in DOMAIN f /\ Bad(f, k) /\ f2[k].kind = f[k].kind
           /\ Unneeded(u, f, k, nat, g, m) /\ ~Caught(u, k, nat, g)
  <2>1. Excused(u, f, k, nat, g, FALSE)
    BY <1>1 DEF Explained, Excused, Failed, Caught
  <2> QED BY <1>1, <2>1, ExcusedOn
<1> QED BY <1>1 DEF ExplainedKept

\* A protected call of frame p among elements i and later
HasPcall(u, nat, i, p) ==
    \E j \in i .. Len(nat) : nat[j].L = u /\ nat[j].fn = "luaD_pcall" /\ nat[j].frames = p

\* Marks of f2 were marks of f, or their protected calls are new; a new one has none above it.
MarksKept(fast, u, f, f2, nat, nat2, g2, m) ==
    /\ \A p \in DOMAIN f2 : f2[p].handle =>
          \/ /\ p \in DOMAIN f /\ f[p].handle
             /\ (\E k \in 1 .. (p - 1) : Bad(f2, k)) => \E k \in 1 .. (p - 1) : Bad(f, k)
             /\ \A j \in (m + 1) .. Len(nat) : nat[j].L = u /\ nat[j].fn = "luaD_pcall" => nat[j].frames # p
          \/ m > 0 /\ HasPcall(u, nat2, m + 1, p)
    /\ ~fast => \A i \in (m + 1) .. Len(nat2) : nat2[i].L = u /\ nat2[i].fn = "luaD_pcall" =>
          \A p \in (g2[i].h + 1) .. Len(f2) : ~f2[p].handle

LEMMA MarksOn ==
  ASSUME NEW fast, NEW u, NEW f, NEW f2, NEW nat, NEW g, NEW nat2, NEW g2, NEW m,
         f \in Seq(FrameType), f2 \in Seq(FrameType), nat \in Seq(Element), nat2 \in Seq(Element),
         g2 \in Seq(Note), Len(g2) = Len(nat2), m \in Nat, Agree(nat, g, nat2, g2, m),
         Marks(fast, u, f, nat, g), MarksKept(fast, u, f, f2, nat, nat2, g2, m)
  PROVE  Marks(fast, u, f2, nat2, g2)
<1>1. Len(nat) \in Nat /\ Len(nat2) \in Nat /\ m <= Len(nat) /\ m <= Len(nat2)
  BY LenIs DEF Agree
<1>2. \A j \in 1 .. m : j \in 1 .. Len(nat) /\ nat2[j] = nat[j] /\ g2[j] = g[j]
  BY <1>1 DEF Agree
<1>3. DOMAIN f = 1 .. Len(f) /\ DOMAIN f2 = 1 .. Len(f2) /\ Len(f) \in Nat /\ Len(f2) \in Nat
  BY FrameIs
<1>4. ASSUME NEW p \in DOMAIN f2, f2[p].handle, NEW i \in 1 .. m, HasPcall(u, nat, i + 1, p), p \in DOMAIN f,
             \A j \in (m + 1) .. Len(nat) : nat[j].L = u /\ nat[j].fn = "luaD_pcall" => nat[j].frames # p
      PROVE  HasPcall(u, nat2, i + 1, p)
  <2>1. PICK j \in (i + 1) .. Len(nat) : nat[j].L = u /\ nat[j].fn = "luaD_pcall" /\ nat[j].frames = p
    BY <1>4 DEF HasPcall
  <2>2. j \in 1 .. m /\ j \in (i + 1) .. Len(nat2)
    BY <1>1, <1>4, <2>1
  <2> QED BY <1>2, <2>1, <2>2 DEF HasPcall
<1>5. ASSUME NEW p \in DOMAIN f2, f2[p].handle, \E k \in 1 .. (p - 1) : Bad(f2, k)
      PROVE  HasPcall(u, nat2, 2, p)
  <2>1. CASE m > 0 /\ HasPcall(u, nat2, m + 1, p)
    <3>1. \A j \in (m + 1) .. Len(nat2) : j \in 2 .. Len(nat2)
      BY <1>1, <2>1
    <3> QED BY <2>1, <3>1 DEF HasPcall
  <2>2. CASE /\ p \in DOMAIN f /\ f[p].handle
             /\ (\E k \in 1 .. (p - 1) : Bad(f2, k)) => \E k \in 1 .. (p - 1) : Bad(f, k)
             /\ \A j \in (m + 1) .. Len(nat) : nat[j].L = u /\ nat[j].fn = "luaD_pcall" => nat[j].frames # p
    <3>1. PICK j \in 2 .. Len(nat) : nat[j].L = u /\ nat[j].fn = "luaD_pcall" /\ nat[j].frames = p
      BY <1>5, <2>2 DEF Marks
    <3>2. j \in 1 .. m /\ j \in 2 .. Len(nat2)
      BY <1>1, <2>2, <3>1
    <3> QED BY <1>2, <3>1, <3>2 DEF HasPcall
  <2> QED BY <1>5, <2>1, <2>2 DEF MarksKept
<1>6. ASSUME ~fast, NEW i \in 2 .. Len(nat2), nat2[i].L = u, nat2[i].fn = "luaD_pcall",
             NEW p \in (g2[i].h + 1) .. Len(f2), f2[p].handle, p \in DOMAIN f2
      PROVE  HasPcall(u, nat2, i + 1, p)
  <2>1. CASE i \in (m + 1) .. Len(nat2)
    BY <1>6, <2>1 DEF MarksKept
  <2>2. CASE i \in 1 .. m
    <3>0. i \in 2 .. Len(nat)
      BY <1>1, <2>2
    <3>1. i \in 2 .. Len(nat) /\ nat[i] = nat2[i] /\ g[i] = g2[i]
      BY <1>2, <2>2, <3>0
    <3>2. CASE m > 0 /\ HasPcall(u, nat2, m + 1, p)
      <4>1. \A j \in (m + 1) .. Len(nat2) : j \in (i + 1) .. Len(nat2)
        BY <1>1, <2>2
      <4> QED BY <3>2, <4>1 DEF HasPcall
    <3>3. CASE /\ p \in DOMAIN f /\ f[p].handle
               /\ \A j \in (m + 1) .. Len(nat) : nat[j].L = u /\ nat[j].fn = "luaD_pcall" => nat[j].frames # p
      <4>1. p \in (g[i].h + 1) .. Len(f)
        BY <1>3, <1>6, <3>1, <3>3
      <4>2. HasPcall(u, nat, i + 1, p)
        BY <1>6, <3>1, <3>3, <4>1 DEF Marks, HasPcall
      <4> QED BY <1>4, <1>6, <2>2, <3>3, <4>2
    <3> QED BY <1>6, <3>2, <3>3 DEF MarksKept
  <2> QED BY <1>1, <2>1, <2>2
<1>7. ASSUME NEW i \in 2 .. Len(nat2), NEW p \in (g2[i].h + 1) .. Len(f2)
      PROVE  p \in DOMAIN f2
  <2>1. i \in 1 .. Len(g2)
    BY <1>1
  <2>2. g2[i].h \in Nat
    BY <2>1, LenIs, NoteIs
  <2> QED BY <1>3, <2>2
<1>8. \A p \in DOMAIN f2 : f2[p].handle /\ (\E k \in 1 .. (p - 1) : Bad(f2, k)) =>
          \E j \in 2 .. Len(nat2) : nat2[j].L = u /\ nat2[j].fn = "luaD_pcall" /\ nat2[j].frames = p
  BY <1>5 DEF HasPcall
<1>9. ~fast => \A i \in 2 .. Len(nat2) : (nat2[i].L = u /\ nat2[i].fn = "luaD_pcall") =>
          \A p \in (g2[i].h + 1) .. Len(f2) : f2[p].handle =>
              \E j \in (i + 1) .. Len(nat2) : nat2[j].L = u /\ nat2[j].fn = "luaD_pcall" /\ nat2[j].frames = p
  BY <1>6, <1>7 DEF HasPcall
<1> QED BY <1>8, <1>9 DEF Marks

-----------------------------------------------------------------------------
(* Call frames                                                              *)

LEMMA NewFrame ==
  ASSUME NEW kind,
         kind \in Kind
  PROVE  /\ Frame(kind) \in FrameType /\ Return(kind) \in FrameType
         /\ Frame(kind).kind = kind /\ Return(kind).kind = kind
         /\ Return(kind).return = (kind = "lua") /\ ~Frame(kind).return
         /\ \A r \in {Frame(kind), Return(kind)} : ~r.handle /\ ~r.pcall /\ ~r.forcall /\ ~r.opyield
         /\ Return("lua").return
<1>1. ASSUME NEW k \in Kind
      PROVE  /\ Frame(k) \in FrameType /\ Frame(k).kind = k /\ ~Frame(k).return
             /\ ~Frame(k).handle /\ ~Frame(k).pcall /\ ~Frame(k).forcall /\ ~Frame(k).opyield
  BY DEF Frame, FrameType
<1>2. ASSUME NEW k \in Kind, NEW v \in BOOLEAN
      PROVE  LET r == [Frame(k) EXCEPT !.return = v]
             IN /\ r \in FrameType /\ r.kind = k /\ r.return = v
                /\ ~r.handle /\ ~r.pcall /\ ~r.forcall /\ ~r.opyield
  BY DEF Frame, FrameType
<1>3. ASSUME NEW k \in Kind
      PROVE  /\ Return(k) \in FrameType /\ Return(k).kind = k /\ Return(k).return = (k = "lua")
             /\ ~Return(k).handle /\ ~Return(k).pcall /\ ~Return(k).forcall /\ ~Return(k).opyield
  <2>1. PICK v : v = (k = "lua")
    OBVIOUS
  <2>2. v \in BOOLEAN
    BY <2>1, Zenon
  <2>3. Return(k) = [Frame(k) EXCEPT !.return = v]
    BY <2>1, Zenon DEF Return
  <2>4. LET r == [Frame(k) EXCEPT !.return = v]
        IN /\ r \in FrameType /\ r.kind = k /\ r.return = v
           /\ ~r.handle /\ ~r.pcall /\ ~r.forcall /\ ~r.opyield
    BY <1>2, <2>2
  <2> QED BY <2>1, <2>3, <2>4, Zenon
<1>4. "lua" \in Kind
  BY DEF Kind
<1> QED BY <1>1, <1>3, <1>4

\* What is bad in f up to height m
LEMMA BadPrefix ==
  ASSUME NEW f, NEW m,
         f \in Seq(FrameType), m \in 0 .. Len(f)
  PROVE  /\ SubSeq(f, 1, m) \in Seq(FrameType) /\ Len(SubSeq(f, 1, m)) = m
         /\ \A k \in 1 .. m : SubSeq(f, 1, m)[k] = f[k] /\ k \in DOMAIN f
         /\ \A k \in 1 .. m : Bad(SubSeq(f, 1, m), k) => Bad(f, k)
         /\ DOMAIN SubSeq(f, 1, m) = 1 .. m
<1> DEFINE s == SubSeq(f, 1, m)
<1>1. Len(f) \in Nat /\ DOMAIN f = 1 .. Len(f)
  BY FrameIs
<1>2. s \in Seq(FrameType) /\ Len(s) = m /\ \A k \in 1 .. m : s[k] = f[k]
  BY PrefixIs
<1>3. DOMAIN s = 1 .. m
  BY <1>2, FrameIs
<1> HIDE DEF s
<1>4. \A k \in 1 .. m : Bad(s, k) => Bad(f, k)
  BY <1>1, <1>2 DEF Bad
<1>5. \A k \in 1 .. m : k \in DOMAIN f
  BY <1>1
<1> QED BY <1>2, <1>3, <1>4, <1>5 DEF s

LEMMA FramesPrefix ==
  ASSUME NEW fast, NEW f, NEW m,
         f \in Seq(FrameType), FramesOK(fast, f), m \in 0 .. Len(f)
  PROVE  FramesOK(fast, SubSeq(f, 1, m))
<1> DEFINE s == SubSeq(f, 1, m)
<1>1. Len(s) = m /\ DOMAIN s = 1 .. m /\ \A k \in 1 .. m : s[k] = f[k] /\ k \in DOMAIN f
  BY BadPrefix
<1> HIDE DEF s
<1>2. \A k \in 1 .. m : k > 1 => k - 1 \in 1 .. m
  OBVIOUS
<1>3. FramesOK(fast, s)
  BY <1>1, <1>2 DEF FramesOK
<1> QED BY <1>3 DEF s

\* Frame r on top of frames f
Pushed(fast, f, r, s) ==
    /\ s \in Seq(FrameType) /\ FramesOK(fast, s)
    /\ Len(s) = Len(f) + 1 /\ s[Len(f) + 1] = r
    /\ DOMAIN s = 1 .. (Len(f) + 1)
    /\ \A k \in 1 .. Len(f) : s[k] = f[k]
    /\ \A k \in DOMAIN s : Bad(s, k) =>
          k \in DOMAIN f /\ (Bad(f, k) \/ (k = Len(f) /\ f[k].kind = "c"))

LEMMA PushedIs ==
  ASSUME NEW fast, NEW f, NEW r, NEW s,
         f \in Seq(FrameType), FramesOK(fast, f), r \in FrameType,
         r.kind = "lua" /\ ~r.return => f # <<>> /\ f[Len(f)].kind = "lua",
         r.handle \/ r.pcall => r.kind = "cont", ~r.forcall, ~r.opyield, s = Append(f, r)
  PROVE  Pushed(fast, f, r, s)
<1>1. Len(f) \in Nat /\ DOMAIN f = 1 .. Len(f) /\ (f = <<>> <=> Len(f) = 0)
  BY FrameIs, LenIs
<1>2. /\ s \in Seq(FrameType) /\ Len(s) = Len(f) + 1 /\ s[Len(f) + 1] = r
      /\ \A k \in 1 .. Len(f) : s[k] = f[k]
  BY AppendIs
<1>3. DOMAIN s = 1 .. (Len(f) + 1)
  BY <1>2, FrameIs
<1>4. \A k \in 1 .. (Len(f) + 1) : k = Len(f) + 1 \/ k \in 1 .. Len(f)
  BY <1>1
<1>5. ASSUME NEW k \in DOMAIN s
      PROVE  /\ s[k].kind = "lua" /\ ~s[k].return => k > 1 /\ s[k - 1].kind = "lua"
             /\ s[k].handle \/ s[k].pcall => s[k].kind = "cont"
             /\ s[k].forcall \/ s[k].opyield => s[k].kind = "lua"
             /\ fast => s[k].forcall = s[k].opyield
  <2>1. CASE k = Len(f) + 1
    <3>1. f # <<>> => Len(f) > 0 /\ Len(f) \in 1 .. Len(f) /\ k - 1 = Len(f) /\ k > 1
      BY <1>1, <2>1
    <3>2. s[k] = r
      BY <1>2, <2>1
    <3>3. s[k].forcall = FALSE /\ s[k].opyield = FALSE
      BY <3>2 DEF FrameType
    <3> QED BY <1>2, <2>1, <3>1, <3>2, <3>3
  <2>2. CASE k \in 1 .. Len(f)
    <3>1. k > 1 => k - 1 \in 1 .. Len(f)
      BY <1>1, <2>2
    <3> QED BY <1>1, <1>2, <2>2, <3>1 DEF FramesOK
  <2> QED BY <1>3, <1>4, <2>1, <2>2
<1>6. ASSUME NEW k \in DOMAIN s, Bad(s, k)
      PROVE  k \in DOMAIN f /\ (Bad(f, k) \/ (k = Len(f) /\ f[k].kind = "c"))
  <2>1. k # Len(f) + 1
    <3> SUFFICES ASSUME k = Len(f) + 1
                 PROVE  FALSE
      OBVIOUS
    <3>1. s[k] = r /\ ~(k < Len(s)) /\ r.forcall = FALSE /\ r.opyield = FALSE
      BY <1>1, <1>2 DEF FrameType
    <3> QED BY <1>6, <3>1 DEF Bad
  <2>2. k \in 1 .. Len(f) /\ s[k] = f[k]
    BY <1>2, <1>3, <1>4, <2>1
  <2> QED BY <1>1, <1>2, <1>6, <2>2 DEF Bad
<1>7. FramesOK(fast, s)
  BY <1>5 DEF FramesOK
<1> QED BY <1>2, <1>3, <1>6, <1>7 DEF Pushed

LEMMA FramesChange ==
  ASSUME NEW fast, NEW f, NEW m, NEW r,
         f \in Seq(FrameType), FramesOK(fast, f), m \in 1 .. Len(f), r \in FrameType, r.kind = f[m].kind,
         r.return = f[m].return, r.handle \/ r.pcall => r.kind = "cont",
         r.forcall \/ r.opyield => r.kind = "lua", fast => r.forcall = r.opyield
  PROVE  /\ FramesOK(fast, [f EXCEPT ![m] = r]) /\ [f EXCEPT ![m] = r] \in Seq(FrameType)
         /\ Len([f EXCEPT ![m] = r]) = Len(f)
         /\ DOMAIN [f EXCEPT ![m] = r] = DOMAIN f
         /\ \A k \in 1 .. Len(f) : [f EXCEPT ![m] = r][k] = IF k = m THEN r ELSE f[k]
         /\ \A k \in DOMAIN f : k # m => (Bad([f EXCEPT ![m] = r], k) => Bad(f, k))
<1> DEFINE s == [f EXCEPT ![m] = r]
<1>1. Len(f) \in Nat /\ DOMAIN f = 1 .. Len(f)
  BY FrameIs
<1>2. s \in Seq(FrameType) /\ Len(s) = Len(f) /\ \A k \in 1 .. Len(f) : s[k] = IF k = m THEN r ELSE f[k]
  BY ExceptIs
<1>3. DOMAIN s = 1 .. Len(f)
  BY <1>2, FrameIs
<1> HIDE DEF s
<1>4. \A k \in 1 .. Len(f) : k > 1 => k - 1 \in 1 .. Len(f)
  OBVIOUS
<1>5. FramesOK(fast, s)
  BY <1>1, <1>2, <1>3, <1>4 DEF FramesOK
<1>6. \A k \in DOMAIN f : k # m => (Bad(s, k) => Bad(f, k))
  BY <1>1, <1>2 DEF Bad
<1> QED BY <1>1, <1>2, <1>3, <1>5, <1>6 DEF s

-----------------------------------------------------------------------------
(* What gives way to a yield                                                *)

\* Where a thread can yield, it handles no error, and no C function waits that cannot.
LEMMA Calm ==
  ASSUME NEW fast, NEW nat, NEW g, NEW N, NEW j,
         nat \in Seq(Element), g \in Seq(Note), Stack(fast, nat, g), Len(nat) = N, N > 1, Clear(nat, N),
         ~Handling(nat[N]), j \in 2 .. N, nat[j].L = nat[N].L
  PROVE  /\ ~Handling(nat[j]) /\ ~(nat[j].fn = "luaD_callint" /\ ~nat[j].from)
         /\ nat[j].fn = "lua_resume" \/ GivesWay(nat[j])
<1>1. N \in Nat
  BY LenIs
<1>2. PICK r \in 2 .. N : /\ nat[r].fn = "lua_resume" /\ nat[r].L = nat[N].L
                          /\ \A k \in (r + 1) .. N : GivesWay(nat[k]) /\ nat[k].L = nat[N].L
  BY DEF Clear
<1>3. j >= r
  <2> SUFFICES ASSUME j < r
               PROVE  FALSE
    BY <1>1
  <2>1. j \in 2 .. (r - 1)
    BY <1>1
  <2> QED BY <1>2, <2>1 DEF Stack, Fresh
<1>4. j = r \/ j \in (r + 1) .. N
  BY <1>1, <1>3
<1>5. nat[j].fn = "lua_resume" \/ GivesWay(nat[j])
  BY <1>2, <1>4
<1>6. ~(nat[j].fn = "luaD_callint" /\ ~nat[j].from)
  BY <1>5 DEF GivesWay
<1>7. ~Handling(nat[j])
  <2>1. CASE j = N
    BY <2>1
  <2>2. CASE j # N
    <3>1. /\ j + 1 \in (r + 1) .. N /\ j + 1 \in 2 .. N /\ (j + 1) - 1 = j
          /\ j + 1 \in 1 .. N
      BY <1>1, <1>3, <2>2
    <3>2. Atop(fast, nat[j], g[j], nat[j + 1], g[j + 1])
      BY <3>1 DEF Stack, Lies
    <3>3. nat[j + 1] \in Element
      BY <3>1, LenIs
    <3>4. GivesWay(nat[j + 1]) /\ nat[j + 1].fn \in Names
      BY <1>2, <3>1, <3>3, ElementIs
    <3> QED BY <3>2, <3>4 DEF Atop, GivesWay, Handling, Names
  <2> QED BY <2>1, <2>2
<1> QED BY <1>5, <1>6, <1>7

\* There only a call of FORGLOOP is unfinished, and no C function without continuation.
\* Frame k is bad only for an unfinished call of FORGLOOP.
BadCalls(f, k, nat, u) ==
    Bad(f, k) => \E j \in 2 .. Len(nat) : nat[j].L = u /\ nat[j].fn = "luaD_performcally" /\ nat[j].frames = k

LEMMA CalmFrames ==
  ASSUME NEW fast, NEW nat, NEW g, NEW N, NEW u, NEW f, NEW fn, NEW k,
         nat \in Seq(Element), g \in Seq(Note), Stack(fast, nat, g), Len(nat) = N, N > 1, Clear(nat, N),
         ~Handling(nat[N]), u = nat[N].L, f \in Seq(FrameType), Frames(fast, u, f, nat, g, fn),
         Explained(u, f, nat, g, FALSE), k \in DOMAIN f
  PROVE  /\ BadCalls(f, k, nat, u)
         /\ f[k].kind = "c" => ~(k < Len(f))
         /\ fast => ~Bad(f, k)
<1>1. N \in Nat
  BY LenIs
<1>2. ASSUME Bad(f, k)
      PROVE  /\ \E j \in 2 .. N : nat[j].L = u /\ nat[j].fn = "luaD_performcally" /\ nat[j].frames = k
             /\ f[k].forcall
  <2>1. ASSUME NEW j \in 2 .. N, nat[j].L = u
        PROVE  ~Handling(nat[j]) /\ ~(nat[j].fn = "luaD_callint" /\ ~nat[j].from)
    BY <2>1, Calm
  <2>2. ~Failed(u, k, nat, g, FALSE)
    BY <2>1 DEF Failed
  <2>3. Calls(u, f, k, nat)
    BY <1>2, <2>2 DEF Explained
  <2>4. PICK j \in 2 .. N : nat[j].L = u /\ nat[j].fn = "luaD_performcally" /\ nat[j].frames = k
    BY <2>1, <2>3 DEF Calls
  <2>5. Known(u, f, nat, g, N, fn)
    BY DEF Frames
  <2>6. PICK a : Knows(f, nat[j - 1], g[j - 1], nat[j], g[j], a)
    BY <2>4, <2>5 DEF Known
  <2>7. f[g[j].h].forcall
    BY <2>4, <2>6 DEF Knows
  <2>8. Atop(fast, nat[j - 1], g[j - 1], nat[j], g[j])
    BY DEF Stack, Lies
  <2>9. g[j].h = k
    BY <2>4, <2>8 DEF Atop, Noted
  <2> QED BY <2>4, <2>7, <2>9
<1>3. FramesOK(fast, f)
  BY DEF Frames
<1>4. f[k].forcall => f[k].kind = "lua" /\ (fast => f[k].opyield = f[k].forcall)
  BY <1>3 DEF FramesOK
<1>5. f[k].kind = "c" => ~(k < Len(f))
  BY <1>2, <1>4 DEF Bad
<1>6. fast => ~Bad(f, k)
  BY <1>2, <1>4 DEF Bad
<1>7. BadCalls(f, k, nat, u)
  BY <1>2 DEF BadCalls
<1> QED BY <1>5, <1>6, <1>7

-----------------------------------------------------------------------------
(* The other threads                                                        *)

\* The stacks differ from element m on only, and thread u has none of these.
Beyond(nat, g, nat2, g2, m, u) ==
    /\ m \in 1 .. Len(nat) /\ m <= Len(nat2)
    /\ \A i \in 1 .. (m - 1) : nat2[i] = nat[i] /\ g2[i] = g[i]
    /\ nat2[m].fn = nat[m].fn
    /\ \A j \in m .. Len(nat) : nat[j].L # u
    /\ \A j \in m .. Len(nat2) : nat2[j].L # u

LEMMA OthersWhole ==
  ASSUME NEW fast, NEW u, NEW f, NEW nat, NEW g, NEW nat2, NEW g2, NEW m,
         f \in Seq(FrameType), nat \in Seq(Element), nat2 \in Seq(Element), Beyond(nat, g, nat2, g2, m, u),
         Whole(fast, u, f, nat, g)
  PROVE  Whole(fast, u, f, nat2, g2)
<1>1. Len(nat) \in Nat /\ Len(nat2) \in Nat /\ m \in 1 .. Len(nat) /\ m <= Len(nat2)
  BY LenIs DEF Beyond
<1>2. ASSUME NEW i \in 2 .. Len(nat), nat[i].L = u
      PROVE  /\ i \in 2 .. Len(nat2) /\ i < m /\ nat2[i] = nat[i] /\ g2[i] = g[i]
             /\ nat2[i - 1] = nat[i - 1] /\ g2[i - 1] = g[i - 1] /\ nat2[i + 1].fn = nat[i + 1].fn
             /\ i < Len(nat) /\ i < Len(nat2)
  <2>1. i < m
    <3> SUFFICES ASSUME i >= m
                 PROVE  FALSE
      BY <1>1
    <3>1. i \in m .. Len(nat)
      BY <1>1
    <3> QED BY <1>2, <3>1 DEF Beyond
  <2>2. i \in 1 .. (m - 1) /\ i - 1 \in 1 .. (m - 1) /\ (i + 1 \in 1 .. (m - 1) \/ i + 1 = m)
    BY <1>1, <2>1
  <2> QED BY <1>1, <2>1, <2>2 DEF Beyond
<1>3. ASSUME NEW i \in 2 .. Len(nat2), nat2[i].L = u
      PROVE  i \in 2 .. Len(nat) /\ nat[i].L = u
  <2>1. i < m
    <3> SUFFICES ASSUME i >= m
                 PROVE  FALSE
      BY <1>1
    <3>1. i \in m .. Len(nat2)
      BY <1>1
    <3> QED BY <1>3, <3>1 DEF Beyond
  <2>2. i \in 1 .. (m - 1)
    BY <1>1, <2>1
  <2> QED BY <1>1, <1>3, <2>2 DEF Beyond
<1>4. Frames(fast, u, f, nat2, g2, "none")
  <2>1. ASSUME NEW i \in 2 .. Len(nat2), nat2[i].L = u
        PROVE  Knows(f, nat2[i - 1], g2[i - 1], nat2[i], g2[i], IF i < Len(nat2) THEN nat2[i + 1].fn ELSE "none")
    <3>1. i \in 2 .. Len(nat) /\ nat[i].L = u
      BY <1>3, <2>1
    <3>2. Knows(f, nat[i - 1], g[i - 1], nat[i], g[i], IF i < Len(nat) THEN nat[i + 1].fn ELSE "none")
      BY <3>1 DEF Whole, Frames, Known
    <3> QED BY <1>2, <3>1, <3>2
  <2> QED BY <2>1 DEF Whole, Frames, Known
<1>5. Explained(u, f, nat2, g2, FALSE)
  <2> SUFFICES ASSUME NEW k \in DOMAIN f, Bad(f, k)
               PROVE  Calls(u, f, k, nat2) \/ Failed(u, k, nat2, g2, FALSE)
    BY DEF Explained
  <2>1. CASE Calls(u, f, k, nat)
    BY <1>2, <2>1 DEF Calls
  <2>2. CASE Failed(u, k, nat, g, FALSE)
    BY <1>2, <2>2 DEF Failed
  <2> QED BY <2>1, <2>2 DEF Whole, Explained
<1>6. Marks(fast, u, f, nat2, g2)
  <2>1. ASSUME NEW p \in DOMAIN f, f[p].handle, \E k \in 1 .. (p - 1) : Bad(f, k)
        PROVE  \E j \in 2 .. Len(nat2) : nat2[j].L = u /\ nat2[j].fn = "luaD_pcall" /\ nat2[j].frames = p
    <3>1. PICK j \in 2 .. Len(nat) : nat[j].L = u /\ nat[j].fn = "luaD_pcall" /\ nat[j].frames = p
      BY <2>1 DEF Whole, Marks
    <3> QED BY <1>2, <3>1
  <2>2. ASSUME ~fast, NEW i \in 2 .. Len(nat2), nat2[i].L = u, nat2[i].fn = "luaD_pcall",
               NEW p \in (g2[i].h + 1) .. Len(f), f[p].handle
        PROVE  \E j \in (i + 1) .. Len(nat2) : nat2[j].L = u /\ nat2[j].fn = "luaD_pcall" /\ nat2[j].frames = p
    <3>1. i \in 2 .. Len(nat) /\ nat[i].L = u
      BY <1>3, <2>2
    <3>2. nat[i] = nat2[i] /\ g[i] = g2[i]
      BY <1>2, <3>1
    <3>3. PICK j \in (i + 1) .. Len(nat) : nat[j].L = u /\ nat[j].fn = "luaD_pcall" /\ nat[j].frames = p
      BY <2>2, <3>1, <3>2 DEF Whole, Marks
    <3>4. j \in 2 .. Len(nat)
      BY <1>1, <3>1
    <3>5. j \in 2 .. Len(nat2) /\ nat2[j] = nat[j]
      BY <1>2, <3>3, <3>4
    <3>6. j \in (i + 1) .. Len(nat2)
      BY <1>1, <3>5
    <3> QED BY <3>3, <3>5, <3>6
  <2> QED BY <2>1, <2>2 DEF Marks
<1> QED BY <1>4, <1>5, <1>6 DEF Whole

LEMMA OthersRest ==
  ASSUME NEW fast, NEW u, NEW f, NEW n, NEW b, NEW st, NEW nat, NEW g, NEW nat2, NEW g2, NEW m,
         f \in Seq(FrameType), nat \in Seq(Element), nat2 \in Seq(Element), Beyond(nat, g, nat2, g2, m, u),
         Rests(fast, u, f, n, b, st, nat, g)
  PROVE  Rests(fast, u, f, n, b, st, nat2, g2)
<1>1. Len(nat) \in Nat /\ Len(nat2) \in Nat /\ m \in 1 .. Len(nat) /\ m <= Len(nat2)
  BY LenIs DEF Beyond
<1>2. \A i \in 2 .. Len(nat) : nat[i].L = u => i \in 2 .. Len(nat2) /\ nat2[i].L = u
  <2> SUFFICES ASSUME NEW i \in 2 .. Len(nat), nat[i].L = u
               PROVE  i \in 2 .. Len(nat2) /\ nat2[i].L = u
    OBVIOUS
  <2>1. i \notin m .. Len(nat)
    BY DEF Beyond
  <2>2. i \in 1 .. (m - 1) /\ i \in 2 .. Len(nat2)
    BY <1>1, <2>1
  <2> QED BY <2>2 DEF Beyond
<1>3. (\A i \in 2 .. Len(nat2) : nat2[i].L # u) /\ st = "yield" => Suspended(fast, f)
  BY <1>2 DEF Rests
<1>4. ASSUME NEW i \in 2 .. (Len(nat2) - 1), nat2[i].L = u, nat2[i + 1].fn = "lua_resume"
      PROVE  Waits(fast, u, f, n, b, st, nat2, g2, i)
  <2>1. i \notin m .. Len(nat2)
    BY <1>4 DEF Beyond
  <2>2. i \in 1 .. (m - 1) /\ (i + 1 \in 1 .. (m - 1) \/ i + 1 = m) /\ i \in 2 .. (Len(nat) - 1)
    BY <1>1, <2>1
  <2>3. nat[i].L = u /\ nat[i + 1].fn = "lua_resume" /\ g2[i] = g[i]
    BY <1>4, <2>2 DEF Beyond
  <2>4. Waits(fast, u, f, n, b, st, nat, g, i)
    BY <2>2, <2>3 DEF Rests
  <2>5. Whole(fast, u, f, nat2, g2)
    BY <2>4, OthersWhole DEF Waits
  <2> QED BY <2>3, <2>4, <2>5 DEF Waits
<1> QED BY <1>3, <1>4 DEF Rests

-----------------------------------------------------------------------------
(* Steps                                                                    *)

\* A step of thread t
Becomes(t, f, n, b, st, nat, sig) ==
    /\ ci' = [ci EXCEPT ![t] = f]
    /\ nCcalls' = [nCcalls EXCEPT ![t] = n] /\ baseCcalls' = [baseCcalls EXCEPT ![t] = b]
    /\ status' = [status EXCEPT ![t] = st]
    /\ native' = nat /\ signal' = sig /\ UNCHANGED luauFastpcall

LEMMA SameFunction ==
  ASSUME NEW S, NEW F, NEW t,
         F \in [Thread -> S], t \in Thread
  PROVE  [F EXCEPT ![t] = F[t]] = F
OBVIOUS

LEMMA BecomesIs ==
  ASSUME CallTypeOK, NEW t \in Thread, NEW f \in Seq(FrameType), NEW n \in Nat, NEW b \in Nat,
         NEW st \in Statuses, NEW nat \in Seq(Element), nat # <<>>, NEW sig \in {"run", "return", "throw"},
         Becomes(t, f, n, b, st, nat, sig)
  PROVE  /\ CallTypeOK'
         /\ ci'[t] = f /\ nCcalls'[t] = n /\ baseCcalls'[t] = b /\ status'[t] = st
         /\ \A u \in Thread : u # t => /\ ci'[u] = ci[u] /\ nCcalls'[u] = nCcalls[u]
                                       /\ baseCcalls'[u] = baseCcalls[u] /\ status'[u] = status[u]
BY DEF CallTypeOK, Becomes

LEMMA TopStep ==
  ASSUME NEW g, NEW t, NEW nat2, NEW g2, NEW m, NEW f, NEW n, NEW b, NEW st, NEW sig,
         g \in Seq(Note), Balanced(g), t \in Thread, Top.L = t, nat2 \in Seq(Element), g2 \in Seq(Note),
         m \in Nat, m \in 1 .. Len(native), m <= Len(nat2),
         \A i \in 1 .. (m - 1) : nat2[i] = native[i] /\ g2[i] = g[i], nat2[m].fn = native[m].fn,
         \A j \in m .. Len(native) : native[j].L = t, \A j \in m .. Len(nat2) : nat2[j].L = t,
         f \in Seq(FrameType), n \in Nat, b \in Nat, st \in Statuses, sig \in {"run", "return", "throw"},
         Stack(luauFastpcall, nat2, g2), Len(nat2) > 1, OnTop(luauFastpcall, f, n, b, st, nat2, g2, sig),
         Becomes(t, f, n, b, st, nat2, sig)
  PROVE  CallInv'
<1>1. CallTypeOK /\ MainThread \in Thread
  BY CallAssumption DEF Balanced
<1>2. /\ Len(native) \in Nat /\ Len(nat2) \in Nat /\ nat2 # <<>> /\ native \in Seq(Element)
  BY <1>1, LenIs DEF CallTypeOK
<1>3. /\ CallTypeOK'
      /\ ci'[t] = f /\ nCcalls'[t] = n /\ baseCcalls'[t] = b /\ status'[t] = st
      /\ \A u \in Thread : u # t => /\ ci'[u] = ci[u] /\ nCcalls'[u] = nCcalls[u]
                                    /\ baseCcalls'[u] = baseCcalls[u] /\ status'[u] = status[u]
  BY <1>1, <1>2, BecomesIs
<1>4. native' = nat2 /\ signal' = sig /\ luauFastpcall' = luauFastpcall
  BY DEF Becomes
<1>5. Top'.L = t
  <2>1. Len(nat2) \in m .. Len(nat2)
    BY <1>2
  <2>2. Top' = nat2[Len(nat2)]
    BY <1>4 DEF Top, Last
  <2> QED BY <2>1, <2>2
<1>6. (\A i \in 2 .. Len(nat2) : nat2[i].L # MainThread) => nCcalls'[MainThread] = baseCcalls'[MainThread]
  <2> SUFFICES ASSUME \A i \in 2 .. Len(nat2) : nat2[i].L # MainThread
               PROVE  nCcalls'[MainThread] = baseCcalls'[MainThread]
    OBVIOUS
  <2>1. t # MainThread
    <3>1. Len(nat2) \in m .. Len(nat2) /\ Len(nat2) \in 2 .. Len(nat2)
      BY <1>2
    <3> QED BY <3>1
  <2>2. ASSUME NEW i \in 2 .. Len(native)
        PROVE  native[i].L # MainThread
    <3>1. CASE i \in m .. Len(native)
      BY <2>1, <3>1
    <3>2. CASE i \in 1 .. (m - 1)
      <4>1. i \in 2 .. Len(nat2)
        BY <1>2, <3>2
      <4> QED BY <3>2, <4>1
    <3> QED BY <1>2, <3>1, <3>2
  <2> QED BY <1>1, <1>3, <2>1, <2>2 DEF Balanced
<1>7. ASSUME NEW u \in Thread, u # t
      PROVE  Rests(luauFastpcall, u, ci'[u], nCcalls'[u], baseCcalls'[u], status'[u], nat2, g2)
  <2>1. Rests(luauFastpcall, u, ci[u], nCcalls[u], baseCcalls[u], status[u], native, g)
    BY <1>7 DEF Balanced
  <2>2. Beyond(native, g, nat2, g2, m, u)
    BY <1>7 DEF Beyond
  <2>3. ci[u] \in Seq(FrameType)
    BY <1>1 DEF CallTypeOK
  <2> HIDE DEF Becomes
  <2>4. Rests(luauFastpcall, u, ci[u], nCcalls[u], baseCcalls[u], status[u], nat2, g2)
    BY <1>2, <2>1, <2>2, <2>3, OthersRest
  <2> QED BY <1>3, <1>7, <2>4
<1>8. Balanced(g2)'
  BY <1>2, <1>3, <1>4, <1>5, <1>6, <1>7 DEF Balanced
<1> QED BY <1>8 DEF CallInv

\* The last element above the host's ends.
LEMMA HostStep ==
  ASSUME NEW g, NEW t, NEW f, NEW n, NEW st, NEW sig,
         g \in Seq(Note), Balanced(g), t \in Thread, Top.L = t, Len(native) = 2, f \in Seq(FrameType),
         n \in Nat, st \in Statuses, sig \in {"run", "return"}, st = "yield" => Suspended(luauFastpcall, f),
         Becomes(t, f, n, n, st, Front(native), sig)
  PROVE  CallInv'
<1>1. CallTypeOK /\ MainThread \in Thread /\ native \in Seq(Element) /\ Stack(luauFastpcall, native, g)
  BY CallAssumption DEF Balanced, CallTypeOK
<1>2. PICK nat2 : nat2 = Front(native)
  OBVIOUS
<1>3. PICK g2 : g2 = SubSeq(g, 1, 1)
  OBVIOUS
<1>4. native # <<>> /\ Len(g) = 2 /\ 1 \in 0 .. Len(g) /\ native[2].L = t
  BY <1>1, LenIs DEF Stack, Grounded, CallTypeOK, Top, Last
<1>5. /\ nat2 \in Seq(Element) /\ Len(nat2) = 1 /\ nat2[1] = native[1] /\ nat2 # <<>>
      /\ nat2 = SubSeq(native, 1, 1)
  <2>1. /\ nat2 = SubSeq(native, 1, Len(native) - 1) /\ nat2 \in Seq(Element) /\ Len(nat2) = Len(native) - 1
        /\ \A i \in 1 .. (Len(native) - 1) : nat2[i] = native[i]
    BY <1>1, <1>2, <1>4, FrontIs
  <2>2. Len(native) - 1 = 1 /\ 1 \in 1 .. 1
    OBVIOUS
  <2>3. Len(nat2) = 1 /\ nat2 \in Seq(Element)
    BY <2>1, <2>2
  <2>4. Len(nat2) # 0
    BY <2>3
  <2>5. nat2 # <<>>
    BY <2>4, NotEmpty, Zenon
  <2> QED BY <2>1, <2>2, <2>3, <2>5
<1>6. g2 \in Seq(Note)
  BY <1>3, <1>4, PrefixIs
<1>7. Stack(luauFastpcall, nat2, g2)
  <2>1. 1 \in 1 .. Len(native)
    OBVIOUS
  <2> QED BY <1>1, <1>3, <1>5, <2>1, PrefixStack
<1>8. Becomes(t, f, n, n, st, nat2, sig)
  BY <1>2
<1>9. /\ CallTypeOK'
      /\ ci'[t] = f /\ nCcalls'[t] = n /\ baseCcalls'[t] = n /\ status'[t] = st
      /\ \A u \in Thread : u # t => /\ ci'[u] = ci[u] /\ nCcalls'[u] = nCcalls[u]
                                    /\ baseCcalls'[u] = baseCcalls[u] /\ status'[u] = status[u]
  <2>1. sig \in {"run", "return", "throw"}
    OBVIOUS
  <2>2. nat2 \in Seq(Element) /\ nat2 # <<>>
    BY <1>5
  <2> QED BY <1>1, <1>8, <2>1, <2>2, BecomesIs
<1>10. native' = nat2 /\ signal' = sig /\ luauFastpcall' = luauFastpcall
  BY <1>8 DEF Becomes
<1>11. \A i \in 2 .. Len(native) : native[i].L = t
  BY <1>4
<1>12. nCcalls'[MainThread] = baseCcalls'[MainThread]
  <2>1. CASE t = MainThread
    BY <1>9, <2>1
  <2>2. CASE t # MainThread
    BY <1>1, <1>9, <1>11, <2>2 DEF Balanced
  <2> QED BY <2>1, <2>2
<1>13. ASSUME NEW u \in Thread
       PROVE  Rests(luauFastpcall, u, ci'[u], nCcalls'[u], baseCcalls'[u], status'[u], nat2, g2)
  <2>1. 2 .. (Len(nat2) - 1) = {} /\ 2 .. Len(nat2) = {}
    BY <1>5
  <2>2. CASE u = t
    BY <1>9, <2>1, <2>2 DEF Rests
  <2>3. CASE u # t
    <3>1. Rests(luauFastpcall, u, ci[u], nCcalls[u], baseCcalls[u], status[u], native, g)
      BY <2>3 DEF Balanced
    <3>2. status[u] = "yield" => Suspended(luauFastpcall, ci[u])
      BY <1>11, <2>3, <3>1 DEF Rests
    <3> QED BY <1>9, <2>1, <2>3, <3>2 DEF Rests
  <2> QED BY <2>2, <2>3
<1>14. Balanced(g2)'
  BY <1>5, <1>6, <1>7, <1>9, <1>10, <1>12, <1>13 DEF Balanced
<1> QED BY <1>6, <1>14 DEF CallInv

-----------------------------------------------------------------------------
(* What ends leaves the stack                                               *)

\* The first m elements
Cut(nat, g, nat2, g2, m) ==
    /\ nat2 \in Seq(Element) /\ g2 \in Seq(Note) /\ Len(nat2) = m /\ Len(g2) = m
    /\ Agree(nat, g, nat2, g2, m)

LEMMA CutIs ==
  ASSUME NEW fast, NEW nat, NEW g, NEW m, NEW nat2, NEW g2,
         nat \in Seq(Element), g \in Seq(Note), Stack(fast, nat, g), m \in 1 .. Len(nat),
         Cut(nat, g, nat2, g2, m)
  PROVE  /\ nat2 \in Seq(Element) /\ g2 \in Seq(Note) /\ Len(nat2) = m /\ Len(g2) = m
         /\ Stack(fast, nat2, g2) /\ Agree(nat, g, nat2, g2, m)
         /\ \A i \in 1 .. m : nat2[i] = nat[i] /\ g2[i] = g[i]
<1>1. /\ nat2 \in Seq(Element) /\ g2 \in Seq(Note) /\ Len(nat2) = m /\ Len(g2) = m
      /\ Agree(nat, g, nat2, g2, m)
  BY DEF Cut
<1>2. \A i \in 1 .. m : nat2[i] = nat[i] /\ g2[i] = g[i]
  BY <1>1 DEF Agree
<1>3. Len(g) = Len(nat) /\ m \in 0 .. Len(nat) /\ m \in Nat
  BY LenIs DEF Stack, Grounded
<1>4. nat2 = SubSeq(nat, 1, m)
  <2>1. /\ SubSeq(nat, 1, m) \in Seq(Element) /\ Len(SubSeq(nat, 1, m)) = m
        /\ \A i \in 1 .. m : SubSeq(nat, 1, m)[i] = nat[i]
    BY <1>3, PrefixIs
  <2> QED BY <1>1, <1>2, <2>1, SameSeq
<1>5. g2 = SubSeq(g, 1, m)
  <2>1. /\ SubSeq(g, 1, m) \in Seq(Note) /\ Len(SubSeq(g, 1, m)) = m
        /\ \A i \in 1 .. m : SubSeq(g, 1, m)[i] = g[i]
    BY <1>3, PrefixIs
  <2> QED BY <1>1, <1>2, <2>1, SameSeq
<1>6. Stack(fast, SubSeq(nat, 1, m), SubSeq(g, 1, m))
  BY PrefixStack
<1> QED BY <1>1, <1>2, <1>4, <1>5, <1>6

LEMMA PrefixCut ==
  ASSUME NEW fast, NEW nat, NEW g, NEW m,
         nat \in Seq(Element), g \in Seq(Note), Stack(fast, nat, g), m \in 1 .. Len(nat)
  PROVE  Cut(nat, g, SubSeq(nat, 1, m), SubSeq(g, 1, m), m)
<1>1. Len(g) = Len(nat) /\ m \in 0 .. Len(nat) /\ m \in Nat /\ m <= Len(nat) /\ m <= m
  BY LenIs DEF Stack, Grounded
<1>2. PICK nat2 : nat2 = SubSeq(nat, 1, m)
  OBVIOUS
<1>3. PICK g2 : g2 = SubSeq(g, 1, m)
  OBVIOUS
<1>4. nat2 \in Seq(Element) /\ Len(nat2) = m /\ \A i \in 1 .. m : nat2[i] = nat[i]
  BY <1>1, <1>2, PrefixIs
<1>5. g2 \in Seq(Note) /\ Len(g2) = m /\ \A i \in 1 .. m : g2[i] = g[i]
  BY <1>1, <1>3, PrefixIs
<1>6. Cut(nat, g, nat2, g2, m)
  BY <1>1, <1>4, <1>5 DEF Cut, Agree
<1> QED BY <1>2, <1>3, <1>6

\* All but the last element
Popped(nat, g, nat2, g2) == Cut(nat, g, nat2, g2, Len(nat) - 1)

LEMMA FrontPopped ==
  ASSUME NEW fast, NEW nat, NEW g,
         nat \in Seq(Element), g \in Seq(Note), Stack(fast, nat, g), Len(nat) > 1
  PROVE  Popped(nat, g, Front(nat), Front(g))
<1>1. PICK N : Len(nat) = N
  OBVIOUS
<1>2. /\ N \in Nat /\ N - 1 \in 1 .. Len(nat) /\ Len(g) = N
  BY <1>1, TopIs
<1>3. Front(nat) = SubSeq(nat, 1, N - 1) /\ Front(g) = SubSeq(g, 1, N - 1)
  BY <1>1, <1>2 DEF Front
<1>4. PICK m \in 1 .. Len(nat) : m = N - 1
  BY <1>2
<1>5. Cut(nat, g, SubSeq(nat, 1, m), SubSeq(g, 1, m), m)
  BY PrefixCut
<1> QED BY <1>1, <1>3, <1>4, <1>5 DEF Popped

LEMMA PopIs ==
  ASSUME NEW fast, NEW nat, NEW g, NEW N, NEW nat2, NEW g2,
         nat \in Seq(Element), g \in Seq(Note), Stack(fast, nat, g), Len(nat) = N, N > 1,
         Popped(nat, g, nat2, g2)
  PROVE  /\ nat2 \in Seq(Element) /\ g2 \in Seq(Note) /\ Len(nat2) = N - 1 /\ Len(g2) = N - 1
         /\ Stack(fast, nat2, g2)
         /\ \A i \in 1 .. (N - 1) : nat2[i] = nat[i] /\ g2[i] = g[i]
<1>1. PICK m \in 1 .. Len(nat) : m = N - 1
  BY TopIs
<1>2. Cut(nat, g, nat2, g2, m)
  BY <1>1 DEF Popped
<1>3. /\ nat2 \in Seq(Element) /\ g2 \in Seq(Note) /\ Len(nat2) = m /\ Len(g2) = m
      /\ Stack(fast, nat2, g2)
      /\ \A i \in 1 .. m : nat2[i] = nat[i] /\ g2[i] = g[i]
  BY <1>2, CutIs
<1> QED BY <1>1, <1>3

\* What is left of frames f when the top ends
Left(u, f, f2, nat, N) ==
    \A k \in DOMAIN f2 : Bad(f2, k) =>
        k \in DOMAIN f /\ Bad(f, k) /\ f2[k].kind = f[k].kind /\ ~CalledFrom(u, f, nat[N], k)

\* The top with frames f ends and leaves frames f2.
Ends(fast, u, f, fn, f2, fn2, nat, g, N) ==
    /\ nat[N].L = u /\ nat[N].fn # "lua_resume" /\ ~Handling(nat[N])
    /\ Frames(fast, u, f, nat, g, fn) /\ Explained(u, f, nat, g, FALSE)
    /\ FramesOK(fast, f2) /\ Kept(f, f2, g[N - 1].h) /\ Left(u, f, f2, nat, N)
    /\ nat[N].fn = "luaD_pcall" /\ fn2 # "luaD_pcall" /\ nat[N - 1].fn = "C" => ~f2[g[N - 1].h].handle

LEMMA PopExplained ==
  ASSUME NEW fast, NEW nat, NEW g, NEW N, NEW nat2, NEW g2, NEW u, NEW f, NEW f2,
         nat \in Seq(Element), g \in Seq(Note), Stack(fast, nat, g), Len(nat) = N, N > 1,
         Popped(nat, g, nat2, g2), ~Handling(nat[N]), Explained(u, f, nat, g, FALSE), Left(u, f, f2, nat, N)
  PROVE  Explained(u, f2, nat2, g2, FALSE)
<1>1. N \in Nat /\ N - 1 \in Nat
  BY TopIs
<1>2. /\ nat2 \in Seq(Element) /\ g2 \in Seq(Note) /\ Len(nat2) = N - 1 /\ Len(g2) = N - 1
      /\ \A i \in 1 .. (N - 1) : nat2[i] = nat[i] /\ g2[i] = g[i]
  BY PopIs
<1> DEFINE m == N - 1
<1>3. m \in Nat /\ Agree(nat, g, nat2, g2, m)
  BY <1>1, <1>2 DEF Agree
<1>4. \A j \in (m + 1) .. Len(nat) : j = N
  BY <1>1
<1>5. ExplainedKept(u, f, f2, nat, g, nat2, g2, m, FALSE, FALSE)
  BY <1>4 DEF ExplainedKept, Unneeded, Left
<1> HIDE DEF m
<1> QED BY <1>2, <1>3, <1>5, ExplainedOn

LEMMA PopFrames ==
  ASSUME NEW fast, NEW nat, NEW g, NEW N, NEW nat2, NEW g2, NEW u, NEW f, NEW f2, NEW fn, NEW fn2,
         nat \in Seq(Element), g \in Seq(Note), Stack(fast, nat, g), Len(nat) = N, N > 1,
         Popped(nat, g, nat2, g2), f \in Seq(FrameType), f2 \in Seq(FrameType),
         Ends(fast, u, f, fn, f2, fn2, nat, g, N)
  PROVE  Frames(fast, u, f2, nat2, g2, fn2) /\ Explained(u, f2, nat2, g2, FALSE)
<1>1. /\ N \in Nat /\ N - 1 \in Nat /\ N - 1 \in 1 .. N /\ N \in 1 .. N /\ Len(g) = N /\ N \in 2 .. N
      /\ nat[N] \in Element /\ nat[N - 1] \in Element /\ g[N - 1] \in Note
      /\ Atop(fast, nat[N - 1], g[N - 1], nat[N], g[N])
  BY TopIs
<1>2. /\ nat2 \in Seq(Element) /\ g2 \in Seq(Note) /\ Len(nat2) = N - 1 /\ Len(g2) = N - 1
      /\ Stack(fast, nat2, g2)
      /\ \A i \in 1 .. (N - 1) : nat2[i] = nat[i] /\ g2[i] = g[i]
  BY PopIs
<1>3. \A i \in 2 .. (N - 1) : nat[i].L = u => g[i].h <= g[N - 1].h
  <2>2. \A i \in 2 .. (N - 1) : nat[i].L = nat[N].L => g[i].h <= g[N - 1].h
    BY BelowHeight
  <2> QED BY <2>2 DEF Ends
<1>4. Known(u, f, nat, g, N - 1, nat[N].fn)
  <2>1. Known(u, f, nat, g, N, fn)
    BY DEF Frames, Ends
  <2> QED BY <2>1, KnownPop
<1>5. nat[N].fn = "luaD_pcall" /\ fn2 # "luaD_pcall" /\ nat[N - 1].fn = "C" /\ nat[N - 1].L = u => ~f2[g[N - 1].h].handle
  BY DEF Ends
<1>6. Known(u, f2, nat2, g2, N - 1, fn2)
  <2> DEFINE a == nat[N].fn
             m == N - 1
             H == g[N - 1].h
  <2>1. /\ Known(u, f, nat, g, m, a) /\ m \in Nat /\ Agree(nat, g, nat2, g2, m)
        /\ a = "luaD_pcall" /\ fn2 # "luaD_pcall" /\ nat[m].fn = "C" /\ nat[m].L = u => ~f2[g[m].h].handle
        /\ \A i \in 2 .. m : nat[i].L = u => g[i].h <= H
        /\ Kept(f, f2, H)
    BY <1>1, <1>2, <1>3, <1>4, <1>5 DEF Ends, Agree
  <2>2. Known(u, f2, nat2, g2, m, fn2)
    <3> HIDE DEF a, m, H
    <3> QED BY <1>2, <2>1, KnownOn
  <2> QED BY <2>2
<1>7. Explained(u, f2, nat2, g2, FALSE)
  <2>1. Explained(u, f, nat, g, FALSE) /\ Left(u, f, f2, nat, N) /\ ~Handling(nat[N])
    BY DEF Ends
  <2> QED BY <2>1, PopExplained
<1> QED BY <1>2, <1>6, <1>7 DEF Frames, Ends

\* Of the marks of protected calls, too
LeftMarks(f, f2, e) ==
    /\ \A k \in DOMAIN f2 : Bad(f2, k) => Bad(f, k)
    /\ \A p \in DOMAIN f2 : f2[p].handle =>
          p \in DOMAIN f /\ f[p].handle /\ (e.fn = "luaD_pcall" => e.frames # p)

LEMMA PopMarks ==
  ASSUME NEW fast, NEW nat, NEW g, NEW N, NEW nat2, NEW g2, NEW u, NEW f, NEW f2,
         nat \in Seq(Element), g \in Seq(Note), Stack(fast, nat, g), Len(nat) = N, N > 1,
         Popped(nat, g, nat2, g2), f \in Seq(FrameType), f2 \in Seq(FrameType), Marks(fast, u, f, nat, g),
         LeftMarks(f, f2, nat[N])
  PROVE  Marks(fast, u, f2, nat2, g2)
<1>1. N \in Nat /\ N - 1 \in Nat /\ Len(g) = N
  BY TopIs
<1>2. /\ nat2 \in Seq(Element) /\ g2 \in Seq(Note) /\ Len(nat2) = N - 1 /\ Len(g2) = N - 1
      /\ Stack(fast, nat2, g2)
      /\ \A i \in 1 .. (N - 1) : nat2[i] = nat[i] /\ g2[i] = g[i]
  BY PopIs
<1> DEFINE m == N - 1
<1>3. m \in Nat /\ Agree(nat, g, nat2, g2, m) /\ Len(g2) = Len(nat2)
  BY <1>1, <1>2 DEF Agree
<1>4. \A j \in (m + 1) .. Len(nat) : j = N
  BY <1>1
<1>5. \A i \in (m + 1) .. Len(nat2) : nat2[i].L = u /\ nat2[i].fn = "luaD_pcall" =>
        \A p \in (g2[i].h + 1) .. Len(f2) : ~f2[p].handle
  <2>1. \A i \in (m + 1) .. Len(nat2) : FALSE
    BY <1>1, <1>2
  <2> QED BY <2>1
<1>6. \A p \in DOMAIN f2 : \A k \in 1 .. (p - 1) : k \in DOMAIN f2
  BY FrameIs
<1>7. \A p \in DOMAIN f2 : f2[p].handle =>
        \/ /\ p \in DOMAIN f /\ f[p].handle
           /\ (\E k \in 1 .. (p - 1) : Bad(f2, k)) => \E k \in 1 .. (p - 1) : Bad(f, k)
           /\ \A j \in (m + 1) .. Len(nat) : nat[j].L = u /\ nat[j].fn = "luaD_pcall" => nat[j].frames # p
        \/ m > 0 /\ HasPcall(u, nat2, m + 1, p)
  BY <1>4, <1>6 DEF LeftMarks
<1>8. MarksKept(fast, u, f, f2, nat, nat2, g2, m)
  BY <1>5, <1>7 DEF MarksKept
<1> HIDE DEF m
<1> QED BY <1>2, <1>3, <1>8, MarksOn

LEMMA PopYields ==
  ASSUME NEW fast, NEW nat, NEW g, NEW N, NEW nat2, NEW g2, NEW f, NEW n, NEW b, NEW st, NEW f2, NEW n2,
         nat \in Seq(Element), g \in Seq(Note), Stack(fast, nat, g), Len(nat) = N, N > 1,
         nat[N].fn # "lua_resume", Popped(nat, g, nat2, g2), f \in Seq(FrameType), n \in Nat, b \in Nat,
         Yields(fast, f, n, b, st, nat, g), f2 \in Seq(FrameType), FramesOK(fast, f2), Kept(f, f2, g[N - 1].h),
         Left(nat[N].L, f, f2, nat, N), Leaves(f2, st), n2 >= g[N - 1].c, n2 >= g[N - 1].b
  PROVE  Yields(fast, f2, n2, n2, st, nat2, g2) /\ Len(nat2) > 1 /\ nat2[N - 1].L = nat[N].L
<1>1. /\ N \in Nat /\ N - 1 \in Nat /\ N - 1 \in 1 .. N /\ N \in 1 .. N /\ Len(g) = N /\ N \in 2 .. N
      /\ nat[N] \in Element /\ nat[N - 1] \in Element /\ g[N - 1] \in Note /\ g[N] \in Note
      /\ Atop(fast, nat[N - 1], g[N - 1], nat[N], g[N])
  BY TopIs
<1>2. /\ nat2 \in Seq(Element) /\ g2 \in Seq(Note) /\ Len(nat2) = N - 1 /\ Len(g2) = N - 1
      /\ Stack(fast, nat2, g2)
      /\ \A i \in 1 .. (N - 1) : nat2[i] = nat[i] /\ g2[i] = g[i]
  BY PopIs
<1>3. /\ g[N].y = 0 /\ Clear(nat, N) /\ ~Handling(nat[N])
      /\ Frames(fast, nat[N].L, f, nat, g, "luaD_pcall") /\ Explained(nat[N].L, f, nat, g, FALSE)
  BY <1>1 DEF Yields
<1>4. PICK r \in 2 .. N : /\ nat[r].fn = "lua_resume" /\ nat[r].L = nat[N].L
                          /\ \A k \in (r + 1) .. N : GivesWay(nat[k]) /\ nat[k].L = nat[N].L
  BY <1>3 DEF Clear
<1>5. r \in 2 .. (N - 1) /\ N \in (r + 1) .. N /\ N - 1 > 1
  BY <1>1, <1>4
<1>6. nat[N - 1].L = nat[N].L
  BY <1>1, AtopHeight
<1>7. Clear(nat2, N - 1)
  <2>1. r \in 1 .. (N - 1) /\ N - 1 \in 1 .. (N - 1) /\ \A k \in (r + 1) .. (N - 1) : k \in 1 .. (N - 1) /\ k \in (r + 1) .. N
    BY <1>1, <1>5
  <2>2. \A i \in 1 .. (N - 1) : nat2[i] = nat[i]
    BY <1>2
  <2>3. nat2[N - 1].L = nat[N].L /\ nat2[r].fn = "lua_resume" /\ nat2[r].L = nat[N].L
    BY <1>4, <1>6, <2>1, <2>2
  <2>4. \A k \in (r + 1) .. (N - 1) : GivesWay(nat2[k]) /\ nat2[k].L = nat[N].L
    BY <1>4, <2>1, <2>2
  <2>5. r \in 2 .. (N - 1)
    BY <1>5
  <2> QED BY <2>3, <2>4, <2>5 DEF Clear
<1>8. ~Handling(nat2[N - 1])
  <2>1. N - 1 \in 2 .. N /\ N - 1 \in 1 .. (N - 1)
    BY <1>1, <1>5
  <2>2. ~Handling(nat[N - 1])
    BY <1>3, <1>6, <2>1, Calm
  <2> QED BY <1>2, <2>1, <2>2
<1>9. g[N - 1].y = 0
  <2>1. GivesWay(nat[N]) /\ nat[N].fn \in Names
    BY <1>1, <1>4, <1>5, ElementIs
  <2>2. g[N - 1].y \in Nat
    BY <1>1, NoteIs
  <2> QED BY <1>1, <1>3, <2>1, <2>2 DEF Atop, Noted, GivesWay, Names
<1>10. Frames(fast, nat[N].L, f2, nat2, g2, "luaD_pcall") /\ Explained(nat[N].L, f2, nat2, g2, FALSE)
  <2> DEFINE u == nat[N].L
             a == "luaD_pcall"
  <2>1. Ends(fast, u, f, a, f2, a, nat, g, N)
    BY <1>3 DEF Ends
  <2> HIDE DEF u, a
  <2>2. Frames(fast, u, f2, nat2, g2, a) /\ Explained(u, f2, nat2, g2, FALSE)
    BY <2>1, PopFrames
  <2> QED BY <2>2 DEF u, a
<1>11. N - 1 \in 1 .. (N - 1) /\ nat2[N - 1] = nat[N - 1] /\ g2[N - 1] = g[N - 1]
  BY <1>1, <1>2
<1> QED BY <1>2, <1>3, <1>5, <1>6, <1>7, <1>8, <1>9, <1>10, <1>11 DEF Yields

-----------------------------------------------------------------------------
(* Steps of the thread on top                                               *)

\* Thread t is on top of the native stack nat, above the host.
At(g, nat, N, t, f, n, b, st) ==
    /\ g \in Seq(Note) /\ Balanced(g)
    /\ nat \in Seq(Element) /\ N \in Nat /\ N > 1 /\ t \in Thread /\ f \in Seq(FrameType)
    /\ n \in Nat /\ b \in Nat /\ st \in Statuses
    /\ native = nat /\ Len(nat) = N /\ Top = nat[N] /\ nat[N].L = t
    /\ ci[t] = f /\ nCcalls[t] = n /\ baseCcalls[t] = b /\ status[t] = st

LEMMA AtIs ==
  ASSUME NEW g \in Seq(Note), Balanced(g), Len(native) > 1
  PROVE  \E nat, N, t, f, n, b, st : At(g, nat, N, t, f, n, b, st)
<1>1. CallTypeOK
  BY DEF Balanced
<1>2. native \in Seq(Element) /\ native # <<>>
  BY <1>1 DEF CallTypeOK
<1>3. Len(native) \in Nat /\ Len(native) > 1 /\ \A i \in 1 .. Len(native) : native[i] \in Element
  <2>1. Len(native) \in Nat
    BY <1>2, LenIs
  <2>2. \A i \in 1 .. Len(native) : native[i] \in Element
    BY <1>2, LenIs
  <2> QED BY <2>1, <2>2
<1>4. Len(native) \in 1 .. Len(native) /\ Top = native[Len(native)]
  BY <1>3 DEF Top, Last
<1>5. Top \in Element
  BY <1>3, <1>4
<1>6. Top.L \in Thread
  BY <1>5, ElementIs
<1>7. /\ ci[Top.L] \in Seq(FrameType) /\ nCcalls[Top.L] \in Nat /\ baseCcalls[Top.L] \in Nat
      /\ status[Top.L] \in Statuses
  BY <1>1, <1>6 DEF CallTypeOK
<1>8. At(g, native, Len(native), Top.L, ci[Top.L], nCcalls[Top.L], baseCcalls[Top.L], status[Top.L])
  BY <1>2, <1>3, <1>4, <1>6, <1>7 DEF At
<1> QED BY <1>8

LEMMA AtStack ==
  ASSUME NEW g, NEW nat, NEW N, NEW t, NEW f, NEW n, NEW b, NEW st,
         At(g, nat, N, t, f, n, b, st)
  PROVE  /\ Stack(luauFastpcall, nat, g) /\ OnTop(luauFastpcall, f, n, b, st, nat, g, signal)
         /\ g \in Seq(Note) /\ nat \in Seq(Element) /\ N \in Nat /\ N > 1 /\ t \in Thread /\ f \in Seq(FrameType)
         /\ n \in Nat /\ b \in Nat /\ st \in Statuses /\ Len(nat) = N /\ nat[N].L = t
         /\ Len(g) = N
<1>1. /\ g \in Seq(Note) /\ nat \in Seq(Element) /\ N \in Nat /\ N > 1 /\ t \in Thread /\ f \in Seq(FrameType)
      /\ n \in Nat /\ b \in Nat /\ st \in Statuses /\ Len(nat) = N /\ nat[N].L = t /\ Balanced(g)
      /\ native = nat /\ Top = nat[N]
      /\ ci[t] = f /\ nCcalls[t] = n /\ baseCcalls[t] = b /\ status[t] = st
  BY DEF At
<1>2. Stack(luauFastpcall, nat, g)
  BY <1>1 DEF Balanced
<1>3. Top.L = t /\ Len(native) > 1
  BY <1>1
<1>4. OnTop(luauFastpcall, ci[Top.L], nCcalls[Top.L], baseCcalls[Top.L], status[Top.L], native, g, signal)
  BY <1>1, <1>3 DEF Balanced
<1>5. OnTop(luauFastpcall, f, n, b, st, nat, g, signal)
  BY <1>1, <1>3, <1>4
<1>6. Len(g) = N
  BY <1>1, <1>2 DEF Stack, Grounded
<1> QED BY <1>1, <1>2, <1>5, <1>6

\* The stack changes from element m on, which stays a call of the same function.
Moves(nat, g, nat2, g2, m, t) ==
    /\ nat2 \in Seq(Element) /\ g2 \in Seq(Note) /\ Len(nat2) > 1
    /\ m \in 1 .. Len(nat) /\ m <= Len(nat2)
    /\ \A i \in 1 .. (m - 1) : nat2[i] = nat[i] /\ g2[i] = g[i]
    /\ nat2[m].fn = nat[m].fn
    /\ \A j \in m .. Len(nat) : nat[j].L = t
    /\ \A j \in m .. Len(nat2) : nat2[j].L = t

LEMMA AtStep ==
  ASSUME NEW g, NEW nat, NEW N, NEW t, NEW f, NEW n, NEW b, NEW st, NEW nat2, NEW g2, NEW m,
         NEW f2, NEW n2, NEW b2, NEW st2, NEW sig2,
         At(g, nat, N, t, f, n, b, st), Moves(nat, g, nat2, g2, m, t), Stack(luauFastpcall, nat2, g2),
         f2 \in Seq(FrameType), n2 \in Nat, b2 \in Nat, st2 \in Statuses, sig2 \in {"run", "return", "throw"},
         OnTop(luauFastpcall, f2, n2, b2, st2, nat2, g2, sig2), Becomes(t, f2, n2, b2, st2, nat2, sig2)
  PROVE  CallInv'
<1>1. g \in Seq(Note) /\ Balanced(g) /\ t \in Thread /\ Top.L = t /\ native = nat
  BY DEF At
<1>2. /\ nat2 \in Seq(Element) /\ g2 \in Seq(Note) /\ Len(nat2) > 1
      /\ m \in Nat /\ m \in 1 .. Len(native) /\ m <= Len(nat2)
      /\ \A i \in 1 .. (m - 1) : nat2[i] = native[i] /\ g2[i] = g[i]
      /\ nat2[m].fn = native[m].fn
      /\ \A j \in m .. Len(native) : native[j].L = t
      /\ \A j \in m .. Len(nat2) : nat2[j].L = t
  BY <1>1 DEF Moves
<1> QED BY <1>1, <1>2, TopStep

LEMMA PopMoves ==
  ASSUME NEW fast, NEW nat, NEW g, NEW N, NEW nat2, NEW g2,
         nat \in Seq(Element), g \in Seq(Note), Stack(fast, nat, g), Len(nat) = N, N > 2,
         nat[N].fn # "lua_resume", Popped(nat, g, nat2, g2)
  PROVE  Moves(nat, g, nat2, g2, N - 1, nat[N].L) /\ Stack(fast, nat2, g2)
<1>1. /\ N \in Nat /\ N - 1 \in Nat /\ N - 1 \in 1 .. N /\ N \in 2 .. N /\ N - 1 \in 1 .. (N - 1)
      /\ Atop(fast, nat[N - 1], g[N - 1], nat[N], g[N])
      /\ nat[N] \in Element /\ g[N - 1] \in Note /\ g[N] \in Note
  BY TopIs
<1>2. /\ nat2 \in Seq(Element) /\ g2 \in Seq(Note) /\ Len(nat2) = N - 1 /\ Len(g2) = N - 1
      /\ Stack(fast, nat2, g2)
      /\ \A i \in 1 .. (N - 1) : nat2[i] = nat[i] /\ g2[i] = g[i]
  <2>1. N > 1
    OBVIOUS
  <2> QED BY <2>1, PopIs
<1>3. nat[N - 1].L = nat[N].L
  BY <1>1, AtopHeight
<1>4. \A j \in (N - 1) .. N : nat[j].L = nat[N].L
  BY <1>1, <1>3
<1>5. \A j \in (N - 1) .. (N - 1) : nat2[j].L = nat[N].L
  BY <1>1, <1>2, <1>3
<1>6. \A i \in 1 .. (N - 1 - 1) : i \in 1 .. (N - 1)
  BY <1>1
<1>7. \A i \in 1 .. (N - 1 - 1) : nat2[i] = nat[i] /\ g2[i] = g[i]
  BY <1>2, <1>6
<1>8. nat2[N - 1].fn = nat[N - 1].fn
  BY <1>1, <1>2
<1>9. Len(nat2) > 1 /\ N - 1 <= Len(nat2) /\ N - 1 \in 1 .. Len(nat)
  BY <1>1, <1>2
<1>10. /\ \A j \in (N - 1) .. Len(nat) : nat[j].L = nat[N].L
       /\ \A j \in (N - 1) .. Len(nat2) : nat2[j].L = nat[N].L
  BY <1>2, <1>4, <1>5
<1>11. nat2 \in Seq(Element) /\ g2 \in Seq(Note) /\ Stack(fast, nat2, g2)
  BY <1>2
<1> QED BY <1>7, <1>8, <1>9, <1>10, <1>11 DEF Moves

\* What element e with note x asks of frames and counts when it is returned to
Fits(e, x, f, n, b) ==
    /\ n >= x.c /\ b >= x.b
    /\ ~Handling(e) /\ e.fn # "callerrfunc" =>
          /\ n = b + x.y
          /\ e.fn # "lua_resume" => Len(f) = x.h \/ (e.fn = "resume_continue" /\ x.y = 0)
    /\ (e.fn = "resume_continue" /\ Len(f) > x.h) \/ (e.fn = "lua_resume" /\ e.phase = "handle" /\ f # <<>>) =>
          f[Len(f)].kind # "c"

LEMMA FitsIs ==
  ASSUME NEW fast, NEW f, NEW n, NEW b, NEW nat, NEW g, NEW N, Len(nat) = N, N \in Nat
  PROVE  Returns(fast, f, n, b, nat, g) <=> (Fits(nat[N], g[N], f, n, b) /\ Whole(fast, nat[N].L, f, nat, g))
<1>1. PICK M : M = Len(nat)
  OBVIOUS
<1>2. Returns(fast, f, n, b, nat, g) <=> (Fits(nat[M], g[M], f, n, b) /\ Whole(fast, nat[M].L, f, nat, g))
  BY <1>1, Zenon DEF Returns, Fits
<1> QED BY <1>1, <1>2, Zenon

LEMMA KeptSame ==
  ASSUME NEW f, NEW H, f \in Seq(FrameType), H \in Nat, H <= Len(f)
  PROVE  Kept(f, f, H)
<1>1. H < Len(f) => H + 1 \in 1 .. Len(f)
  BY FrameIs
<1>2. H < Len(f) => f[H + 1] \in FrameType
  BY <1>1, FrameIs
<1>3. H < Len(f) => f[H + 1].return \in BOOLEAN
  BY <1>2 DEF FrameType
<1> QED BY <1>1, <1>3, FrameIs DEF Kept

\* The notes of the top, and below it, are of frames that are there.
LEMMA LowIs ==
  ASSUME NEW fast, NEW nat, NEW g, NEW N, NEW f, NEW fn,
         nat \in Seq(Element), g \in Seq(Note), Stack(fast, nat, g), Len(nat) = N, N > 1,
         Frames(fast, nat[N].L, f, nat, g, fn)
  PROVE  /\ g[N].h <= Len(f) /\ g[N].h \in Nat /\ FramesOK(fast, f)
         /\ Knows(f, nat[N - 1], g[N - 1], nat[N], g[N], fn)
         /\ nat[N].fn # "lua_resume" => g[N - 1].h <= g[N].h /\ g[N - 1].h \in Nat /\ nat[N - 1].L = nat[N].L
<1>1. /\ N \in Nat /\ N \in 2 .. N /\ g[N] \in Note /\ g[N - 1] \in Note /\ nat[N] \in Element
      /\ Atop(fast, nat[N - 1], g[N - 1], nat[N], g[N])
  BY TopIs
<1>2. Known(nat[N].L, f, nat, g, N, fn) /\ FramesOK(fast, f)
  BY DEF Frames
<1>3. Knows(f, nat[N - 1], g[N - 1], nat[N], g[N], fn)
  BY <1>1, <1>2 DEF Known
<1>4. g[N].h <= Len(f)
  BY <1>3 DEF Knows
<1>5. g[N].h \in Nat /\ g[N - 1].h \in Nat
  BY <1>1, NoteIs
<1>6. nat[N].fn # "lua_resume" => g[N - 1].h <= g[N].h /\ nat[N - 1].L = nat[N].L
  BY <1>1, AtopHeight
<1> QED BY <1>2, <1>3, <1>4, <1>5, <1>6

\* The top ends, and its caller is returned to.
LEMMA StepPopped ==
  ASSUME NEW g, NEW nat, NEW N, NEW t, NEW f, NEW n, NEW b, NEW st, NEW f2, NEW n2, NEW b2, NEW nat2, NEW g2,
         At(g, nat, N, t, f, n, b, st), N > 2, f2 \in Seq(FrameType), n2 \in Nat, b2 \in Nat,
         nat[N].fn # "lua_resume", Popped(nat, g, nat2, g2), Whole(luauFastpcall, t, f2, nat2, g2),
         Fits(nat[N - 1], g[N - 1], f2, n2, b2), Becomes(t, f2, n2, b2, "ok", nat2, "return")
  PROVE  CallInv'
<1>1. /\ Stack(luauFastpcall, nat, g) /\ g \in Seq(Note) /\ nat \in Seq(Element) /\ N \in Nat /\ N > 1
      /\ t \in Thread /\ f \in Seq(FrameType) /\ Len(nat) = N /\ nat[N].L = t
  BY AtStack
<1>3. Popped(nat, g, nat2, g2)
  OBVIOUS
<1>5. Moves(nat, g, nat2, g2, N - 1, t) /\ Stack(luauFastpcall, nat2, g2)
  BY <1>1, <1>3, PopMoves
<1>8. nat2[N - 1] = nat[N - 1] /\ g2[N - 1] = g[N - 1] /\ Len(nat2) = N - 1 /\ N - 1 \in Nat /\ nat2[N - 1].L = t
  <2>0. Stack(luauFastpcall, nat, g) /\ g \in Seq(Note) /\ nat \in Seq(Element) /\ Len(nat) = N /\ N > 1
    BY <1>1
  <2>1. /\ nat2 \in Seq(Element) /\ g2 \in Seq(Note) /\ Len(nat2) = N - 1 /\ Len(g2) = N - 1
        /\ Stack(luauFastpcall, nat2, g2)
        /\ \A i \in 1 .. (N - 1) : nat2[i] = nat[i] /\ g2[i] = g[i]
    BY <1>3, <2>0, PopIs
  <2>2. N - 1 \in 1 .. (N - 1) /\ N - 1 \in Nat /\ N - 1 \in (N - 1) .. (N - 1)
    BY <1>1
  <2> QED BY <1>5, <2>1, <2>2 DEF Moves
<1>9. Returns(luauFastpcall, f2, n2, b2, nat2, g2)
  <2>1. Whole(luauFastpcall, nat2[N - 1].L, f2, nat2, g2)
    BY <1>8
  <2>2. Fits(nat2[N - 1], g2[N - 1], f2, n2, b2)
    BY <1>8
  <2> QED BY <1>8, <2>1, <2>2, FitsIs
<1>10. OnTop(luauFastpcall, f2, n2, b2, "ok", nat2, g2, "return")
  BY <1>9 DEF OnTop
<1>12. "ok" \in Statuses
  BY DEF Statuses
<1> QED BY <1>5, <1>10, <1>12, AtStep

LEMMA StepReturns ==
  ASSUME NEW g, NEW nat, NEW N, NEW t, NEW f, NEW n, NEW b, NEW st, NEW f2, NEW n2, NEW b2,
         At(g, nat, N, t, f, n, b, st), N > 2, f2 \in Seq(FrameType), n2 \in Nat, b2 \in Nat,
         Ends(luauFastpcall, t, f, "none", f2, "none", nat, g, N), Marks(luauFastpcall, t, f, nat, g),
         LeftMarks(f, f2, nat[N]), Fits(nat[N - 1], g[N - 1], f2, n2, b2),
         Becomes(t, f2, n2, b2, "ok", Front(nat), "return")
  PROVE  CallInv'
<1>1. /\ Stack(luauFastpcall, nat, g) /\ g \in Seq(Note) /\ nat \in Seq(Element) /\ N \in Nat /\ N > 1
      /\ t \in Thread /\ f \in Seq(FrameType) /\ Len(nat) = N /\ nat[N].L = t
  BY AtStack
<1>2. PICK nat2, g2 : nat2 = Front(nat) /\ g2 = Front(g)
  OBVIOUS
<1>3. Popped(nat, g, nat2, g2)
  BY <1>1, <1>2, FrontPopped
<1>4. nat[N].fn # "lua_resume"
  BY DEF Ends
<1>6. /\ Frames(luauFastpcall, t, f2, nat2, g2, "none") /\ Explained(t, f2, nat2, g2, FALSE)
  BY <1>1, <1>3, PopFrames
<1>7. Marks(luauFastpcall, t, f2, nat2, g2)
  BY <1>1, <1>3, PopMarks
<1>8. Whole(luauFastpcall, t, f2, nat2, g2)
  BY <1>6, <1>7 DEF Whole
<1>11. Becomes(t, f2, n2, b2, "ok", nat2, "return")
  BY <1>2
<1> QED BY <1>3, <1>4, <1>8, <1>11, StepPopped

\* The top ends, as the thread yields.
LEMMA StepYields ==
  ASSUME NEW g, NEW nat, NEW N, NEW t, NEW f, NEW n, NEW b, NEW st, NEW f2, NEW n2, NEW st2,
         At(g, nat, N, t, f, n, b, st), nat[N].fn # "lua_resume", f2 \in Seq(FrameType), n2 \in Nat,
         Yields(luauFastpcall, f, n, b, st2, nat, g), FramesOK(luauFastpcall, f2),
         Kept(f, f2, g[N - 1].h), Left(nat[N].L, f, f2, nat, N),
         Leaves(f2, st2), n2 >= g[N - 1].c, n2 >= g[N - 1].b,
         Becomes(t, f2, n2, n2, st2, Front(nat), "return")
  PROVE  CallInv'
<1>1. /\ Stack(luauFastpcall, nat, g) /\ g \in Seq(Note) /\ nat \in Seq(Element) /\ N \in Nat /\ N > 1
      /\ t \in Thread /\ f \in Seq(FrameType) /\ n \in Nat /\ b \in Nat /\ Len(nat) = N /\ nat[N].L = t
  BY AtStack
<1>2. PICK nat2, g2 : nat2 = Front(nat) /\ g2 = Front(g)
  OBVIOUS
<1>3. Popped(nat, g, nat2, g2)
  BY <1>1, <1>2, FrontPopped
<1>4. Yields(luauFastpcall, f2, n2, n2, st2, nat2, g2) /\ Len(nat2) > 1
  BY <1>1, <1>3, PopYields
<1>5. N > 2
  <2>0. Stack(luauFastpcall, nat, g) /\ g \in Seq(Note) /\ nat \in Seq(Element) /\ Len(nat) = N /\ N > 1
    BY <1>1
  <2>1. /\ nat2 \in Seq(Element) /\ g2 \in Seq(Note) /\ Len(nat2) = N - 1 /\ Len(g2) = N - 1
        /\ Stack(luauFastpcall, nat2, g2)
        /\ \A i \in 1 .. (N - 1) : nat2[i] = nat[i] /\ g2[i] = g[i]
    BY <1>3, <2>0, PopIs
  <2> QED BY <1>1, <1>4, <2>1
<1>6. Moves(nat, g, nat2, g2, N - 1, t) /\ Stack(luauFastpcall, nat2, g2)
  BY <1>1, <1>3, <1>5, PopMoves
<1>7. st2 \in Statuses /\ st2 # "ok"
  BY DEF Leaves, Statuses
<1>8. OnTop(luauFastpcall, f2, n2, n2, st2, nat2, g2, "return")
  BY <1>4, <1>7 DEF OnTop
<1>9. Becomes(t, f2, n2, n2, st2, nat2, "return")
  BY <1>2
<1> QED BY <1>6, <1>7, <1>8, <1>9, AtStep

-----------------------------------------------------------------------------
(* What is known of the thread on top                                       *)

\* Only the host lies at the bottom.
LEMMA AboveHost ==
  ASSUME NEW g, g \in Seq(Note), Balanced(g), ~Host \/ Top.fn # "C"
  PROVE  /\ Len(native) > 1 /\ Top.L \in Thread
         /\ \E nat, N, f, n, b, st : At(g, nat, N, Top.L, f, n, b, st)
<1>1. native \in Seq(Element) /\ native # <<>> /\ Stack(luauFastpcall, native, g)
  BY DEF Balanced, CallTypeOK
<1>2. Len(native) \in Nat /\ Len(native) # 0
  BY <1>1, LenIs
<1>3. Len(native) > 1
  <2>1. native[1].fn = "C"
    BY <1>1 DEF Stack, Grounded, Native
  <2>2. Host => Top = native[1]
    BY DEF Top, Last, Host
  <2>3. ~Host
    BY <2>1, <2>2
  <2>4. PICK M : M = Len(native)
    OBVIOUS
  <2>5. M \in Nat /\ M # 0 /\ M # 1
    BY <1>2, <2>3, <2>4 DEF Host
  <2>6. M > 1
    BY <2>5
  <2> QED BY <2>4, <2>6
<1>4. PICK nat, N, t, f, n, b, st : At(g, nat, N, t, f, n, b, st)
  BY <1>3, AtIs
<1>5. Top.L = t /\ t \in Thread
  BY <1>4 DEF At
<1> QED BY <1>3, <1>4, <1>5

LEMMA AtSame ==
  ASSUME NEW g, NEW nat, NEW N, NEW t, NEW f, NEW n, NEW b, NEW st,
         At(g, nat, N, t, f, n, b, st)
  PROVE  /\ [ci EXCEPT ![t] = f] = ci /\ [nCcalls EXCEPT ![t] = n] = nCcalls
         /\ [baseCcalls EXCEPT ![t] = b] = baseCcalls /\ [status EXCEPT ![t] = st] = status
         /\ native = nat /\ Top = nat[N] /\ Top.L = t
         /\ ci[t] = f /\ nCcalls[t] = n /\ baseCcalls[t] = b /\ status[t] = st
<1>1. /\ CallTypeOK /\ t \in Thread /\ native = nat /\ Top = nat[N] /\ nat[N].L = t
      /\ ci[t] = f /\ nCcalls[t] = n /\ baseCcalls[t] = b /\ status[t] = st
  BY DEF At, Balanced
<1>2. /\ [ci EXCEPT ![t] = ci[t]] = ci /\ [nCcalls EXCEPT ![t] = nCcalls[t]] = nCcalls
      /\ [baseCcalls EXCEPT ![t] = baseCcalls[t]] = baseCcalls /\ [status EXCEPT ![t] = status[t]] = status
  BY <1>1 DEF CallTypeOK
<1> QED BY <1>1, <1>2

\* Notes and elements of the top, and what lies below it
LEMMA AtTop ==
  ASSUME NEW g, NEW nat, NEW N, NEW t, NEW f, NEW n, NEW b, NEW st,
         At(g, nat, N, t, f, n, b, st)
  PROVE  /\ nat[N] \in Element /\ nat[N - 1] \in Element /\ g[N] \in Note /\ g[N - 1] \in Note
         /\ Atop(luauFastpcall, nat[N - 1], g[N - 1], nat[N], g[N])
         /\ N = 2 => nat[N].fn \in {"luaD_pcall", "lua_resume"} /\ nat[1] = Native("C", MainThread)
                     /\ Noted(g[1], 0, 0, 0, 0)
<1>1. Stack(luauFastpcall, nat, g) /\ g \in Seq(Note) /\ nat \in Seq(Element) /\ Len(nat) = N /\ N > 1
  BY AtStack
<1>2. /\ nat[N] \in Element /\ nat[N - 1] \in Element /\ g[N] \in Note /\ g[N - 1] \in Note
      /\ Atop(luauFastpcall, nat[N - 1], g[N - 1], nat[N], g[N])
  BY <1>1, TopIs
<1>3. N = 2 => nat[N].fn \in {"luaD_pcall", "lua_resume"} /\ nat[1] = Native("C", MainThread)
                     /\ Noted(g[1], 0, 0, 0, 0)
  BY <1>1 DEF Stack, Grounded
<1> QED BY <1>2, <1>3

LEMMA TopReturns ==
  ASSUME NEW g, NEW nat, NEW N, NEW t, NEW f, NEW n, NEW b, NEW st,
         At(g, nat, N, t, f, n, b, st), signal = "return", st = "ok"
  PROVE  /\ Fits(nat[N], g[N], f, n, b) /\ Whole(luauFastpcall, t, f, nat, g)
         /\ Frames(luauFastpcall, t, f, nat, g, "none") /\ Explained(t, f, nat, g, FALSE)
         /\ Marks(luauFastpcall, t, f, nat, g) /\ FramesOK(luauFastpcall, f)
<1>1. OnTop(luauFastpcall, f, n, b, st, nat, g, signal) /\ Len(nat) = N /\ N \in Nat /\ nat[N].L = t
  BY AtStack
<1>2. Returns(luauFastpcall, f, n, b, nat, g)
  BY <1>1 DEF OnTop
<1>3. Fits(nat[N], g[N], f, n, b) /\ Whole(luauFastpcall, nat[N].L, f, nat, g)
  BY <1>1, <1>2, FitsIs
<1> QED BY <1>1, <1>3 DEF Whole, Frames

LEMMA TopYields ==
  ASSUME NEW g, NEW nat, NEW N, NEW t, NEW f, NEW n, NEW b, NEW st,
         At(g, nat, N, t, f, n, b, st), signal = "return", st # "ok"
  PROVE  /\ Yields(luauFastpcall, f, n, b, st, nat, g)
         /\ n >= g[N].c /\ n >= g[N].b /\ n = b /\ g[N].y = 0 /\ Clear(nat, N) /\ ~Handling(nat[N])
         /\ Frames(luauFastpcall, t, f, nat, g, "luaD_pcall") /\ Explained(t, f, nat, g, FALSE)
         /\ Leaves(f, st) /\ FramesOK(luauFastpcall, f)
<1>1. OnTop(luauFastpcall, f, n, b, st, nat, g, signal) /\ Len(nat) = N /\ nat[N].L = t
  BY AtStack
<1>2. Yields(luauFastpcall, f, n, b, st, nat, g)
  BY <1>1 DEF OnTop
<1>3. /\ n >= g[N].c /\ b >= g[N].b /\ n = b /\ g[N].y = 0 /\ Clear(nat, N) /\ ~Handling(nat[N])
      /\ Frames(luauFastpcall, t, f, nat, g, "luaD_pcall") /\ Explained(t, f, nat, g, FALSE)
      /\ Leaves(f, st)
  BY <1>1, <1>2 DEF Yields
<1>4. FramesOK(luauFastpcall, f)
  BY <1>3 DEF Frames
<1> QED BY <1>2, <1>3, <1>4

\* The counts and the height of a thread that runs with note z on top
Level(z, f, n, b, st) ==
    n >= z.c /\ b >= z.b /\ n = b + z.y /\ st = "ok" /\ Len(f) = z.h /\ z.h > 0 /\ f # <<>>

LEMMA TopRuns ==
  ASSUME NEW g, NEW nat, NEW N, NEW t, NEW f, NEW n, NEW b, NEW st,
         At(g, nat, N, t, f, n, b, st), signal = "run", nat[N].fn # "lua_resume"
  PROVE  /\ Level(g[N], f, n, b, st) /\ nat[N].fn \in {"C", "luau_execute"}
         /\ Whole(luauFastpcall, t, f, nat, g)
         /\ Frames(luauFastpcall, t, f, nat, g, "none") /\ Explained(t, f, nat, g, FALSE)
         /\ Marks(luauFastpcall, t, f, nat, g) /\ FramesOK(luauFastpcall, f)
         /\ ~f[Len(f)].handle /\ (nat[N].fn = "luau_execute" => f[Len(f)].kind = "lua")
         /\ (nat[N].fn = "C" => f[Len(f)].kind # "lua")
<1>1. OnTop(luauFastpcall, f, n, b, st, nat, g, signal) /\ Len(nat) = N /\ nat[N].L = t /\ f \in Seq(FrameType)
  BY AtStack
<1>2. Runs(luauFastpcall, f, n, b, st, nat, g)
  BY <1>1 DEF OnTop
<1>3. /\ n >= g[N].c /\ b >= g[N].b /\ n = b + g[N].y /\ st = "ok"
      /\ nat[N].fn \in {"C", "luau_execute"} /\ Len(f) = g[N].h
      /\ Whole(luauFastpcall, t, f, nat, g)
      /\ ~f[g[N].h].handle /\ (nat[N].fn = "luau_execute" => f[g[N].h].kind = "lua")
  BY <1>1, <1>2 DEF Runs
<1>4. /\ Frames(luauFastpcall, t, f, nat, g, "none") /\ Explained(t, f, nat, g, FALSE)
      /\ Marks(luauFastpcall, t, f, nat, g) /\ FramesOK(luauFastpcall, f)
  BY <1>3 DEF Whole, Frames
<1>5. /\ nat[N] \in Element /\ nat[N - 1] \in Element /\ g[N] \in Note /\ g[N - 1] \in Note
      /\ Atop(luauFastpcall, nat[N - 1], g[N - 1], nat[N], g[N])
  BY AtTop
<1>6. g[N].h > 0 /\ g[N].h \in Nat
  BY <1>3, <1>5, HeightIs
<1>7. f # <<>>
  BY <1>1, <1>3, <1>6, LenIs
<1>8. nat[N].fn = "C" => f[g[N].h].kind # "lua"
  <2>1. Stack(luauFastpcall, nat, g) /\ g \in Seq(Note) /\ nat \in Seq(Element) /\ Len(nat) = N /\ N > 1
    BY AtStack
  <2>2. Frames(luauFastpcall, nat[N].L, f, nat, g, "none")
    BY <1>1, <1>4
  <2>3. Knows(f, nat[N - 1], g[N - 1], nat[N], g[N], "none")
    BY <2>1, <2>2, LowIs
  <2> QED BY <2>3 DEF Knows
<1> QED BY <1>3, <1>4, <1>6, <1>7, <1>8 DEF Level

\* The counts of a thread that throws
Thrown(z, n, b, st) == n >= z.c /\ b >= z.b /\ n >= b /\ st = "ok"

LEMMA TopThrows ==
  ASSUME NEW g, NEW nat, NEW N, NEW t, NEW f, NEW n, NEW b, NEW st,
         At(g, nat, N, t, f, n, b, st), signal = "throw"
  PROVE  /\ Thrown(g[N], n, b, st) /\ ~Handling(nat[N])
         /\ Frames(luauFastpcall, t, f, nat, g, "luaD_pcall") /\ Explained(t, f, nat, g, TRUE)
         /\ Marks(luauFastpcall, t, f, nat, g) /\ FramesOK(luauFastpcall, f)
<1>1. OnTop(luauFastpcall, f, n, b, st, nat, g, signal) /\ Len(nat) = N /\ nat[N].L = t
  BY AtStack
<1>2. Throws(luauFastpcall, f, n, b, st, nat, g)
  BY <1>1 DEF OnTop
<1>3. /\ Thrown(g[N], n, b, st) /\ ~Handling(nat[N])
      /\ Frames(luauFastpcall, t, f, nat, g, "luaD_pcall") /\ Explained(t, f, nat, g, TRUE)
      /\ Marks(luauFastpcall, t, f, nat, g)
  BY <1>1, <1>2 DEF Throws, Thrown
<1> QED BY <1>3 DEF Frames

-----------------------------------------------------------------------------
(* Calls that return                                                        *)

LEMMA CallIntStep ==
  ASSUME NEW g, NEW t, g \in Seq(Note), Balanced(g), t \in Thread, CallIntReturns(t), UNCHANGED luauFastpcall
  PROVE  CallInv'
<1>1. signal = "return" /\ Top.fn = "luaD_callint" /\ Top.L = t
  BY DEF CallIntReturns, Returned
<1>2. PICK nat, N, f, n, b, st : At(g, nat, N, t, f, n, b, st)
  BY <1>1, AboveHost
<1>3. /\ Stack(luauFastpcall, nat, g) /\ nat \in Seq(Element) /\ N \in Nat /\ N > 1 /\ f \in Seq(FrameType)
      /\ n \in Nat /\ b \in Nat /\ st \in Statuses /\ Len(nat) = N /\ nat[N].L = t
  BY <1>2, AtStack
<1>4. /\ [ci EXCEPT ![t] = f] = ci /\ [status EXCEPT ![t] = st] = status
      /\ [baseCcalls EXCEPT ![t] = b] = baseCcalls
      /\ native = nat /\ Top = nat[N] /\ nCcalls[t] = n /\ baseCcalls[t] = b /\ status[t] = st
  BY <1>2, AtSame
<1>5. PICK e, z, d, x : e = nat[N] /\ z = g[N] /\ d = nat[N - 1] /\ x = g[N - 1]
  OBVIOUS
<1>6. /\ e \in Element /\ d \in Element /\ z \in Note /\ x \in Note /\ Atop(luauFastpcall, d, x, e, z)
      /\ N # 2
  BY <1>1, <1>2, <1>4, <1>5, AtTop
<1>7. /\ e.from \in BOOLEAN /\ e.frames = x.h
      /\ d.fn \in {"C", "luau_execute", "luaD_pcall"} /\ ~Handling(d)
      /\ e.from => Noted(z, x.h, x.y, x.c + 1, x.b + 1)
      /\ ~e.from => Noted(z, x.h, x.y + 1, x.c + 1, x.b)
  BY <1>1, <1>4, <1>5, <1>6, ElementIs DEF Atop, Handling
<1>8. x.h \in Nat /\ x.y \in Nat /\ x.c \in Nat /\ x.b \in Nat /\ z.h = x.h
  BY <1>6, <1>7, NoteIs DEF Noted
<1>9. Becomes(t, f, n - 1, IF e.from THEN b - 1 ELSE b, st, Front(nat), "return")
  BY <1>1, <1>4, <1>5 DEF CallIntReturns, Becomes
<1>10. ~Handling(e) /\ e.fn = "luaD_callint" /\ e.L = t
  BY <1>1, <1>3, <1>4, <1>5 DEF Handling
<1>11. CASE st = "ok"
  <2>1. /\ Fits(e, z, f, n, b)
        /\ Frames(luauFastpcall, t, f, nat, g, "none") /\ Explained(t, f, nat, g, FALSE)
        /\ Marks(luauFastpcall, t, f, nat, g) /\ FramesOK(luauFastpcall, f)
    BY <1>1, <1>2, <1>5, <1>11, TopReturns
  <2>2. n >= z.c /\ b >= z.b /\ n = b + z.y /\ Len(f) = z.h
    BY <1>10, <2>1 DEF Fits
  <2>4. PICK n2, b2 : n2 = n - 1 /\ b2 = IF e.from THEN b - 1 ELSE b
    OBVIOUS
  <2>10. n2 >= x.c /\ b2 >= x.b /\ n2 = b2 + x.y /\ Len(f) = x.h /\ n2 \in Nat /\ b2 \in Nat
    <3>1. Len(f) = x.h
      BY <1>8, <2>2
    <3>2. /\ n \in Nat /\ b \in Nat /\ x.y \in Nat /\ x.c \in Nat /\ x.b \in Nat
          /\ n >= z.c /\ b >= z.b /\ n = b + z.y
      BY <1>3, <1>8, <2>2
    <3>3. CASE e.from
      <4>1. z.c = x.c + 1 /\ z.b = x.b + 1 /\ z.y = x.y
        BY <1>7, <3>3 DEF Noted
      <4>2. n2 = n - 1 /\ b2 = b - 1
        BY <2>4, <3>3
      <4>3. n = b + x.y
        BY <3>2, <4>1
      <4>4. PICK c, m, y, c0, m0 : c = x.c /\ m = x.b /\ y = x.y /\ c0 = z.c /\ m0 = z.b
        OBVIOUS
      <4>5. c \in Nat /\ m \in Nat /\ y \in Nat /\ c0 = c + 1 /\ m0 = m + 1
        BY <3>2, <4>1, <4>4
      <4>6. n >= c0 /\ b >= m0 /\ n = b + y
        BY <3>2, <4>3, <4>4
      <4>7. n - 1 \in Nat /\ b - 1 \in Nat /\ n - 1 >= c /\ b - 1 >= m /\ n - 1 = (b - 1) + y
        <5>1. n \in Nat /\ b \in Nat
          BY <3>2
        <5> QED BY <4>5, <4>6, <5>1, BothLess
      <4> QED BY <3>1, <4>2, <4>4, <4>7
    <3>4. CASE ~e.from
      <4>1. z.c = x.c + 1 /\ z.b = x.b /\ z.y = x.y + 1
        BY <1>7, <3>4 DEF Noted
      <4>2. n2 = n - 1 /\ b2 = b
        BY <2>4, <3>4
      <4>3. PICK c, y, c0, y0 : c = x.c /\ y = x.y /\ c0 = z.c /\ y0 = z.y
        OBVIOUS
      <4>4. c \in Nat /\ y \in Nat /\ c0 = c + 1 /\ y0 = y + 1
        BY <3>2, <4>1, <4>3
      <4>5. n >= c0 /\ n = b + y0
        BY <3>2, <4>3
      <4>6. n - 1 \in Nat /\ n - 1 >= c /\ n - 1 = b + y
        <5>1. n \in Nat /\ b \in Nat
          BY <3>2
        <5> QED BY <4>4, <4>5, <5>1, OneLess
      <4>7. b >= x.b
        BY <3>2, <4>1
      <4> QED BY <3>1, <3>2, <4>2, <4>3, <4>6, <4>7
    <3> QED BY <3>3, <3>4
  <2>5. Kept(f, f, x.h)
    BY <1>3, <1>8, <2>2, KeptSame
  <2>6. Left(t, f, f, nat, N)
    <3> SUFFICES ASSUME NEW k \in DOMAIN f, Bad(f, k)
                 PROVE  ~CalledFrom(t, f, e, k)
      BY <1>5 DEF Left
    <3> SUFFICES ASSUME e.frames = k, f[k].kind # "lua"
                 PROVE  FALSE
      BY <1>10 DEF CalledFrom
    <3>1. k = Len(f) /\ k \in Nat
      BY <1>7, <1>8, <2>2, FrameIs
    <3>2. f[k].forcall # f[k].opyield
      BY <3>1 DEF Bad
    <3>3. k \in 1 .. Len(f)
      BY <1>3, FrameIs
    <3>4. f[k] \in FrameType
      BY <1>3, <3>3, FrameIs
    <3>5. f[k].forcall \in BOOLEAN /\ f[k].opyield \in BOOLEAN
      BY <3>4 DEF FrameType
    <3> QED BY <2>1, <3>2, <3>5 DEF FramesOK
  <2>7. Ends(luauFastpcall, t, f, "none", f, "none", nat, g, N)
    BY <1>5, <1>10, <2>1, <2>5, <2>6 DEF Ends
  <2>8. LeftMarks(f, f, nat[N])
    BY <1>5, <1>10 DEF LeftMarks
  <2>9. N > 2
    BY <1>3, <1>6
  <2>12. Fits(d, x, f, n2, b2)
    BY <1>7, <2>10 DEF Fits
  <2>11. /\ n2 \in Nat /\ b2 \in Nat /\ Fits(nat[N - 1], g[N - 1], f, n2, b2)
         /\ Becomes(t, f, n2, b2, "ok", Front(nat), "return")
    BY <1>5, <1>9, <1>11, <2>4, <2>10, <2>12
  <2> QED BY <1>2, <1>3, <2>1, <2>7, <2>8, <2>9, <2>11, StepReturns
<1>12. CASE st # "ok"
  <2>1. /\ Yields(luauFastpcall, f, n, b, st, nat, g)
        /\ n >= z.c /\ n >= z.b /\ n = b /\ z.y = 0 /\ Leaves(f, st) /\ FramesOK(luauFastpcall, f)
        /\ Frames(luauFastpcall, t, f, nat, g, "luaD_pcall")
    <3>1. signal = "return" /\ At(g, nat, N, t, f, n, b, st)
      BY <1>1, <1>2
    <3>2. Yields(luauFastpcall, f, n, b, st, nat, g) /\ n >= g[N].c /\ n >= g[N].b /\ n = b /\ g[N].y = 0
      BY <1>12, <3>1, TopYields
    <3>3. Leaves(f, st) /\ FramesOK(luauFastpcall, f) /\ Frames(luauFastpcall, t, f, nat, g, "luaD_pcall")
      BY <1>12, <3>1, TopYields
    <3> QED BY <1>5, <3>2, <3>3
  <2>2. e.from
    BY <1>7, <1>8, <2>1 DEF Noted
  <2>3. n - 1 \in Nat /\ n - 1 >= x.c /\ n - 1 >= x.b
    BY <1>3, <1>7, <1>8, <2>1, <2>2 DEF Noted
  <2>4. z.h <= Len(f)
    <3>1. Stack(luauFastpcall, nat, g) /\ nat \in Seq(Element) /\ Len(nat) = N /\ N > 1
      BY <1>3
    <3>2. Frames(luauFastpcall, nat[N].L, f, nat, g, "luaD_pcall")
      BY <1>3, <2>1
    <3> QED BY <1>5, <3>1, <3>2, LowIs
  <2>5. Kept(f, f, g[N - 1].h)
    BY <1>3, <1>5, <1>8, <2>4, KeptSame
  <2>6. Left(nat[N].L, f, f, nat, N)
    BY <1>5, <1>10, <2>2 DEF Left, CalledFrom
  <2>7. PICK n2 : n2 = n - 1
    OBVIOUS
  <2>8. /\ n2 \in Nat /\ n2 >= g[N - 1].c /\ n2 >= g[N - 1].b
        /\ Becomes(t, f, n2, n2, st, Front(nat), "return") /\ nat[N].fn # "lua_resume"
    BY <1>5, <1>9, <1>10, <2>1, <2>2, <2>3, <2>7
  <2> QED BY <1>2, <1>3, <2>1, <2>5, <2>6, <2>8, StepYields
<1> QED BY <1>11, <1>12

LEMMA UncountStep ==
  ASSUME NEW g, NEW t, g \in Seq(Note), Balanced(g), t \in Thread, UncountReturns(t), UNCHANGED luauFastpcall
  PROVE  CallInv'
<1>1. signal = "return" /\ Top.fn \in {"luaV_callTM", "luaD_callny"} /\ Top.L = t
  BY DEF UncountReturns, Returned
<1>2. PICK nat, N, f, n, b, st : At(g, nat, N, t, f, n, b, st)
  BY <1>1, AboveHost
<1>3. /\ Stack(luauFastpcall, nat, g) /\ nat \in Seq(Element) /\ N \in Nat /\ N > 1 /\ f \in Seq(FrameType)
      /\ n \in Nat /\ b \in Nat /\ st \in Statuses /\ Len(nat) = N /\ nat[N].L = t
  BY <1>2, AtStack
<1>4. /\ [ci EXCEPT ![t] = f] = ci /\ [status EXCEPT ![t] = st] = status
      /\ [baseCcalls EXCEPT ![t] = b] = baseCcalls
      /\ native = nat /\ Top = nat[N] /\ nCcalls[t] = n /\ baseCcalls[t] = b /\ status[t] = st
  BY <1>2, AtSame
<1>5. PICK e, z, d, x : e = nat[N] /\ z = g[N] /\ d = nat[N - 1] /\ x = g[N - 1]
  OBVIOUS
<1>6. /\ e \in Element /\ d \in Element /\ z \in Note /\ x \in Note /\ Atop(luauFastpcall, d, x, e, z)
      /\ N # 2
  BY <1>1, <1>2, <1>4, <1>5, AtTop
<1>7. /\ z.y > 0 /\ z.h = x.h /\ z.c = x.c + 1 /\ z.b = x.b
      /\ d.fn = "callerrfunc" \/ (d.fn = "luau_execute" /\ z.y = x.y + 1)
  BY <1>1, <1>4, <1>5, <1>6, NoteIs DEF Atop, Noted
<1>8. x.h \in Nat /\ x.y \in Nat /\ x.c \in Nat /\ x.b \in Nat /\ z.y \in Nat
  BY <1>6, NoteIs
<1>9. Becomes(t, f, n - 1, b, st, Front(nat), "return")
  BY <1>1, <1>4, <1>5 DEF UncountReturns, Becomes
<1>10. ~Handling(e) /\ e.fn \in {"luaV_callTM", "luaD_callny"} /\ e.L = t
  BY <1>1, <1>3, <1>4, <1>5 DEF Handling
<1>11. st = "ok"
  <2> SUFFICES ASSUME st # "ok"
               PROVE  FALSE
    OBVIOUS
  <2>1. g[N].y = 0
    BY <1>1, <1>2, TopYields
  <2> QED BY <1>5, <1>7, <2>1
<1>12. /\ Fits(e, z, f, n, b)
       /\ Frames(luauFastpcall, t, f, nat, g, "none") /\ Explained(t, f, nat, g, FALSE)
       /\ Marks(luauFastpcall, t, f, nat, g) /\ FramesOK(luauFastpcall, f)
  BY <1>1, <1>2, <1>5, <1>11, TopReturns
<1>13. n >= z.c /\ b >= z.b /\ n = b + z.y /\ Len(f) = z.h
  BY <1>10, <1>12 DEF Fits
<1>14. n \in Nat /\ b \in Nat
  BY <1>3
<1>15. PICK n2 : n2 = n - 1
  OBVIOUS
<1>16. n2 \in Nat /\ n2 >= x.c /\ b >= x.b /\ (z.y = x.y + 1 => n2 = b + x.y)
  <2>1. z.c = x.c + 1 /\ z.b = x.b /\ n >= z.c /\ b >= z.b /\ n = b + z.y
    BY <1>7, <1>13
  <2>2. n2 \in Nat /\ n2 >= x.c
    BY <1>8, <1>14, <1>15, <2>1, Lower
  <2>3. b >= x.b
    BY <2>1
  <2>4. ASSUME z.y = x.y + 1
        PROVE  n2 = b + x.y
    BY <1>8, <1>14, <1>15, <2>1, <2>4, OneLess
  <2> QED BY <2>2, <2>3, <2>4
<1>17. Fits(d, x, f, n2, b)
  BY <1>7, <1>13, <1>16 DEF Fits
<1>18. Kept(f, f, x.h)
  BY <1>3, <1>7, <1>8, <1>13, KeptSame
<1>19. Left(t, f, f, nat, N)
  BY <1>5, <1>10 DEF Left, CalledFrom
<1>20. Ends(luauFastpcall, t, f, "none", f, "none", nat, g, N)
  BY <1>5, <1>10, <1>12, <1>18, <1>19 DEF Ends
<1>21. LeftMarks(f, f, nat[N])
  BY <1>5, <1>10 DEF LeftMarks
<1>22. N > 2
  BY <1>3, <1>6
<1>23. /\ Fits(nat[N - 1], g[N - 1], f, n2, b)
       /\ Becomes(t, f, n2, b, "ok", Front(nat), "return")
  BY <1>5, <1>9, <1>11, <1>15, <1>17
<1> QED BY <1>2, <1>3, <1>12, <1>16, <1>20, <1>21, <1>22, <1>23, StepReturns

\* One frame has other marks.
LEMMA KeptChange ==
  ASSUME NEW f, NEW m, NEW r, NEW H,
         f \in Seq(FrameType), m \in 1 .. Len(f), r \in FrameType, r.kind = f[m].kind,
         r.return = f[m].return, r.pcall = f[m].pcall, r.handle => f[m].handle,
         m <= H /\ f[m].forcall => r.forcall, H \in Nat, H <= Len(f)
  PROVE  Kept(f, [f EXCEPT ![m] = r], H)
<1> DEFINE s == [f EXCEPT ![m] = r]
<1>1. Len(f) \in Nat /\ \A k \in 1 .. Len(f) : f[k] \in FrameType
  BY FrameIs
<1>2. Len(s) = Len(f) /\ \A k \in 1 .. Len(f) : s[k] = IF k = m THEN r ELSE f[k]
  BY ExceptIs
<1> HIDE DEF s
<1>3. \A k \in 1 .. Len(f) : s[k].kind = f[k].kind /\ s[k].return = f[k].return
                             /\ s[k].pcall = f[k].pcall /\ (s[k].handle => f[k].handle)
  BY <1>2
<1>4. \A k \in 1 .. H : k \in 1 .. Len(f) /\ (f[k].forcall => s[k].forcall)
  BY <1>1, <1>2
<1>5. H < Len(f) => H + 1 \in 1 .. Len(f)
  BY <1>1
<1>6. H < Len(f) => s[H + 1].kind = f[H + 1].kind /\ s[H + 1].return = f[H + 1].return
                    /\ f[H + 1].return \in BOOLEAN
  BY <1>1, <1>3, <1>5 DEF FrameType
<1>7. Kept(f, s, H)
  BY <1>1, <1>2, <1>3, <1>4, <1>6 DEF Kept
<1> QED BY <1>7 DEF s

\* The caller goes on, or is marked.
LEMMA PerformCallYYields ==
  ASSUME NEW g, NEW nat, NEW N, NEW t, NEW f, NEW n, NEW b, NEW st,
         At(g, nat, N, t, f, n, b, st), signal = "return", st # "ok", PerformCallYReturns(t), UNCHANGED luauFastpcall
  PROVE  CallInv'
<1>3. /\ Stack(luauFastpcall, nat, g) /\ nat \in Seq(Element) /\ N \in Nat /\ N > 1 /\ f \in Seq(FrameType)
      /\ n \in Nat /\ b \in Nat /\ st \in Statuses /\ Len(nat) = N /\ nat[N].L = t /\ g \in Seq(Note)
  BY AtStack
<1>4. /\ [nCcalls EXCEPT ![t] = n] = nCcalls /\ [status EXCEPT ![t] = st] = status
      /\ [baseCcalls EXCEPT ![t] = b] = baseCcalls
      /\ native = nat /\ Top = nat[N] /\ status[t] = st /\ ci[t] = f /\ t \in Thread
  BY AtSame, AtStack
<1>5. PICK e, z, d, x : e = nat[N] /\ z = g[N] /\ d = nat[N - 1] /\ x = g[N - 1]
  OBVIOUS
<1>6. /\ e \in Element /\ d \in Element /\ z \in Note /\ x \in Note /\ Atop(luauFastpcall, d, x, e, z)
      /\ e.fn = "luaD_performcally"
  BY <1>4, <1>5, AtTop DEF PerformCallYReturns, Returned
<1>7. z.h = x.h /\ z.c = x.c + 1 /\ z.b = x.b + 1 /\ e.frames = x.h /\ ~Handling(e)
  BY <1>6 DEF Atop, Noted, Handling
<1>8. x.h \in Nat /\ x.y \in Nat /\ x.c \in Nat /\ x.b \in Nat
  BY <1>6, NoteIs
<1>9. Yields(luauFastpcall, f, n, b, st, nat, g) /\ n >= z.c /\ n >= z.b /\ n = b
  BY <1>5, TopYields
<1>10. Leaves(f, st) /\ FramesOK(luauFastpcall, f) /\ Frames(luauFastpcall, t, f, nat, g, "luaD_pcall")
  BY TopYields
<1>11. Knows(f, d, x, e, z, "luaD_pcall") /\ z.h <= Len(f)
  <2>1. Stack(luauFastpcall, nat, g) /\ nat \in Seq(Element) /\ g \in Seq(Note) /\ Len(nat) = N /\ N > 1
    BY <1>3
  <2>2. Frames(luauFastpcall, nat[N].L, f, nat, g, "luaD_pcall")
    BY <1>3, <1>10
  <2>3. Knows(f, nat[N - 1], g[N - 1], nat[N], g[N], "luaD_pcall") /\ g[N].h <= Len(f)
    BY <2>1, <2>2, LowIs
  <2> QED BY <1>5, <2>3
<1>12. x.h > 0
  <2>1. N # 2
    <3>1. N = 2 => nat[N].fn \in {"luaD_pcall", "lua_resume"}
      BY AtTop
    <3> QED BY <1>5, <1>6, <3>1
  <2>2. N - 1 \in 2 .. Len(nat)
    BY <1>3, <2>1
  <2>3. /\ Atop(luauFastpcall, nat[N - 1 - 1], g[N - 1 - 1], d, x)
        /\ nat[N - 1 - 1] \in Element /\ g[N - 1 - 1] \in Note
    <3>1. N - 1 - 1 \in 1 .. Len(nat) /\ Len(g) = Len(nat)
      BY <1>3, <2>2 DEF Stack, Grounded
    <3>2. Atop(luauFastpcall, nat[N - 1 - 1], g[N - 1 - 1], nat[N - 1], g[N - 1])
      BY <1>3, <2>2 DEF Stack, Lies
    <3> QED BY <1>3, <1>5, <3>1, <3>2, LenIs
  <2>4. d.fn = "luau_execute"
    BY <1>6 DEF Atop
  <2> QED BY <1>6, <2>3, <2>4, HeightIs
<1>13. PICK H : H = x.h
  OBVIOUS
<1>14. H \in 1 .. Len(f) /\ H \in Nat /\ H <= Len(f) /\ f[H] \in FrameType /\ f[H].forcall
  <2>1. H \in Nat /\ H <= Len(f) /\ H > 0 /\ Len(f) \in Nat
    BY <1>3, <1>7, <1>8, <1>11, <1>12, <1>13, FrameIs
  <2>2. f[H].forcall
    BY <1>6, <1>7, <1>11, <1>13 DEF Knows
  <2>3. H \in 1 .. Len(f)
    BY <2>1
  <2>4. f[H] \in FrameType
    BY <1>3, <2>3, FrameIs
  <2> QED BY <2>1, <2>2, <2>3, <2>4
<1>15. f[H].kind = "lua" /\ f[H].forcall = TRUE
  <2>1. H \in DOMAIN f
    BY <1>3, <1>14, FrameIs
  <2>2. f[H].kind = "lua"
    BY <1>10, <1>14, <2>1 DEF FramesOK
  <2>3. f[H].forcall \in BOOLEAN
    BY <1>14 DEF FrameType
  <2> QED BY <1>14, <2>2, <2>3
<1>16. PICK r : r = [f[H] EXCEPT !.opyield = TRUE]
  OBVIOUS
<1>17. /\ r \in FrameType /\ r.kind = f[H].kind /\ r.return = f[H].return /\ r.pcall = f[H].pcall
       /\ r.handle = f[H].handle /\ r.errfunc = f[H].errfunc /\ r.forcall = f[H].forcall /\ r.opyield = TRUE
  BY <1>14, <1>16 DEF FrameType
<1>18. PICK f2 : f2 = [f EXCEPT ![H] = r]
  OBVIOUS
<1>19. r.handle \/ r.pcall => r.kind = "cont"
  <2>1. H \in DOMAIN f
    BY <1>3, <1>14, FrameIs
  <2>2. f[H].handle \/ f[H].pcall => f[H].kind = "cont"
    BY <1>10, <2>1 DEF FramesOK
  <2> QED BY <1>17, <2>2
<1>20. /\ FramesOK(luauFastpcall, f2) /\ f2 \in Seq(FrameType) /\ Len(f2) = Len(f)
       /\ DOMAIN f2 = DOMAIN f
       /\ \A k \in 1 .. Len(f) : f2[k] = IF k = H THEN r ELSE f[k]
       /\ \A k \in DOMAIN f : k # H => (Bad(f2, k) => Bad(f, k))
  <2>1. /\ r.kind = f[H].kind /\ r.return = f[H].return /\ (r.handle \/ r.pcall => r.kind = "cont")
        /\ (r.forcall \/ r.opyield => r.kind = "lua") /\ (luauFastpcall => r.forcall = r.opyield)
    BY <1>15, <1>17, <1>19
  <2>2. f \in Seq(FrameType) /\ FramesOK(luauFastpcall, f) /\ H \in 1 .. Len(f) /\ r \in FrameType
    BY <1>3, <1>10, <1>14, <1>17
  <2>3. /\ FramesOK(luauFastpcall, [f EXCEPT ![H] = r]) /\ [f EXCEPT ![H] = r] \in Seq(FrameType)
        /\ Len([f EXCEPT ![H] = r]) = Len(f)
        /\ DOMAIN [f EXCEPT ![H] = r] = DOMAIN f
        /\ \A k \in 1 .. Len(f) : [f EXCEPT ![H] = r][k] = IF k = H THEN r ELSE f[k]
        /\ \A k \in DOMAIN f : k # H => (Bad([f EXCEPT ![H] = r], k) => Bad(f, k))
    BY <2>1, <2>2, FramesChange
  <2> QED BY <1>18, <2>3
<1>21. Kept(f, f2, x.h)
  <2>1. Kept(f, [f EXCEPT ![H] = r], H)
    BY <1>3, <1>14, <1>17, KeptChange
  <2> QED BY <1>13, <1>18, <2>1
<1>22. Left(nat[N].L, f, f2, nat, N)
  <2> SUFFICES ASSUME NEW k \in DOMAIN f2, Bad(f2, k)
               PROVE  k \in DOMAIN f /\ Bad(f, k) /\ f2[k].kind = f[k].kind /\ ~CalledFrom(nat[N].L, f, nat[N], k)
    BY DEF Left
  <2>1. k \in 1 .. Len(f)
    BY <1>3, <1>20, FrameIs
  <2>2. k # H
    <3> SUFFICES ASSUME k = H
                 PROVE  FALSE
      OBVIOUS
    <3>1. f2[k] = r
      BY <1>20, <2>1
    <3> QED BY <1>15, <1>17, <3>1 DEF Bad
  <2>3. ~CalledFrom(nat[N].L, f, nat[N], k)
    BY <1>5, <1>7, <1>13, <2>2 DEF CalledFrom
  <2> QED BY <1>20, <2>1, <2>2, <2>3
<1>23. Leaves(f2, st)
  <2>1. Len(f) \in 1 .. Len(f)
    BY <1>14
  <2>2. f2[Len(f)].kind = f[Len(f)].kind /\ f2[Len(f)].handle = f[Len(f)].handle
    BY <1>17, <1>20, <2>1
  <2>3. f2 # <<>>
    BY <1>14, <1>20, LenIs
  <2> QED BY <1>10, <1>20, <2>2, <2>3 DEF Leaves
<1>24. Becomes(t, f2, n, n, st, Front(nat), "return")
  <2>1. Yielded(t) /\ Top.frames = H
    BY <1>4, <1>5, <1>7, <1>13 DEF Yielded
  <2>2. /\ ci' = [ci EXCEPT ![t][H].opyield = TRUE] /\ UNCHANGED <<countVars, status, signal>>
        /\ native' = Front(nat)
    BY <1>4, <2>1 DEF PerformCallYReturns
  <2>3. ci' = [ci EXCEPT ![t] = f2]
    BY <1>4, <1>16, <1>18, <2>2
  <2> QED BY <1>4, <1>9, <2>2, <2>3 DEF Becomes, countVars
<1>25. n >= g[N - 1].c /\ n >= g[N - 1].b /\ nat[N].fn # "lua_resume" /\ Kept(f, f2, g[N - 1].h)
  BY <1>3, <1>5, <1>6, <1>7, <1>8, <1>9, <1>21
<1> QED BY <1>3, <1>9, <1>20, <1>22, <1>23, <1>24, <1>25, StepYields

\* luau_execute knows the kinds of its frames only.
LEMMA KnowsKinds ==
  ASSUME NEW f, NEW f2, NEW d, NEW x, NEW e, NEW z, NEW fn,
         f \in Seq(FrameType), x \in Note, z \in Note, Knows(f, d, x, e, z, fn), e.fn = "luau_execute",
         Len(f2) = Len(f), z.h > 0,
         \A k \in 1 .. Len(f) : f2[k].kind = f[k].kind /\ f2[k].return = f[k].return /\ f2[k].pcall = f[k].pcall
  PROVE  Knows(f2, d, x, e, z, fn)
<1>1. z.h \in Nat /\ x.h \in Nat /\ Len(f) \in Nat /\ z.h <= Len(f)
  BY NoteIs, FrameIs DEF Knows
<1>2. z.h \in 1 .. Len(f) /\ (z.h > x.h + 1 => z.h - 1 \in 1 .. Len(f))
  BY <1>1
<1>3. \A k \in (x.h + 1) .. z.h : k \in 1 .. Len(f)
  BY <1>1
<1>4. \/ f2[z.h].kind = "lua"
      \/ f2[z.h].pcall /\ z.h > x.h + 1 /\ z.y = 0 /\ f2[z.h - 1].kind = "lua"
  BY <1>2 DEF Knows
<1>5. (d.fn # "resume_continue" \/ z.y > 0) =>
          \A k \in (x.h + 1) .. z.h : f2[k].kind = "lua" /\ (f2[k].return => k = x.h + 1)
  BY <1>3 DEF Knows
<1> QED BY <1>1, <1>4, <1>5 DEF Knows, Beginning

LEMMA PerformCallYGoesOn ==
  ASSUME NEW g, NEW nat, NEW N, NEW t, NEW f, NEW n, NEW b, NEW st,
         At(g, nat, N, t, f, n, b, st), signal = "return", st = "ok", PerformCallYReturns(t), UNCHANGED luauFastpcall
  PROVE  CallInv'
<1>3. /\ Stack(luauFastpcall, nat, g) /\ nat \in Seq(Element) /\ N \in Nat /\ N > 1 /\ f \in Seq(FrameType)
      /\ n \in Nat /\ b \in Nat /\ st \in Statuses /\ Len(nat) = N /\ nat[N].L = t /\ g \in Seq(Note)
  BY AtStack
<1>4. /\ [status EXCEPT ![t] = st] = status
      /\ native = nat /\ Top = nat[N] /\ status[t] = st /\ ci[t] = f /\ t \in Thread
      /\ nCcalls[t] = n /\ baseCcalls[t] = b
  BY AtSame, AtStack
<1>5. PICK e, z, d, x : e = nat[N] /\ z = g[N] /\ d = nat[N - 1] /\ x = g[N - 1]
  OBVIOUS
<1>6. /\ e \in Element /\ d \in Element /\ z \in Note /\ x \in Note /\ Atop(luauFastpcall, d, x, e, z)
      /\ e.fn = "luaD_performcally" /\ N # 2
  BY <1>4, <1>5, AtTop DEF PerformCallYReturns, Returned
<1>7. z.h = x.h /\ z.y = x.y /\ z.c = x.c + 1 /\ z.b = x.b + 1 /\ e.frames = x.h /\ ~Handling(e) /\ d.fn = "luau_execute"
  BY <1>6 DEF Atop, Noted, Handling
<1>8. x.h \in Nat /\ x.y \in Nat /\ x.c \in Nat /\ x.b \in Nat
  BY <1>6, NoteIs
<1>9. /\ Fits(e, z, f, n, b) /\ Frames(luauFastpcall, t, f, nat, g, "none") /\ Explained(t, f, nat, g, FALSE)
      /\ Marks(luauFastpcall, t, f, nat, g) /\ FramesOK(luauFastpcall, f)
  BY <1>5, TopReturns
<1>10. n >= z.c /\ b >= z.b /\ n = b + z.y /\ Len(f) = z.h
  BY <1>6, <1>7, <1>9 DEF Fits
<1>11. PICK nat2, g2 : nat2 = Front(nat) /\ g2 = Front(g)
  OBVIOUS
<1>12. Popped(nat, g, nat2, g2)
  BY <1>3, <1>11, FrontPopped
<1>13. PICK M : M = N - 1
  OBVIOUS
<1>14. /\ nat2 \in Seq(Element) /\ g2 \in Seq(Note) /\ Len(nat2) = M /\ Len(g2) = M
       /\ Stack(luauFastpcall, nat2, g2)
       /\ \A i \in 1 .. M : nat2[i] = nat[i] /\ g2[i] = g[i]
  <2>1. /\ Stack(luauFastpcall, nat, g) /\ nat \in Seq(Element) /\ N > 1 /\ Len(nat) = N /\ g \in Seq(Note)
    BY <1>3
  <2>2. /\ nat2 \in Seq(Element) /\ g2 \in Seq(Note) /\ Len(nat2) = N - 1 /\ Len(g2) = N - 1
        /\ Stack(luauFastpcall, nat2, g2)
        /\ \A i \in 1 .. (N - 1) : nat2[i] = nat[i] /\ g2[i] = g[i]
    BY <1>12, <2>1, PopIs
  <2> QED BY <1>13, <2>2
<1>15. M \in Nat /\ M > 1 /\ M \in 1 .. M /\ nat2[M] = d /\ g2[M] = x
  <2>1. M \in Nat /\ M > 1 /\ M \in 1 .. M
    BY <1>3, <1>6, <1>13
  <2> QED BY <1>5, <1>13, <1>14, <2>1
<1>16. /\ nat2[M - 1] \in Element /\ g2[M - 1] \in Note /\ M - 1 \in Nat
       /\ Atop(luauFastpcall, nat2[M - 1], g2[M - 1], d, x)
  <2>1. nat2 \in Seq(Element) /\ g2 \in Seq(Note) /\ Len(nat2) = M /\ Stack(luauFastpcall, nat2, g2) /\ M > 1
    BY <1>14, <1>15
  <2>2. /\ nat2[M - 1] \in Element /\ g2[M - 1] \in Note /\ M - 1 \in Nat
        /\ Atop(luauFastpcall, nat2[M - 1], g2[M - 1], nat2[M], g2[M])
    BY <2>1, TopIs
  <2> QED BY <1>15, <2>2
<1>17. g2[M - 1].h < x.h /\ x.h > 0
  BY <1>7, <1>8, <1>16, NoteIs DEF Atop
<1>18. PICK H : H = x.h
  OBVIOUS
<1>19. H \in Nat /\ H > 0 /\ Len(f) = H /\ H \in 1 .. Len(f) /\ f[H] \in FrameType
  <2>1. H \in Nat /\ H > 0 /\ Len(f) = H /\ H \in 1 .. Len(f)
    BY <1>7, <1>8, <1>10, <1>17, <1>18
  <2> QED BY <1>3, <2>1, FrameIs
<1>20. PICK r : r = [f[H] EXCEPT !.forcall = FALSE, !.opyield = FALSE]
  OBVIOUS
<1>21. /\ r \in FrameType /\ r.kind = f[H].kind /\ r.return = f[H].return /\ r.pcall = f[H].pcall
       /\ r.handle = f[H].handle /\ r.errfunc = f[H].errfunc /\ r.forcall = FALSE /\ r.opyield = FALSE
  BY <1>19, <1>20 DEF FrameType
<1>22. PICK f2 : f2 = [f EXCEPT ![H] = r]
  OBVIOUS
<1>23. r.handle \/ r.pcall => r.kind = "cont"
  <2>1. H \in DOMAIN f
    BY <1>3, <1>19, FrameIs
  <2>2. f[H].handle \/ f[H].pcall => f[H].kind = "cont"
    BY <1>9, <2>1 DEF FramesOK
  <2> QED BY <1>21, <2>2
<1>24. /\ FramesOK(luauFastpcall, f2) /\ f2 \in Seq(FrameType) /\ Len(f2) = Len(f)
       /\ DOMAIN f2 = DOMAIN f
       /\ \A k \in 1 .. Len(f) : f2[k] = IF k = H THEN r ELSE f[k]
       /\ \A k \in DOMAIN f : k # H => (Bad(f2, k) => Bad(f, k))
  <2>1. /\ r.kind = f[H].kind /\ r.return = f[H].return /\ (r.handle \/ r.pcall => r.kind = "cont")
        /\ (r.forcall \/ r.opyield => r.kind = "lua") /\ (luauFastpcall => r.forcall = r.opyield)
    BY <1>21, <1>23
  <2>2. f \in Seq(FrameType) /\ FramesOK(luauFastpcall, f) /\ H \in 1 .. Len(f) /\ r \in FrameType
    BY <1>3, <1>9, <1>19, <1>21
  <2>3. /\ FramesOK(luauFastpcall, [f EXCEPT ![H] = r]) /\ [f EXCEPT ![H] = r] \in Seq(FrameType)
        /\ Len([f EXCEPT ![H] = r]) = Len(f)
        /\ DOMAIN [f EXCEPT ![H] = r] = DOMAIN f
        /\ \A k \in 1 .. Len(f) : [f EXCEPT ![H] = r][k] = IF k = H THEN r ELSE f[k]
        /\ \A k \in DOMAIN f : k # H => (Bad([f EXCEPT ![H] = r], k) => Bad(f, k))
    BY <2>1, <2>2, FramesChange
  <2> QED BY <1>22, <2>3
<1>25. \A k \in 1 .. Len(f) : /\ f2[k].kind = f[k].kind /\ f2[k].return = f[k].return
                              /\ f2[k].pcall = f[k].pcall /\ f2[k].handle = f[k].handle
  BY <1>21, <1>24
<1>26. \A k \in DOMAIN f2 : Bad(f2, k) => k # H /\ k \in DOMAIN f /\ Bad(f, k) /\ f2[k].kind = f[k].kind
  <2> SUFFICES ASSUME NEW k \in DOMAIN f2, Bad(f2, k)
               PROVE  k # H /\ k \in DOMAIN f /\ Bad(f, k) /\ f2[k].kind = f[k].kind
    OBVIOUS
  <2>1. k \in 1 .. Len(f)
    BY <1>3, <1>24, FrameIs
  <2>2. k # H
    <3> SUFFICES ASSUME k = H
                 PROVE  FALSE
      OBVIOUS
    <3>1. f2[k] = r
      BY <1>24, <2>1
    <3>2. ~(k < Len(f2))
      BY <1>19, <1>24
    <3>3. f2[k].forcall # f2[k].opyield
      BY <3>2 DEF Bad
    <3>4. f2[k].forcall = FALSE /\ f2[k].opyield = FALSE
      BY <1>21, <3>1
    <3> QED BY <3>3, <3>4
  <2> QED BY <1>24, <1>25, <2>1, <2>2
<1>27. Known(t, f, nat2, g2, M, "none")
  <2>1. /\ Stack(luauFastpcall, nat, g) /\ nat \in Seq(Element) /\ N > 1 /\ Len(nat) = N /\ g \in Seq(Note)
        /\ Known(t, f, nat, g, N, "none")
    BY <1>3, <1>9 DEF Frames
  <2>2. Known(t, f, nat, g, N - 1, nat[N].fn)
    BY <2>1, KnownPop
  <2>3. Known(t, f, nat, g, M, "luaD_performcally")
    BY <1>5, <1>6, <1>13, <2>2
  <2>4. Agree(nat, g, nat2, g2, M)
    BY <1>3, <1>13, <1>14, <1>15 DEF Agree
  <2>5. Kept(f, f, H)
    BY <1>3, <1>19, KeptSame
  <2>6. \A i \in 2 .. M : nat[i].L = t => g[i].h <= H
    <3>1. \A i \in 2 .. (N - 1) : nat[i].L = nat[N].L => g[i].h <= g[N - 1].h
      BY <2>1, BelowHeight
    <3> QED BY <1>3, <1>5, <1>13, <1>18, <3>1
  <2> QED BY <1>3, <1>14, <1>15, <2>3, <2>4, <2>5, <2>6, KnownOn
<1>28. Known(t, f2, nat2, g2, M, "none")
  <2>1. nat2 \in Seq(Element) /\ g2 \in Seq(Note) /\ Len(nat2) = M /\ Stack(luauFastpcall, nat2, g2) /\ M > 1
    BY <1>14, <1>15
  <2>2. /\ Known(t, f, nat2, g2, M - 1, nat2[M].fn)
        /\ nat2[M].L = t => Knows(f, nat2[M - 1], g2[M - 1], nat2[M], g2[M], "none")
    BY <1>27, <2>1, KnownPop
  <2>3. PICK K, L, a : K = M - 1 /\ L = H - 1 /\ a = nat2[M].fn
    OBVIOUS
  <2>4. Known(t, f2, nat2, g2, K, a)
    <3>1. K \in Nat /\ Agree(nat2, g2, nat2, g2, K)
      BY <1>14, <1>15, <1>16, <2>3 DEF Agree
    <3>2. Kept(f, f2, L)
      <4>1. L \in Nat /\ L <= Len(f) /\ ~(H <= L)
        BY <1>19, <2>3
      <4>2. Kept(f, [f EXCEPT ![H] = r], L)
        BY <1>3, <1>19, <1>21, <4>1, KeptChange
      <4> QED BY <1>22, <4>2
    <3>3. \A i \in 2 .. K : nat2[i].L = t => g2[i].h <= L
      <4>1. \A i \in 2 .. (M - 1) : nat2[i].L = nat2[M].L => g2[i].h <= g2[M - 1].h
        BY <2>1, BelowHeight
      <4>2. nat2[M].L = t
        BY <1>3, <1>5, <1>6, <1>15, AtopHeight
      <4>3. g2[M - 1].h <= L /\ g2[M - 1].h \in Nat /\ L \in Nat
        BY <1>16, <1>17, <1>18, <1>19, <2>3, NoteIs
      <4>4. \A i \in 2 .. K : nat2[i].L = t => g2[i].h <= g2[M - 1].h
        BY <2>3, <4>1, <4>2
      <4>5. \A i \in 2 .. K : g2[i].h \in Nat
        <5>1. \A i \in 2 .. K : i \in 1 .. Len(g2)
          BY <1>14, <1>15, <2>3
        <5> QED BY <1>14, <5>1, LenIs, NoteIs
      <4> QED BY <4>3, <4>4, <4>5
    <3>4. Known(t, f, nat2, g2, K, a) /\ a # "luaD_pcall"
      BY <1>7, <1>15, <2>2, <2>3
    <3> QED BY <1>3, <1>14, <1>24, <3>1, <3>2, <3>3, <3>4, KnownOn
  <2>5. nat2[M].L = t => Knows(f2, nat2[M - 1], g2[M - 1], nat2[M], g2[M], "none")
    <3> SUFFICES ASSUME nat2[M].L = t
                 PROVE  Knows(f2, nat2[M - 1], g2[M - 1], d, x, "none")
      BY <1>15
    <3>1. Knows(f, nat2[M - 1], g2[M - 1], d, x, "none")
      BY <1>15, <2>2
    <3> QED BY <1>3, <1>6, <1>7, <1>16, <1>17, <1>24, <1>25, <3>1, KnowsKinds
  <2>6. Known(t, f2, nat2, g2, M - 1, nat2[M].fn)
    BY <2>3, <2>4
  <2> QED BY <1>15, <2>5, <2>6, KnownTop
<1>29. Explained(t, f2, nat2, g2, FALSE)
  <2>1. Left(t, f, f2, nat, N)
    BY <1>5, <1>7, <1>18, <1>26 DEF Left, CalledFrom
  <2>2. /\ Stack(luauFastpcall, nat, g) /\ nat \in Seq(Element) /\ N > 1 /\ Len(nat) = N /\ g \in Seq(Note)
        /\ ~Handling(nat[N]) /\ Explained(t, f, nat, g, FALSE)
    BY <1>3, <1>5, <1>7, <1>9
  <2> QED BY <1>12, <2>1, <2>2, PopExplained
<1>30. Marks(luauFastpcall, t, f2, nat2, g2)
  <2>1. \A p \in DOMAIN f2 : p \in 1 .. Len(f)
    BY <1>3, <1>24, FrameIs
  <2>2. LeftMarks(f, f2, nat[N])
    BY <1>5, <1>6, <1>24, <1>25, <1>26, <2>1 DEF LeftMarks
  <2> QED BY <1>3, <1>9, <1>12, <1>24, <2>2, PopMarks
<1>31. Whole(luauFastpcall, t, f2, nat2, g2)
  BY <1>14, <1>24, <1>28, <1>29, <1>30 DEF Whole, Frames
<1>32. PICK n2, b2 : n2 = n - 1 /\ b2 = b - 1
  OBVIOUS
<1>33. n2 \in Nat /\ b2 \in Nat /\ n2 >= x.c /\ b2 >= x.b /\ n2 = b2 + x.y
  <2>1. n \in Nat /\ b \in Nat
    BY <1>3
  <2>2. z.c = x.c + 1 /\ z.b = x.b + 1 /\ n >= z.c /\ b >= z.b /\ n = b + x.y
    BY <1>7, <1>10
  <2>3. n - 1 \in Nat /\ b - 1 \in Nat /\ n - 1 >= x.c /\ b - 1 >= x.b /\ n - 1 = (b - 1) + x.y
    BY <1>8, <2>1, <2>2, BothLess
  <2> QED BY <1>32, <2>3
<1>34. Fits(nat[N - 1], g[N - 1], f2, n2, b2)
  <2>1. Len(f2) = x.h
    BY <1>18, <1>19, <1>24
  <2>2. Fits(d, x, f2, n2, b2)
    BY <1>7, <1>33, <2>1 DEF Fits
  <2> QED BY <1>5, <2>2
<1>35. Becomes(t, f2, n2, b2, "ok", nat2, "return")
  <2>1. ~Yielded(t) /\ Len(ci[t]) = H
    BY <1>4, <1>19 DEF Yielded
  <2>2. /\ ci' = [ci EXCEPT ![t][H] = [@ EXCEPT !.forcall = FALSE, !.opyield = FALSE]]
        /\ nCcalls' = [nCcalls EXCEPT ![t] = n2] /\ baseCcalls' = [baseCcalls EXCEPT ![t] = b2]
        /\ UNCHANGED <<status, signal>>
        /\ native' = Front(nat)
    BY <1>4, <1>32, <2>1 DEF PerformCallYReturns
  <2>3. ci' = [ci EXCEPT ![t] = f2]
    BY <1>4, <1>20, <1>22, <2>2
  <2> QED BY <1>4, <1>11, <2>2, <2>3 DEF Becomes
<1>36. N > 2 /\ nat[N].fn # "lua_resume"
  BY <1>3, <1>5, <1>6
<1> QED BY <1>12, <1>24, <1>31, <1>33, <1>34, <1>35, <1>36, StepPopped

LEMMA PerformCallYStep ==
  ASSUME NEW g, NEW t, g \in Seq(Note), Balanced(g), t \in Thread, PerformCallYReturns(t), UNCHANGED luauFastpcall
  PROVE  CallInv'
<1>1. signal = "return" /\ Top.fn = "luaD_performcally" /\ Top.L = t
  BY DEF PerformCallYReturns, Returned
<1>2. PICK nat, N, f, n, b, st : At(g, nat, N, t, f, n, b, st)
  BY <1>1, AboveHost
<1>3. CASE st = "ok"
  BY <1>1, <1>2, <1>3, PerformCallYGoesOn
<1>4. CASE st # "ok"
  BY <1>1, <1>2, <1>4, PerformCallYYields
<1> QED BY <1>3, <1>4

-----------------------------------------------------------------------------
(* Functions that return                                                    *)

\* No frame of f2 is worse than that of f was.
NoWorse(f, f2) ==
    \A k \in DOMAIN f2 : /\ k \in DOMAIN f /\ f2[k].kind = f[k].kind
                         /\ Bad(f2, k) => Bad(f, k)
                         /\ f2[k].handle => f[k].handle

LEMMA Prefixed ==
  ASSUME NEW fast, NEW f, NEW m, NEW f2,
         f \in Seq(FrameType), FramesOK(fast, f), m \in 0 .. Len(f), f2 = SubSeq(f, 1, m)
  PROVE  /\ f2 \in Seq(FrameType) /\ Len(f2) = m /\ FramesOK(fast, f2) /\ NoWorse(f, f2)
         /\ \A k \in 1 .. m : f2[k] = f[k]
         /\ \A H \in 0 .. m : Kept(f, f2, H)
<1>1. /\ f2 \in Seq(FrameType) /\ Len(f2) = m /\ FramesOK(fast, f2)
      /\ \A k \in 1 .. m : f2[k] = f[k] /\ k \in DOMAIN f
      /\ \A k \in 1 .. m : Bad(f2, k) => Bad(f, k)
      /\ DOMAIN f2 = 1 .. m
  <2>1. /\ SubSeq(f, 1, m) \in Seq(FrameType) /\ Len(SubSeq(f, 1, m)) = m
        /\ \A k \in 1 .. m : SubSeq(f, 1, m)[k] = f[k] /\ k \in DOMAIN f
        /\ \A k \in 1 .. m : Bad(SubSeq(f, 1, m), k) => Bad(f, k)
        /\ DOMAIN SubSeq(f, 1, m) = 1 .. m
    BY BadPrefix
  <2>2. FramesOK(fast, SubSeq(f, 1, m))
    BY FramesPrefix
  <2> QED BY <2>1, <2>2
<1>2. NoWorse(f, f2)
  BY <1>1 DEF NoWorse
<1>3. Len(f) \in Nat /\ DOMAIN f = 1 .. Len(f) /\ \A k \in 1 .. Len(f) : f[k] \in FrameType
  BY FrameIs
<1>4. ASSUME NEW H \in 0 .. m
      PROVE  Kept(f, f2, H)
  <2>1. H \in Nat /\ H <= Len(f) /\ H <= Len(f2) /\ m \in Nat /\ m <= Len(f)
    BY <1>1, <1>3
  <2>2. \A k \in 1 .. H : f2[k] = f[k]
    BY <1>1, <2>1
  <2>3. ASSUME H < Len(f2)
        PROVE  H < Len(f) /\ f2[H + 1] = f[H + 1] /\ f[H + 1].return \in BOOLEAN
    <3>1. H + 1 \in 1 .. m /\ H + 1 \in 1 .. Len(f) /\ H < Len(f)
      BY <1>1, <1>3, <2>1, <2>3
    <3>2. f[H + 1] \in FrameType
      BY <1>3, <3>1
    <3> QED BY <1>1, <3>1, <3>2 DEF FrameType
  <2> QED BY <2>1, <2>2, <2>3 DEF Kept
<1> QED BY <1>1, <1>2, <1>4

LEMMA NoWorseLeft ==
  ASSUME NEW u, NEW f, NEW f2, NEW nat, NEW N,
         NoWorse(f, f2), nat[N].fn \notin {"luaD_callint", "luaD_performcally"}
  PROVE  /\ Left(u, f, f2, nat, N)
         /\ nat[N].fn # "luaD_pcall" => LeftMarks(f, f2, nat[N])
<1>1. Left(u, f, f2, nat, N)
  BY DEF NoWorse, Left, CalledFrom
<1>2. nat[N].fn # "luaD_pcall" => LeftMarks(f, f2, nat[N])
  BY DEF NoWorse, LeftMarks
<1> QED BY <1>1, <1>2

LEMMA ClearIs ==
  ASSUME NEW fast, NEW nat, NEW g, NEW N,
         nat \in Seq(Element), g \in Seq(Note), Stack(fast, nat, g), Len(nat) = N, N > 1,
         nat[N].fn # "callerrfunc", N = 2 => nat[N].fn # "luaD_pcall"
  PROVE  g[N].y = 0 <=> Clear(nat, N)
<1>1. N \in 2 .. N
  BY TopIs
<1> QED BY <1>1 DEF Stack, Clears

\* A function on top returns to what lies below it.
LEMMA FunctionReturns ==
  ASSUME NEW g, NEW nat, NEW N, NEW t, NEW f, NEW n, NEW b, NEW st, NEW f2,
         At(g, nat, N, t, f, n, b, st), signal = "run", nat[N].fn \in {"C", "luau_execute"},
         f2 = Front(f), g[N - 1].h < Len(f),
         Len(f) = g[N - 1].h + 1 \/ nat[N - 1].fn = "lua_resume" \/ (nat[N - 1].fn = "resume_continue" /\ g[N - 1].y = 0),
         ~Handling(nat[N - 1]), Becomes(t, f2, n, b, "ok", Front(nat), "return")
  PROVE  CallInv'
<1>1. /\ Stack(luauFastpcall, nat, g) /\ nat \in Seq(Element) /\ N \in Nat /\ N > 1 /\ f \in Seq(FrameType)
      /\ n \in Nat /\ b \in Nat /\ Len(nat) = N /\ nat[N].L = t /\ g \in Seq(Note)
  BY AtStack
<1>2. PICK e, z, d, x : e = nat[N] /\ z = g[N] /\ d = nat[N - 1] /\ x = g[N - 1]
  OBVIOUS
<1>3. /\ e \in Element /\ d \in Element /\ z \in Note /\ x \in Note /\ Atop(luauFastpcall, d, x, e, z)
      /\ N # 2
  BY <1>2, AtTop
<1>4. /\ z.y = x.y /\ z.c = x.c /\ z.b = x.b
      /\ d.fn \in {"luaD_callint", "luaV_callTM", "luaD_performcally", "luaD_callny", "luau_execute",
                   "resume_continue", "lua_resume"}
  BY <1>2, <1>3 DEF Atop, Noted
<1>5. x.h \in Nat /\ x.y \in Nat
  BY <1>3, NoteIs
<1>6. /\ n >= z.c /\ b >= z.b /\ n = b + z.y /\ st = "ok" /\ Len(f) = z.h /\ f # <<>>
      /\ Frames(luauFastpcall, t, f, nat, g, "none") /\ Explained(t, f, nat, g, FALSE)
  <2>1. nat[N].fn # "lua_resume"
    OBVIOUS
  <2>2. Level(g[N], f, n, b, st)
    BY <2>1, TopRuns
  <2>3. Frames(luauFastpcall, t, f, nat, g, "none") /\ Explained(t, f, nat, g, FALSE)
    BY <2>1, TopRuns
  <2> QED BY <1>2, <2>2, <2>3 DEF Level
<1>7. Marks(luauFastpcall, t, f, nat, g) /\ FramesOK(luauFastpcall, f)
  <2>1. nat[N].fn # "lua_resume"
    OBVIOUS
  <2> QED BY <2>1, TopRuns
<1>8. PICK m : m = Len(f) - 1
  OBVIOUS
<1>9. m \in 0 .. Len(f) /\ f2 = SubSeq(f, 1, m) /\ x.h <= m /\ m \in Nat /\ Len(f) = m + 1
  <2>1. f2 = SubSeq(f, 1, m)
    BY <1>1, <1>6, <1>8, FrontIs
  <2>2. Len(f) \in Nat /\ x.h < Len(f)
    BY <1>1, <1>2, FrameIs
  <2> QED BY <1>5, <1>8, <2>1, <2>2
<1>10. /\ f2 \in Seq(FrameType) /\ Len(f2) = m /\ FramesOK(luauFastpcall, f2) /\ NoWorse(f, f2)
       /\ \A k \in 1 .. m : f2[k] = f[k]
       /\ \A H \in 0 .. m : Kept(f, f2, H)
  BY <1>1, <1>7, <1>9, Prefixed
<1>11. Kept(f, f2, x.h)
  <2>1. x.h \in 0 .. m
    BY <1>5, <1>9
  <2> QED BY <1>10, <2>1
<1>12. Left(t, f, f2, nat, N) /\ LeftMarks(f, f2, nat[N])
  <2>1. nat[N].fn \notin {"luaD_callint", "luaD_performcally"} /\ nat[N].fn # "luaD_pcall"
    OBVIOUS
  <2> QED BY <1>10, <2>1, NoWorseLeft
<1>13. Ends(luauFastpcall, t, f, "none", f2, "none", nat, g, N)
  <2>1. ~Handling(nat[N]) /\ nat[N].fn # "lua_resume" /\ nat[N].fn # "luaD_pcall"
    BY DEF Handling
  <2> QED BY <1>1, <1>2, <1>6, <1>10, <1>11, <1>12, <2>1 DEF Ends
<1>14. d.fn = "lua_resume" => x.y = 0
  <2> SUFFICES ASSUME d.fn = "lua_resume"
               PROVE  x.y = 0
    OBVIOUS
  <2>1. N - 1 \in 2 .. Len(nat)
    BY <1>1, <1>3
  <2>2. Atop(luauFastpcall, nat[N - 1 - 1], g[N - 1 - 1], nat[N - 1], g[N - 1])
    BY <1>1, <2>1 DEF Stack, Lies
  <2> QED BY <1>2, <2>2 DEF Atop, Noted
<1>15. ASSUME x.y = 0, f2 # <<>>
       PROVE  f2[Len(f2)].kind # "c"
  <2>1. Clear(nat, N)
    <3>1. g[N].y = 0 /\ nat[N].fn # "callerrfunc" /\ nat[N].fn # "luaD_pcall"
      BY <1>2, <1>4, <1>15
    <3>2. Stack(luauFastpcall, nat, g) /\ nat \in Seq(Element) /\ g \in Seq(Note) /\ Len(nat) = N /\ N > 1
      BY <1>1
    <3> QED BY <3>1, <3>2, ClearIs
  <2>2. m \in 1 .. m /\ m \in DOMAIN f /\ m < Len(f)
    <3>1. m # 0
      BY <1>10, <1>15, LenIs
    <3> QED BY <1>1, <1>9, <3>1, FrameIs
  <2>3. f[m].kind = "c" => ~(m < Len(f))
    <3>1. Stack(luauFastpcall, nat, g) /\ nat \in Seq(Element) /\ g \in Seq(Note) /\ Len(nat) = N /\ N > 1
      BY <1>1
    <3>2. t = nat[N].L /\ ~Handling(nat[N]) /\ f \in Seq(FrameType)
      BY <1>1 DEF Handling
    <3> QED BY <1>6, <2>1, <2>2, <3>1, <3>2, CalmFrames
  <2> QED BY <1>10, <2>2, <2>3
<1>16. Fits(d, x, f2, n, b)
  <2>1. n >= x.c /\ b >= x.b /\ n = b + x.y
    BY <1>4, <1>6
  <2>2. d.fn # "lua_resume" => Len(f2) = x.h \/ (d.fn = "resume_continue" /\ x.y = 0)
    <3>1. CASE Len(f) = x.h + 1
      BY <1>5, <1>9, <1>10, <3>1
    <3> QED BY <1>2, <3>1
  <2>3. ASSUME (d.fn = "resume_continue" /\ Len(f2) > x.h) \/ (d.fn = "lua_resume" /\ d.phase = "handle" /\ f2 # <<>>)
        PROVE  f2[Len(f2)].kind # "c"
    <3>1. x.y = 0
      <4>1. CASE d.fn = "resume_continue" /\ Len(f2) > x.h
        BY <1>5, <2>2, <4>1
      <4> QED BY <1>14, <2>3, <4>1
    <3>2. f2 # <<>>
      <4>1. CASE d.fn = "resume_continue" /\ Len(f2) > x.h
        BY <1>5, <1>10, <4>1, LenIs
      <4> QED BY <2>3, <4>1
    <3> QED BY <1>15, <3>1, <3>2
  <2> QED BY <2>1, <2>2, <2>3 DEF Fits
<1>17. N > 2 /\ Fits(nat[N - 1], g[N - 1], f2, n, b)
  BY <1>1, <1>2, <1>3, <1>16
<1> QED BY <1>1, <1>7, <1>10, <1>12, <1>13, <1>17, StepReturns

LEMMA CReturnStep ==
  ASSUME NEW g, NEW t, g \in Seq(Note), Balanced(g), t \in Thread, CReturn(t), UNCHANGED luauFastpcall
  PROVE  CallInv'
<1>1. signal = "run" /\ Top.fn = "C" /\ Top.L = t /\ ~Host
  BY DEF CReturn, Running
<1>2. PICK nat, N, f, n, b, st : At(g, nat, N, t, f, n, b, st)
  BY <1>1, AboveHost
<1>3. /\ [nCcalls EXCEPT ![t] = n] = nCcalls /\ [status EXCEPT ![t] = st] = status
      /\ [baseCcalls EXCEPT ![t] = b] = baseCcalls
      /\ native = nat /\ Top = nat[N] /\ ci[t] = f
  BY <1>2, AtSame
<1>4. nat[N].fn = "C" /\ nat[N].fn # "lua_resume"
  BY <1>1, <1>3
<1>5. st = "ok" /\ Len(f) = g[N].h
  <2>1. Level(g[N], f, n, b, st)
    BY <1>1, <1>2, <1>4, TopRuns
  <2> QED BY <2>1 DEF Level
<1>6. Becomes(t, Front(f), n, b, "ok", Front(nat), "return")
  BY <1>3, <1>5 DEF CReturn, Becomes, countVars
<1>7. /\ Atop(luauFastpcall, nat[N - 1], g[N - 1], nat[N], g[N])
      /\ g[N] \in Note /\ g[N - 1] \in Note
  BY <1>2, AtTop
<1>8. /\ g[N - 1].h < Len(f) /\ ~Handling(nat[N - 1])
      /\ Len(f) = g[N - 1].h + 1 \/ nat[N - 1].fn = "lua_resume" \/ (nat[N - 1].fn = "resume_continue" /\ g[N - 1].y = 0)
  BY <1>4, <1>5, <1>7 DEF Atop, Handling
<1>9. nat[N].fn \in {"C", "luau_execute"}
  BY <1>4
<1> QED BY <1>1, <1>2, <1>6, <1>8, <1>9, FunctionReturns

\* luau_execute goes on with the frame below its top.
LEMMA FrameEnds ==
  ASSUME NEW g, NEW nat, NEW N, NEW t, NEW f, NEW n, NEW b, NEW st, NEW f2,
         At(g, nat, N, t, f, n, b, st), nat[N].fn = "luau_execute", Level(g[N], f, n, b, st),
         Whole(luauFastpcall, t, f, nat, g), f2 = Front(f), g[N - 1].h + 1 < Len(f), f[Len(f) - 1].kind = "lua",
         Becomes(t, f2, n, b, "ok", nat, "run")
  PROVE  CallInv'
<1>1. /\ Stack(luauFastpcall, nat, g) /\ nat \in Seq(Element) /\ N \in Nat /\ N > 1 /\ f \in Seq(FrameType)
      /\ n \in Nat /\ b \in Nat /\ Len(nat) = N /\ nat[N].L = t /\ g \in Seq(Note) /\ Len(g) = N /\ t \in Thread
  BY AtStack
<1>2. PICK e, z, d, x : e = nat[N] /\ z = g[N] /\ d = nat[N - 1] /\ x = g[N - 1]
  OBVIOUS
<1>3. /\ e \in Element /\ d \in Element /\ z \in Note /\ x \in Note /\ Atop(luauFastpcall, d, x, e, z)
      /\ e.fn = "luau_execute" /\ e.L = t
  BY <1>1, <1>2, AtTop
<1>4. n >= z.c /\ b >= z.b /\ n = b + z.y /\ st = "ok" /\ Len(f) = z.h /\ f # <<>> /\ z.h > 0
  BY <1>2 DEF Level
<1>5. Frames(luauFastpcall, t, f, nat, g, "none") /\ Explained(t, f, nat, g, FALSE) /\ Marks(luauFastpcall, t, f, nat, g)
  BY DEF Whole
<1>6. FramesOK(luauFastpcall, f) /\ Known(t, f, nat, g, N, "none")
  BY <1>1, <1>5 DEF Frames
<1>7. x.h \in Nat /\ x.y \in Nat /\ z.h \in Nat /\ z.y \in Nat /\ z.c \in Nat /\ z.b \in Nat
  BY <1>3, NoteIs
<1>8. PICK m : m = z.h - 1
  OBVIOUS
<1>9. m \in 0 .. Len(f) /\ f2 = SubSeq(f, 1, m) /\ x.h < m /\ m \in Nat /\ Len(f) = m + 1 /\ z.h = m + 1
  <2>1. f2 = SubSeq(f, 1, Len(f) - 1)
    BY <1>1, <1>4, FrontIs
  <2>2. f2 = SubSeq(f, 1, m)
    BY <1>4, <1>8, <2>1
  <2>3. x.h + 1 < z.h
    BY <1>2, <1>4
  <2> QED BY <1>4, <1>7, <1>8, <2>2, <2>3
<1>10. /\ f2 \in Seq(FrameType) /\ Len(f2) = m /\ FramesOK(luauFastpcall, f2) /\ NoWorse(f, f2)
       /\ \A k \in 1 .. m : f2[k] = f[k]
       /\ \A H \in 0 .. m : Kept(f, f2, H)
  BY <1>1, <1>6, <1>9, Prefixed
<1>11. PICK z2 : z2 = [z EXCEPT !.h = m]
  OBVIOUS
<1>12. z2 \in Note /\ z2.h = m /\ z2.y = z.y /\ z2.c = z.c /\ z2.b = z.b
  BY <1>3, <1>9, <1>11 DEF Note
<1>13. Atop(luauFastpcall, d, x, e, z2)
  BY <1>3, <1>9, <1>12 DEF Atop, Noted
<1>14. PICK g2 : g2 = [g EXCEPT ![N] = z2]
  OBVIOUS
<1>15. Stack(luauFastpcall, nat, g2)
  <2>1. Atop(luauFastpcall, nat[N - 1], g[N - 1], e, z2) /\ e.fn = nat[N].fn /\ e.L = nat[N].L
        /\ (e.fn = "luaD_callint" => e.from = nat[N].from)
    BY <1>2, <1>13
  <2>2. /\ nat \in Seq(Element) /\ g \in Seq(Note) /\ Stack(luauFastpcall, nat, g) /\ Len(nat) = N /\ N > 1
        /\ e \in Element /\ z2 \in Note
    BY <1>1, <1>3, <1>12
  <2>3. Stack(luauFastpcall, [nat EXCEPT ![N] = e], [g EXCEPT ![N] = z2])
    BY <2>1, <2>2, ReplaceStack
  <2>4. [nat EXCEPT ![N] = e] = nat
    <3>1. nat = [nat EXCEPT ![N] = nat[N]]
      BY <1>1
    <3> QED BY <1>2, <3>1
  <2> QED BY <1>14, <2>3, <2>4
<1>16. g2 \in Seq(Note) /\ Len(g2) = N /\ g2[N] = z2 /\ \A i \in 1 .. (N - 1) : g2[i] = g[i]
  <2>1. N \in 1 .. Len(g) /\ \A i \in 1 .. (N - 1) : i \in 1 .. Len(g) /\ i # N
    BY <1>1
  <2>2. /\ [g EXCEPT ![N] = z2] \in Seq(Note) /\ Len([g EXCEPT ![N] = z2]) = Len(g)
        /\ \A i \in 1 .. Len(g) : [g EXCEPT ![N] = z2][i] = IF i = N THEN z2 ELSE g[i]
    BY <1>1, <1>12, <2>1, ExceptIs
  <2> QED BY <1>1, <1>14, <2>1, <2>2
<1>17. PICK K : K = N - 1
  OBVIOUS
<1>18. K \in Nat /\ K \in 1 .. Len(nat) /\ Agree(nat, g, nat, g2, K)
  BY <1>1, <1>16, <1>17 DEF Agree
<1>19. \A j \in (K + 1) .. Len(nat) : j = N
  BY <1>1, <1>17
<1>20. Known(t, f2, nat, g2, N, "none")
  <2>1. Known(t, f, nat, g, K, "luau_execute") /\ Knows(f, d, x, e, z, "none")
    <3>1. nat \in Seq(Element) /\ Len(nat) = N /\ N > 1 /\ Known(t, f, nat, g, N, "none")
      BY <1>1, <1>6
    <3>2. /\ Known(t, f, nat, g, N - 1, nat[N].fn)
          /\ nat[N].L = t => Knows(f, nat[N - 1], g[N - 1], nat[N], g[N], "none")
      BY <3>1, KnownPop
    <3> QED BY <1>2, <1>3, <1>17, <3>2
  <2>2. Known(t, f2, nat, g2, K, "luau_execute")
    <3>1. \A i \in 2 .. K : nat[i].L = t => g[i].h <= x.h
      <4>1. \A i \in 2 .. (N - 1) : nat[i].L = nat[N].L => g[i].h <= g[N - 1].h
        BY <1>1, BelowHeight
      <4> QED BY <1>1, <1>2, <1>17, <4>1
    <3>2. Kept(f, f2, x.h)
      <4>1. x.h \in 0 .. m
        BY <1>7, <1>9
      <4> QED BY <1>10, <4>1
    <3> QED BY <1>1, <1>10, <1>16, <1>18, <2>1, <3>1, <3>2, KnownOn
  <2>3. Knows(f2, d, x, e, z2, "none")
    <3>1. m \in 1 .. m /\ f[m].kind = "lua"
      <4>1. Len(f) - 1 = m
        BY <1>9
      <4> QED BY <1>7, <1>9, <4>1
    <3>2. \A k \in (x.h + 1) .. m : k \in 1 .. m /\ k \in (x.h + 1) .. z.h
      BY <1>7, <1>9
    <3>3. (d.fn # "resume_continue" \/ z.y > 0) =>
             \A k \in (x.h + 1) .. z.h : f[k].kind = "lua" /\ (f[k].return => k = x.h + 1)
      BY <1>3, <2>1 DEF Knows
    <3>4. (d.fn # "resume_continue" \/ z.y > 0) =>
             \A k \in (x.h + 1) .. m : f2[k].kind = "lua" /\ (f2[k].return => k = x.h + 1)
      BY <1>10, <3>2, <3>3
    <3>5. z2.h <= Len(f2) /\ f2[z2.h].kind = "lua"
      BY <1>9, <1>10, <1>12, <3>1
    <3> QED BY <1>3, <1>12, <3>4, <3>5 DEF Knows, Beginning
  <2>4. Known(t, f2, nat, g2, N - 1, nat[N].fn)
    BY <1>2, <1>3, <1>17, <2>2
  <2>5. nat[N].L = t => Knows(f2, nat[N - 1], g2[N - 1], nat[N], g2[N], "none")
    <3>1. g2[N - 1] = x
      BY <1>1, <1>2, <1>16
    <3> QED BY <1>2, <1>16, <2>3, <3>1
  <2> QED BY <1>1, <2>4, <2>5, KnownTop
<1>21. Explained(t, f2, nat, g2, FALSE)
  <2>1. ExplainedKept(t, f, f2, nat, g, nat, g2, K, FALSE, FALSE)
    BY <1>2, <1>3, <1>10, <1>19 DEF ExplainedKept, NoWorse, Unneeded, CalledFrom, Handling
  <2> QED BY <1>1, <1>5, <1>18, <2>1, ExplainedOn
<1>22. Marks(luauFastpcall, t, f2, nat, g2)
  <2>1. \A p \in DOMAIN f2 : \A k \in 1 .. (p - 1) : k \in DOMAIN f2
    BY <1>10, FrameIs
  <2>2. \A j \in (K + 1) .. Len(nat) : nat[j].fn # "luaD_pcall"
    BY <1>2, <1>3, <1>19
  <2>3. MarksKept(luauFastpcall, t, f, f2, nat, nat, g2, K)
    BY <1>10, <2>1, <2>2 DEF MarksKept, NoWorse
  <2>4. Len(g2) = Len(nat)
    BY <1>1, <1>16
  <2> QED BY <1>1, <1>5, <1>10, <1>16, <1>18, <2>3, <2>4, MarksOn
<1>23. Runs(luauFastpcall, f2, n, b, "ok", nat, g2)
  <2>1. Whole(luauFastpcall, t, f2, nat, g2)
    BY <1>1, <1>10, <1>20, <1>21, <1>22 DEF Whole, Frames
  <2>2. m \in 1 .. m /\ m \in DOMAIN f2 /\ f2[m].kind = "lua"
    <3>1. Len(f) - 1 = m /\ m \in 1 .. m
      BY <1>7, <1>9
    <3> QED BY <1>10, <3>1, FrameIs
  <2>3. ~f2[m].handle
    BY <1>10, <2>2 DEF FramesOK
  <2> QED BY <1>1, <1>2, <1>3, <1>4, <1>10, <1>12, <1>16, <2>1, <2>2, <2>3 DEF Runs
<1>24. OnTop(luauFastpcall, f2, n, b, "ok", nat, g2, "run") /\ "ok" \in Statuses
  BY <1>23 DEF OnTop, Statuses
<1>25. Moves(nat, g, nat, g2, N, t)
  <2>1. N \in 1 .. N /\ \A j \in N .. N : j = N
    BY <1>1
  <2> QED BY <1>1, <1>16, <2>1 DEF Moves
<1> QED BY <1>1, <1>10, <1>15, <1>24, <1>25, AtStep

LEMMA ExecReturnStep ==
  ASSUME NEW g, NEW t, g \in Seq(Note), Balanced(g), t \in Thread, ExecReturn(t), UNCHANGED luauFastpcall
  PROVE  CallInv'
<1>1. signal = "run" /\ Top.fn = "luau_execute" /\ Top.L = t
  BY DEF ExecReturn, Running
<1>2. PICK nat, N, f, n, b, st : At(g, nat, N, t, f, n, b, st)
  BY <1>1, AboveHost
<1>3. /\ [nCcalls EXCEPT ![t] = n] = nCcalls /\ [status EXCEPT ![t] = st] = status
      /\ [baseCcalls EXCEPT ![t] = b] = baseCcalls
      /\ native = nat /\ Top = nat[N] /\ ci[t] = f
  BY <1>2, AtSame
<1>4. nat[N].fn = "luau_execute" /\ nat[N].fn # "lua_resume"
  BY <1>1, <1>3
<1>5. Level(g[N], f, n, b, st) /\ Whole(luauFastpcall, t, f, nat, g) /\ Frames(luauFastpcall, t, f, nat, g, "none")
      /\ FramesOK(luauFastpcall, f) /\ f[Len(f)].kind = "lua"
  BY <1>1, <1>2, <1>4, TopRuns
<1>6. st = "ok" /\ f # <<>> /\ Len(f) = g[N].h /\ g[N].h > 0
  BY <1>5 DEF Level
<1>7. /\ Atop(luauFastpcall, nat[N - 1], g[N - 1], nat[N], g[N])
      /\ g[N] \in Note /\ g[N - 1] \in Note
  BY <1>2, AtTop
<1>8. PICK e, z, d, x : e = nat[N] /\ z = g[N] /\ d = nat[N - 1] /\ x = g[N - 1]
  OBVIOUS
<1>9. /\ x.h < z.h /\ z.y = x.y /\ d.fn \in Beginning /\ ~Handling(d)
      /\ z.h \in Nat /\ x.h \in Nat /\ x.y \in Nat /\ d.L = t
  BY <1>1, <1>3, <1>4, <1>7, <1>8, NoteIs DEF Atop, Noted, Beginning, Handling
<1>10. /\ Stack(luauFastpcall, nat, g) /\ nat \in Seq(Element) /\ g \in Seq(Note) /\ Len(nat) = N /\ N > 1
       /\ f \in Seq(FrameType) /\ nat[N].L = t
  BY <1>2, AtStack
<1>11. Knows(f, d, x, e, z, "none")
  <2>1. Frames(luauFastpcall, nat[N].L, f, nat, g, "none")
    BY <1>5, <1>10
  <2>2. Knows(f, nat[N - 1], g[N - 1], nat[N], g[N], "none")
    BY <1>10, <2>1, LowIs
  <2> QED BY <1>8, <2>2
<1>12. Last(f) = f[Len(f)] /\ Len(f) \in 1 .. Len(f)
  <2>1. Len(f) \in Nat
    BY <1>10, FrameIs
  <2> QED BY <1>6, <2>1 DEF Last
<1>13. CASE f[Len(f)].return
  <2>1. Becomes(t, Front(f), n, b, "ok", Front(nat), "return")
    BY <1>3, <1>6, <1>12, <1>13 DEF ExecReturn, Becomes, countVars
  <2>2. Len(f) = x.h + 1 \/ (d.fn = "resume_continue" /\ x.y = 0)
    <3> SUFFICES ASSUME d.fn # "resume_continue" \/ z.y > 0
                 PROVE  Len(f) = x.h + 1
      BY <1>9
    <3>1. z.h \in (x.h + 1) .. z.h
      BY <1>9
    <3>2. f[z.h].return => z.h = x.h + 1
      BY <1>4, <1>8, <1>11, <3>1 DEF Knows
    <3> QED BY <1>6, <1>8, <1>13, <3>2
  <2>3. /\ g[N - 1].h < Len(f) /\ ~Handling(nat[N - 1])
        /\ Len(f) = g[N - 1].h + 1 \/ nat[N - 1].fn = "lua_resume" \/ (nat[N - 1].fn = "resume_continue" /\ g[N - 1].y = 0)
        /\ nat[N].fn \in {"C", "luau_execute"}
    BY <1>4, <1>6, <1>8, <1>9, <2>2
  <2> QED BY <1>1, <1>2, <2>1, <2>3, FunctionReturns
<1>14. CASE ~f[Len(f)].return
  <2>1. Becomes(t, Front(f), n, b, "ok", nat, "run")
    BY <1>1, <1>3, <1>6, <1>12, <1>14 DEF ExecReturn, Becomes, countVars
  <2>2. Len(f) > 1 /\ f[Len(f) - 1].kind = "lua"
    <3>1. Len(f) \in DOMAIN f
      BY <1>10, <1>12, FrameIs
    <3> QED BY <1>5, <1>14, <3>1 DEF FramesOK
  <2>3. x.h + 1 < z.h
    <3>1. N - 1 \in 2 .. Len(nat)
      <4>1. N = 2 => nat[N].fn \in {"luaD_pcall", "lua_resume"}
        BY <1>2, AtTop
      <4>2. N \in Nat
        BY <1>2, AtStack
      <4> QED BY <1>4, <1>10, <4>1, <4>2
    <3>2. PICK a : Knows(f, nat[N - 1 - 1], g[N - 1 - 1], d, x, a)
      <4>1. Known(t, f, nat, g, Len(nat), "none")
        BY <1>5 DEF Frames
      <4>2. PICK a : Knows(f, nat[N - 1 - 1], g[N - 1 - 1], nat[N - 1], g[N - 1], a)
        BY <1>8, <1>9, <3>1, <4>1 DEF Known
      <4> QED BY <1>8, <4>2
    <3>3. (x.h < Len(f) /\ f[x.h + 1].kind = "lua") => f[x.h + 1].return
      BY <1>9, <3>2 DEF Knows
    <3>4. Len(f) = z.h
      BY <1>6, <1>8
    <3>5. x.h + 1 # z.h
      BY <1>5, <1>9, <1>14, <3>3, <3>4
    <3> QED BY <1>9, <3>5
  <2>4. g[N - 1].h + 1 < Len(f)
    BY <1>6, <1>8, <2>3
  <2> QED BY <1>2, <1>4, <1>5, <2>1, <2>2, <2>4, FrameEnds
<1> QED BY <1>13, <1>14

LEMMA ExecReturnedStep ==
  ASSUME NEW g, NEW t, g \in Seq(Note), Balanced(g), t \in Thread, ExecReturned(t), UNCHANGED luauFastpcall
  PROVE  CallInv'
<1>1. signal = "return" /\ Top.fn = "luau_execute" /\ Top.L = t
  BY DEF ExecReturned, Returned
<1>2. PICK nat, N, f, n, b, st : At(g, nat, N, t, f, n, b, st)
  BY <1>1, AboveHost
<1>3. /\ [nCcalls EXCEPT ![t] = n] = nCcalls /\ [status EXCEPT ![t] = st] = status
      /\ [baseCcalls EXCEPT ![t] = b] = baseCcalls /\ [ci EXCEPT ![t] = f] = ci
      /\ native = nat /\ Top = nat[N] /\ ci[t] = f /\ status[t] = st
  BY <1>2, AtSame
<1>4. nat[N].fn = "luau_execute" /\ nat[N].fn # "lua_resume"
  BY <1>1, <1>3
<1>5. /\ Stack(luauFastpcall, nat, g) /\ nat \in Seq(Element) /\ g \in Seq(Note) /\ Len(nat) = N /\ N > 1
      /\ f \in Seq(FrameType) /\ nat[N].L = t
  BY <1>2, AtStack
<1>6. PICK e, z, d, x : e = nat[N] /\ z = g[N] /\ d = nat[N - 1] /\ x = g[N - 1]
  OBVIOUS
<1>7. /\ e \in Element /\ z \in Note /\ x \in Note /\ Atop(luauFastpcall, d, x, e, z) /\ e.fn = "luau_execute"
  BY <1>2, <1>4, <1>6, AtTop
<1>8. /\ x.h < z.h /\ z.y = x.y /\ z.c = x.c /\ z.b = x.b
      /\ z.h \in Nat /\ x.h \in Nat /\ x.y \in Nat
  BY <1>7, NoteIs DEF Atop, Noted
<1>9. CASE st # "ok"
  <2>0. signal = "return" /\ At(g, nat, N, t, f, n, b, st) /\ st # "ok"
    BY <1>1, <1>2, <1>9
  <2>1. Yields(luauFastpcall, f, n, b, st, nat, g) /\ n >= z.c /\ n >= z.b /\ n = b
    <3>1. Yields(luauFastpcall, f, n, b, st, nat, g) /\ n >= g[N].c /\ n >= g[N].b /\ n = b
      BY <2>0, TopYields
    <3> QED BY <1>6, <3>1
  <2>2. Leaves(f, st) /\ FramesOK(luauFastpcall, f) /\ Frames(luauFastpcall, t, f, nat, g, "luaD_pcall")
    BY <2>0, TopYields
  <2>3. Frames(luauFastpcall, nat[N].L, f, nat, g, "luaD_pcall")
    BY <1>5, <2>2
  <2>4. g[N].h <= Len(f)
    BY <1>5, <2>3, LowIs
  <2>5. Kept(f, f, g[N - 1].h)
    <3>1. x.h <= Len(f)
      <4>1. Len(f) \in Nat
        BY <1>5, FrameIs
      <4> QED BY <1>6, <1>8, <2>4, <4>1
    <3> QED BY <1>5, <1>6, <1>8, <3>1, KeptSame
  <2>6. Left(nat[N].L, f, f, nat, N)
    BY <1>4 DEF Left, CalledFrom
  <2>7. /\ n >= g[N - 1].c /\ n >= g[N - 1].b /\ n \in Nat
    <3>1. n \in Nat
      BY <1>2, AtStack
    <3> QED BY <1>6, <1>8, <2>1, <3>1
  <2>8. Becomes(t, f, n, n, st, Front(nat), "return")
    BY <1>1, <1>3, <1>9, <2>1 DEF ExecReturned, Becomes, countVars, Yielded
  <2> QED BY <1>2, <1>4, <1>5, <2>1, <2>2, <2>5, <2>6, <2>7, <2>8, StepYields
<1>10. CASE st = "ok"
  <2>1. Fits(e, z, f, n, b) /\ Whole(luauFastpcall, t, f, nat, g) /\ Frames(luauFastpcall, t, f, nat, g, "none")
        /\ FramesOK(luauFastpcall, f)
    BY <1>1, <1>2, <1>6, <1>10, TopReturns
  <2>2. n >= z.c /\ b >= z.b /\ n = b + z.y /\ Len(f) = z.h
    BY <1>7, <2>1 DEF Fits, Handling
  <2>3. f # <<>> /\ z.h > 0 /\ Len(f) \in 1 .. Len(f)
    <3>1. Len(f) > 0 /\ Len(f) \in Nat
      BY <1>8, <2>2
    <3> QED BY <1>8, <2>2, <3>1
  <2>4. Level(z, f, n, b, st)
    BY <1>10, <2>2, <2>3 DEF Level
  <2>5. Last(f) = f[Len(f)] /\ Len(f) \in DOMAIN f
    BY <1>5, <2>3, FrameIs DEF Last
  <2>6. Knows(f, d, x, e, z, "none")
    <3>1. Frames(luauFastpcall, nat[N].L, f, nat, g, "none")
      BY <1>5, <2>1
    <3>2. Knows(f, nat[N - 1], g[N - 1], nat[N], g[N], "none")
      BY <1>5, <3>1, LowIs
    <3> QED BY <1>6, <3>2
  <2>7. \/ f[z.h].kind = "lua"
        \/ f[z.h].pcall /\ z.h > x.h + 1 /\ z.y = 0 /\ f[z.h - 1].kind = "lua"
    BY <1>7, <2>6 DEF Knows
  <2>8. CASE f[Len(f)].pcall
    <3>1. f[Len(f)].kind = "cont"
      BY <2>1, <2>5, <2>8 DEF FramesOK
    <3>2. x.h + 1 < Len(f) /\ f[Len(f) - 1].kind = "lua"
      BY <1>8, <2>2, <2>7, <3>1
    <3>3. Becomes(t, Front(f), n, b, "ok", nat, "run")
      BY <1>3, <1>10, <2>5, <2>8 DEF ExecReturned, Becomes, countVars, Yielded
    <3> QED BY <1>2, <1>4, <1>6, <2>1, <2>4, <3>2, <3>3, FrameEnds
  <2>9. CASE ~f[Len(f)].pcall
    <3>1. f[Len(f)].kind = "lua"
      BY <2>2, <2>7, <2>9
    <3>2. ~f[Len(f)].handle
      BY <2>1, <2>5, <3>1 DEF FramesOK
    <3>3. Runs(luauFastpcall, f, n, b, "ok", nat, g)
      BY <1>5, <1>6, <1>7, <2>1, <2>2, <3>1, <3>2 DEF Runs
    <3>4. OnTop(luauFastpcall, f, n, b, "ok", nat, g, "run") /\ "ok" \in Statuses
      BY <3>3 DEF OnTop, Statuses
    <3>5. Becomes(t, f, n, b, "ok", nat, "run")
      BY <1>3, <1>10, <2>5, <2>9 DEF ExecReturned, Becomes, countVars, Yielded
    <3>6. Moves(nat, g, nat, g, N, t)
      <4>1. N \in Nat
        BY <1>2, AtStack
      <4>2. N \in 1 .. N /\ \A j \in N .. N : j = N
        BY <1>5, <4>1
      <4> QED BY <1>5, <4>2 DEF Moves
    <3>7. n \in Nat /\ b \in Nat
      BY <1>2, AtStack
    <3> QED BY <1>2, <1>5, <3>4, <3>5, <3>6, <3>7, AtStep
  <2> QED BY <2>8, <2>9
<1> QED BY <1>9, <1>10

-----------------------------------------------------------------------------
(* Errors and yields of a thread that runs                                  *)

\* What protects the top is of its thread, and lies no higher.
LEMMA CaughtBy ==
  ASSUME NEW fast, NEW nat, NEW g, NEW N,
         nat \in Seq(Element), g \in Seq(Note), Stack(fast, nat, g), Len(nat) = N, N > 1
  PROVE  \E j \in 2 .. N : /\ nat[j].L = nat[N].L /\ g[j].h <= g[N].h /\ Protects(nat[j])
                           /\ \A m \in (j + 1) .. N : ~Protects(nat[m])
<1>1. N \in Nat
  BY LenIs
<1>2. PICK T : T = {j \in 2 .. N : Protects(nat[j])}
  OBVIOUS
<1>3. 2 \in T
  <2>1. nat[2].fn \in {"luaD_pcall", "lua_resume"}
    BY DEF Stack, Grounded
  <2> QED BY <1>1, <1>2, <2>1 DEF Protects
<1>4. T \subseteq 1 .. N /\ T # {}
  BY <1>1, <1>2, <1>3
<1>5. PICK j \in T : \A k \in T : k <= j
  BY <1>1, <1>4, Greatest
<1>6. j \in 2 .. N /\ Protects(nat[j])
  BY <1>2
<1>7. \A m \in (j + 1) .. N : ~Protects(nat[m])
  BY <1>1, <1>2, <1>5, <1>6
<1>8. nat[j].L = nat[N].L
  <2>1. PICK S : S = {k \in j .. N : nat[k].L = nat[j].L}
    OBVIOUS
  <2>2. S \subseteq 1 .. N /\ j \in S /\ S # {}
    BY <1>1, <1>6, <2>1
  <2>3. PICK q \in S : \A k \in S : k <= q
    BY <1>1, <2>2, Greatest
  <2>4. q \in j .. N /\ nat[q].L = nat[j].L
    BY <2>1
  <2>5. q = N
    <3> SUFFICES ASSUME q # N
                 PROVE  FALSE
      OBVIOUS
    <3>1. PICK p : p = q + 1
      OBVIOUS
    <3>2. p \in (j + 1) .. N /\ p \in 2 .. N /\ p - 1 = q /\ p \in j .. N /\ p > q
      BY <1>1, <1>6, <2>4, <3>1
    <3>3. nat[p].fn # "lua_resume"
      BY <1>7, <3>2 DEF Protects
    <3>4. Atop(fast, nat[p - 1], g[p - 1], nat[p], g[p])
      BY <3>2 DEF Stack, Lies
    <3>5. nat[p].L = nat[q].L
      BY <3>2, <3>3, <3>4 DEF Atop
    <3>6. p \in S
      BY <2>1, <2>4, <3>2, <3>5
    <3> QED BY <1>1, <1>6, <2>3, <2>4, <3>2, <3>6
  <2> QED BY <2>4, <2>5
<1>9. Higher(g[j], g[N])
  <2>1. N \in 2 .. Len(nat) /\ j \in 2 .. N
    BY <1>1, <1>6
  <2> QED BY <1>8, <2>1 DEF Stack, Rising
<1> QED BY <1>6, <1>7, <1>8, <1>9 DEF Higher

\* The thread on top throws in frames f2, which may differ from f in what its top says.
LEMMA NowThrows ==
  ASSUME NEW fast, NEW nat, NEW g, NEW N, NEW t, NEW f, NEW n, NEW b,
         nat \in Seq(Element), g \in Seq(Note), Stack(fast, nat, g), Len(nat) = N, N > 1, nat[N].L = t,
         f \in Seq(FrameType), n >= g[N].c, b >= g[N].b, n >= b, ~Handling(nat[N]), FramesOK(fast, f),
         Known(t, f, nat, g, N, "none"), Marks(fast, t, f, nat, g),
         \A k \in DOMAIN f : Bad(f, k) => Excused(t, f, k, nat, g, FALSE) \/ k >= g[N].h
  PROVE  Throws(fast, f, n, b, "ok", nat, g)
<1>1. /\ N \in Nat /\ g[N].h \in Nat
  BY TopIs, NoteIs
<1>2. Known(t, f, nat, g, N, "luaD_pcall")
  BY DEF Known, Knows
<1>3. PICK j \in 2 .. N : /\ nat[j].L = nat[N].L /\ g[j].h <= g[N].h /\ Protects(nat[j])
                           /\ \A m \in (j + 1) .. N : ~Protects(nat[m])
  BY CaughtBy
<1>4. g[j].h \in Nat
  <2>1. j \in 1 .. Len(g)
    BY <1>1 DEF Stack, Grounded
  <2> QED BY <2>1, LenIs, NoteIs
<1>5. ASSUME NEW k \in DOMAIN f, Bad(f, k)
      PROVE  Calls(t, f, k, nat) \/ Failed(t, k, nat, g, TRUE)
  <2>1. CASE Excused(t, f, k, nat, g, FALSE)
    BY <2>1 DEF Excused, Failed
  <2>2. CASE k >= g[N].h
    <3>1. g[j].h <= k
      BY <1>1, <1>3, <1>4, <2>2, FrameIs
    <3> QED BY <1>3, <3>1 DEF Failed
  <2> QED BY <1>5, <2>1, <2>2
<1>6. Explained(t, f, nat, g, TRUE)
  BY <1>5 DEF Explained
<1>7. Frames(fast, t, f, nat, g, "luaD_pcall")
  BY <1>2 DEF Frames
<1> QED BY <1>6, <1>7 DEF Throws

LEMMA Stays ==
  ASSUME NEW nat, NEW g, NEW N, NEW t,
         nat \in Seq(Element), g \in Seq(Note), Len(nat) = N, N > 1, nat[N].L = t
  PROVE  Moves(nat, g, nat, g, N, t)
<1>1. N \in Nat
  BY LenIs
<1>2. N \in 1 .. N /\ \A j \in N .. N : j = N
  BY <1>1
<1> QED BY <1>2 DEF Moves

LEMMA ThrowHere ==
  ASSUME NEW g, NEW nat, NEW N, NEW t, NEW f, NEW n, NEW b, NEW st, NEW f2, NEW n2, NEW b2,
         At(g, nat, N, t, f, n, b, st), f2 \in Seq(FrameType), n2 \in Nat, b2 \in Nat,
         Throws(luauFastpcall, f2, n2, b2, "ok", nat, g), Becomes(t, f2, n2, b2, "ok", nat, "throw")
  PROVE  CallInv'
<1>1. /\ Stack(luauFastpcall, nat, g) /\ g \in Seq(Note) /\ nat \in Seq(Element) /\ N > 1
      /\ Len(nat) = N /\ nat[N].L = t
  BY AtStack
<1>2. Moves(nat, g, nat, g, N, t)
  BY <1>1, Stays
<1>3. OnTop(luauFastpcall, f2, n2, b2, "ok", nat, g, "throw") /\ "ok" \in Statuses
  BY DEF OnTop, Statuses
<1> QED BY <1>1, <1>2, <1>3, AtStep

LEMMA RunsThrows ==
  ASSUME NEW g, NEW nat, NEW N, NEW t, NEW f, NEW n, NEW b, NEW st,
         At(g, nat, N, t, f, n, b, st), signal = "run", nat[N].fn # "lua_resume",
         Becomes(t, f, n, b, "ok", nat, "throw")
  PROVE  CallInv'
<1>1. /\ Stack(luauFastpcall, nat, g) /\ g \in Seq(Note) /\ nat \in Seq(Element) /\ N > 1
      /\ Len(nat) = N /\ nat[N].L = t /\ f \in Seq(FrameType) /\ n \in Nat /\ b \in Nat
  BY AtStack
<1>2. /\ Level(g[N], f, n, b, st) /\ nat[N].fn \in {"C", "luau_execute"}
      /\ Frames(luauFastpcall, t, f, nat, g, "none") /\ Explained(t, f, nat, g, FALSE)
      /\ Marks(luauFastpcall, t, f, nat, g) /\ FramesOK(luauFastpcall, f)
  BY TopRuns
<1>3. g[N].y \in Nat
  BY AtTop, NoteIs
<1>4. n >= g[N].c /\ b >= g[N].b /\ n >= b /\ ~Handling(nat[N])
  BY <1>1, <1>2, <1>3 DEF Level, Handling
<1>5. Known(t, f, nat, g, N, "none")
  BY <1>1, <1>2 DEF Frames
<1>6. \A k \in DOMAIN f : Bad(f, k) => Excused(t, f, k, nat, g, FALSE) \/ k >= g[N].h
  BY <1>2 DEF Explained, Excused
<1>7. Throws(luauFastpcall, f, n, b, "ok", nat, g)
  BY <1>1, <1>2, <1>4, <1>5, <1>6, NowThrows
<1> QED BY <1>1, <1>7, ThrowHere

LEMMA ErrorStep ==
  ASSUME NEW g, NEW t, g \in Seq(Note), Balanced(g), t \in Thread, Error(t), UNCHANGED luauFastpcall
  PROVE  CallInv'
<1>1. signal = "run" /\ Top.fn \in {"C", "luau_execute"} /\ Top.L = t /\ (~Host \/ Top.fn # "C")
  BY DEF Error, CFunction, Running
<1>2. PICK nat, N, f, n, b, st : At(g, nat, N, t, f, n, b, st)
  BY <1>1, AboveHost
<1>3. /\ [nCcalls EXCEPT ![t] = n] = nCcalls /\ [status EXCEPT ![t] = st] = status
      /\ [baseCcalls EXCEPT ![t] = b] = baseCcalls /\ [ci EXCEPT ![t] = f] = ci
      /\ native = nat /\ Top = nat[N]
  BY <1>2, AtSame
<1>4. nat[N].fn # "lua_resume"
  BY <1>1, <1>3
<1>5. st = "ok"
  <2>1. Level(g[N], f, n, b, st)
    BY <1>1, <1>2, <1>4, TopRuns
  <2> QED BY <2>1 DEF Level
<1>6. Becomes(t, f, n, b, "ok", nat, "throw")
  BY <1>3, <1>5 DEF Error, Becomes, countVars
<1> QED BY <1>1, <1>2, <1>4, <1>6, RunsThrows

LEMMA YieldStep ==
  ASSUME NEW g, NEW t, g \in Seq(Note), Balanced(g), t \in Thread, Yield(t), UNCHANGED luauFastpcall
  PROVE  CallInv'
<1>1. signal = "run" /\ Top.fn \in {"C", "luau_execute"} /\ Top.L = t /\ (~Host \/ Top.fn # "C")
  BY DEF Yield, CFunction, Running
<1>2. PICK nat, N, f, n, b, st : At(g, nat, N, t, f, n, b, st)
  BY <1>1, AboveHost
<1>3. /\ [nCcalls EXCEPT ![t] = n] = nCcalls /\ [status EXCEPT ![t] = st] = status
      /\ [baseCcalls EXCEPT ![t] = b] = baseCcalls /\ [ci EXCEPT ![t] = f] = ci
      /\ native = nat /\ Top = nat[N] /\ nCcalls[t] = n /\ baseCcalls[t] = b
  BY <1>2, AtSame
<1>4. nat[N].fn # "lua_resume" /\ nat[N].fn # "luaD_pcall" /\ nat[N].fn # "callerrfunc"
  BY <1>1, <1>3
<1>5. /\ Level(g[N], f, n, b, st) /\ nat[N].fn \in {"C", "luau_execute"}
      /\ Frames(luauFastpcall, t, f, nat, g, "none") /\ Explained(t, f, nat, g, FALSE)
      /\ FramesOK(luauFastpcall, f) /\ ~f[Len(f)].handle
  BY <1>1, <1>2, <1>4, TopRuns
<1>6. /\ n >= g[N].c /\ b >= g[N].b /\ n = b + g[N].y /\ st = "ok" /\ Len(f) = g[N].h /\ f # <<>>
  BY <1>5 DEF Level
<1>7. CASE ~(n <= b)
  <2>1. Becomes(t, f, n, b, "ok", nat, "throw")
    BY <1>3, <1>6, <1>7 DEF Yield, Becomes, countVars, Yieldable
  <2> QED BY <1>1, <1>2, <1>4, <2>1, RunsThrows
<1>8. CASE n <= b
  <2>1. /\ Stack(luauFastpcall, nat, g) /\ g \in Seq(Note) /\ nat \in Seq(Element) /\ N > 1
        /\ Len(nat) = N /\ nat[N].L = t /\ f \in Seq(FrameType) /\ n \in Nat /\ b \in Nat
    BY <1>2, AtStack
  <2>2. /\ Atop(luauFastpcall, nat[N - 1], g[N - 1], nat[N], g[N])
        /\ g[N] \in Note /\ g[N - 1] \in Note
    BY <1>2, AtTop
  <2>3. g[N].y = 0 /\ n = b
    BY <1>6, <1>8, <2>1, <2>2, NoteIs
  <2>4. Clear(nat, N)
    BY <1>4, <2>1, <2>3, ClearIs
  <2>5. Leaves(f, "yield")
    BY <1>5, <1>6 DEF Leaves
  <2>6. Frames(luauFastpcall, t, f, nat, g, "luaD_pcall")
    BY <1>5 DEF Frames, Known, Knows
  <2>7. Yields(luauFastpcall, f, n, b, "yield", nat, g)
    BY <1>5, <1>6, <2>1, <2>3, <2>4, <2>5, <2>6 DEF Yields, Handling
  <2>8. n >= g[N - 1].c /\ n >= g[N - 1].b /\ g[N - 1].h < Len(f) /\ g[N - 1].h \in Nat
    BY <1>5, <1>6, <2>2, <2>3, NoteIs DEF Atop, Noted
  <2>9. Kept(f, f, g[N - 1].h)
    <3>1. g[N - 1].h <= Len(f)
      BY <2>1, <2>8, FrameIs
    <3> QED BY <2>1, <2>8, <3>1, KeptSame
  <2>10. Left(nat[N].L, f, f, nat, N)
    BY <1>5 DEF Left, CalledFrom
  <2>11. Becomes(t, f, n, n, "yield", Front(nat), "return")
    BY <1>3, <1>8, <2>3 DEF Yield, Becomes, countVars, Yieldable
  <2> QED BY <1>2, <1>4, <1>5, <2>1, <2>5, <2>7, <2>8, <2>9, <2>10, <2>11, StepYields
<1> QED BY <1>7, <1>8

\* What gives way to a yield leaves the frames as they are.
LEMMA YieldsOn ==
  ASSUME NEW g, NEW nat, NEW N, NEW t, NEW f, NEW n, NEW b, NEW st,
         At(g, nat, N, t, f, n, b, st), signal = "return", st # "ok",
         nat[N].fn \in {"C", "luau_execute", "resume_continue", "luaD_pcall"},
         Becomes(t, f, n, b, st, Front(nat), "return")
  PROVE  CallInv'
<1>1. /\ Stack(luauFastpcall, nat, g) /\ nat \in Seq(Element) /\ g \in Seq(Note) /\ Len(nat) = N /\ N > 1
      /\ f \in Seq(FrameType) /\ nat[N].L = t /\ n \in Nat
  BY AtStack
<1>2. /\ Yields(luauFastpcall, f, n, b, st, nat, g) /\ n >= g[N].c /\ n >= g[N].b /\ n = b
      /\ Leaves(f, st) /\ FramesOK(luauFastpcall, f) /\ Frames(luauFastpcall, t, f, nat, g, "luaD_pcall")
  BY TopYields
<1>3. /\ Atop(luauFastpcall, nat[N - 1], g[N - 1], nat[N], g[N])
      /\ g[N] \in Note /\ g[N - 1] \in Note
  BY AtTop
<1>4. g[N - 1].c = g[N].c /\ g[N - 1].b = g[N].b /\ g[N - 1].h <= g[N].h /\ g[N - 1].h \in Nat /\ g[N].h \in Nat
  BY <1>3, NoteIs DEF Atop, Noted
<1>5. g[N].h <= Len(f)
  <2>1. Frames(luauFastpcall, nat[N].L, f, nat, g, "luaD_pcall")
    BY <1>1, <1>2
  <2> QED BY <1>1, <2>1, LowIs
<1>6. Kept(f, f, g[N - 1].h)
  <2>1. g[N - 1].h <= Len(f)
    <3>1. Len(f) \in Nat
      BY <1>1, FrameIs
    <3> QED BY <1>4, <1>5, <3>1
  <2> QED BY <1>1, <1>4, <2>1, KeptSame
<1>7. Left(nat[N].L, f, f, nat, N)
  BY DEF Left, CalledFrom
<1>8. nat[N].fn # "lua_resume" /\ n >= g[N - 1].c /\ n >= g[N - 1].b
  BY <1>2, <1>4
<1>9. Becomes(t, f, n, n, st, Front(nat), "return")
  BY <1>2
<1> QED BY <1>1, <1>2, <1>6, <1>7, <1>8, <1>9, StepYields

LEMMA HostStays ==
  ASSUME NEW g, g \in Seq(Note), Balanced(g), Host, signal' = "run",
         UNCHANGED <<luauFastpcall, ci, nCcalls, baseCcalls, status, native>>
  PROVE  CallInv'
<1>1. CallTypeOK'
  BY DEF Balanced, CallTypeOK
<1>2. PICK M : M = Len(native)
  OBVIOUS
<1>3. M = 1 /\ ~(M > 1)
  BY <1>2 DEF Host
<1>4. Balanced(g)'
  BY <1>1, <1>2, <1>3 DEF Balanced
<1> QED BY <1>4 DEF CallInv

LEMMA CReturnedStep ==
  ASSUME NEW g, NEW t, g \in Seq(Note), Balanced(g), t \in Thread, CReturned(t), UNCHANGED luauFastpcall
  PROVE  CallInv'
<1>1. signal = "return" /\ Top.fn = "C" /\ Top.L = t
  BY DEF CReturned, Returned
<1>2. CASE Host
  <2>1. signal' = "run" /\ UNCHANGED <<luauFastpcall, ci, nCcalls, baseCcalls, status, native>>
    BY <1>2 DEF CReturned, countVars
  <2> QED BY <1>2, <2>1, HostStays
<1>3. CASE ~Host
  <2>1. PICK nat, N, f, n, b, st : At(g, nat, N, t, f, n, b, st)
    BY <1>1, <1>3, AboveHost
  <2>2. /\ [nCcalls EXCEPT ![t] = n] = nCcalls /\ [status EXCEPT ![t] = st] = status
        /\ [baseCcalls EXCEPT ![t] = b] = baseCcalls /\ [ci EXCEPT ![t] = f] = ci
        /\ native = nat /\ Top = nat[N] /\ status[t] = st
    BY <2>1, AtSame
  <2>3. nat[N].fn = "C"
    BY <1>1, <2>2
  <2>4. CASE st # "ok"
    <3>1. Becomes(t, f, n, b, st, Front(nat), "return")
      BY <1>1, <1>3, <2>2, <2>4 DEF CReturned, Becomes, countVars, Yielded
    <3> QED BY <1>1, <2>1, <2>3, <2>4, <3>1, YieldsOn
  <2>5. CASE st = "ok"
    <3>1. Becomes(t, f, n, b, "ok", nat, "run")
      BY <1>3, <2>2, <2>5 DEF CReturned, Becomes, countVars, Yielded
    <3>2. /\ Fits(nat[N], g[N], f, n, b) /\ Whole(luauFastpcall, t, f, nat, g)
          /\ Frames(luauFastpcall, t, f, nat, g, "none")
      BY <1>1, <2>1, <2>5, TopReturns
    <3>3. /\ Stack(luauFastpcall, nat, g) /\ nat \in Seq(Element) /\ g \in Seq(Note) /\ Len(nat) = N /\ N > 1
          /\ f \in Seq(FrameType) /\ nat[N].L = t /\ n \in Nat /\ b \in Nat
      BY <2>1, AtStack
    <3>4. Knows(f, nat[N - 1], g[N - 1], nat[N], g[N], "none")
      <4>1. Frames(luauFastpcall, nat[N].L, f, nat, g, "none")
        BY <3>2, <3>3
      <4> QED BY <3>3, <4>1, LowIs
    <3>5. ~f[g[N].h].handle
      BY <2>3, <3>4 DEF Knows
    <3>6. Runs(luauFastpcall, f, n, b, "ok", nat, g)
      BY <2>3, <3>2, <3>3, <3>5 DEF Runs, Fits, Handling
    <3>7. OnTop(luauFastpcall, f, n, b, "ok", nat, g, "run") /\ "ok" \in Statuses
      BY <3>6 DEF OnTop, Statuses
    <3>8. Moves(nat, g, nat, g, N, t)
      BY <3>3, Stays
    <3> QED BY <2>1, <3>1, <3>3, <3>7, <3>8, AtStep
  <2> QED BY <2>4, <2>5
<1> QED BY <1>2, <1>3

-----------------------------------------------------------------------------
(* luaD_pcall                                                               *)

LEMMA UnhandledIs ==
  ASSUME NEW fast, NEW f, NEW f2,
         f \in Seq(FrameType), FramesOK(fast, f), f2 = Unhandled(f)
  PROVE  /\ f2 \in Seq(FrameType) /\ Len(f2) = Len(f) /\ FramesOK(fast, f2) /\ NoWorse(f, f2)
         /\ \A H \in 0 .. Len(f) : Kept(f, f2, H)
         /\ f # <<>> => ~f2[Len(f)].handle
<1>1. Len(f) \in Nat /\ DOMAIN f = 1 .. Len(f) /\ \A k \in 1 .. Len(f) : f[k] \in FrameType
  BY FrameIs
<1>2. CASE f # <<>> /\ Last(f).kind = "cont"
  <2>1. PICK m : m = Len(f)
    OBVIOUS
  <2>2. m \in 1 .. Len(f) /\ f[m].kind = "cont"
    <3>1. Len(f) # 0
      BY <1>2, LenIs
    <3> QED BY <1>1, <1>2, <2>1, <3>1 DEF Last
  <2>3. PICK r : r = [f[m] EXCEPT !.handle = FALSE]
    OBVIOUS
  <2>4. /\ r \in FrameType /\ r.kind = f[m].kind /\ r.return = f[m].return /\ ~r.handle /\ r.pcall = f[m].pcall
        /\ r.forcall = f[m].forcall /\ r.opyield = f[m].opyield
    <3>1. f[m] \in FrameType
      BY <1>1, <2>2
    <3> QED BY <2>3, <3>1 DEF FrameType
  <2>5. f2 = [f EXCEPT ![m] = r]
    BY <1>2, <2>1, <2>3 DEF Unhandled
  <2>6. /\ r.handle \/ r.pcall => r.kind = "cont"
        /\ r.forcall \/ r.opyield => r.kind = "lua"
        /\ fast => r.forcall = r.opyield
    BY <1>1, <2>2, <2>4 DEF FramesOK
  <2>7. /\ FramesOK(fast, [f EXCEPT ![m] = r]) /\ [f EXCEPT ![m] = r] \in Seq(FrameType)
        /\ Len([f EXCEPT ![m] = r]) = Len(f)
        /\ DOMAIN [f EXCEPT ![m] = r] = DOMAIN f
        /\ \A k \in 1 .. Len(f) : [f EXCEPT ![m] = r][k] = IF k = m THEN r ELSE f[k]
        /\ \A k \in DOMAIN f : k # m => (Bad([f EXCEPT ![m] = r], k) => Bad(f, k))
    BY <2>2, <2>4, <2>6, FramesChange
  <2>8. \A k \in DOMAIN f2 : k \in DOMAIN f /\ f2[k].kind = f[k].kind /\ (f2[k].handle => f[k].handle)
    BY <1>1, <2>4, <2>5, <2>7
  <2>9. \A k \in DOMAIN f2 : Bad(f2, k) => Bad(f, k)
    BY <1>1, <2>2, <2>4, <2>5, <2>7 DEF Bad
  <2>10. NoWorse(f, f2)
    BY <2>8, <2>9 DEF NoWorse
  <2>11. ASSUME NEW H \in 0 .. Len(f)
         PROVE  Kept(f, f2, H)
    <3>1. H \in Nat /\ H <= Len(f)
      BY <1>1
    <3>2. Kept(f, [f EXCEPT ![m] = r], H)
      BY <2>2, <2>4, <3>1, KeptChange
    <3> QED BY <2>5, <3>2
  <2>12. ~f2[Len(f)].handle
    BY <2>1, <2>2, <2>4, <2>5, <2>7
  <2> QED BY <2>5, <2>7, <2>10, <2>11, <2>12
<1>3. CASE ~(f # <<>> /\ Last(f).kind = "cont")
  <2>1. f2 = f
    BY <1>3 DEF Unhandled
  <2>2. NoWorse(f, f)
    BY DEF NoWorse
  <2>3. \A H \in 0 .. Len(f) : Kept(f, f, H)
    BY <1>1, KeptSame
  <2>4. f # <<>> => ~f[Len(f)].handle
    <3> SUFFICES ASSUME f # <<>> PROVE ~f[Len(f)].handle
      OBVIOUS
    <3>1. Len(f) # 0
      BY LenIs
    <3>2. Len(f) \in DOMAIN f
      BY <1>1, <3>1
    <3> QED BY <1>3, <3>2 DEF FramesOK, Last
  <2> QED BY <2>1, <2>2, <2>3, <2>4
<1> QED BY <1>2, <1>3

LEMMA PcallReturnsStep ==
  ASSUME NEW g, NEW t, g \in Seq(Note), Balanced(g), t \in Thread, PcallReturns(t), UNCHANGED luauFastpcall
  PROVE  CallInv'
<1>1. signal = "return" /\ Top.fn = "luaD_pcall" /\ Top.L = t /\ ~Top.handling
  BY DEF PcallReturns, Returned
<1>2. PICK nat, N, f, n, b, st : At(g, nat, N, t, f, n, b, st)
  BY <1>1, AboveHost
<1>3. /\ [nCcalls EXCEPT ![t] = n] = nCcalls /\ [status EXCEPT ![t] = st] = status
      /\ [baseCcalls EXCEPT ![t] = b] = baseCcalls /\ [ci EXCEPT ![t] = f] = ci
      /\ native = nat /\ Top = nat[N] /\ status[t] = st /\ ci[t] = f
  BY <1>2, AtSame
<1>4. PICK e, z, d, x : e = nat[N] /\ z = g[N] /\ d = nat[N - 1] /\ x = g[N - 1]
  OBVIOUS
<1>5. e.fn = "luaD_pcall" /\ ~Handling(e) /\ e.L = t
  BY <1>1, <1>3, <1>4 DEF Handling
<1>6. CASE st # "ok"
  <2>1. Becomes(t, f, n, b, st, Front(nat), "return")
    BY <1>1, <1>3, <1>6 DEF PcallReturns, Becomes, countVars, Yielded
  <2> QED BY <1>1, <1>2, <1>4, <1>5, <1>6, <2>1, YieldsOn
<1>7. CASE st = "ok"
  <2>1. PICK f2 : f2 = Unhandled(f)
    OBVIOUS
  <2>2. Becomes(t, f2, n, b, "ok", Front(nat), "return")
    BY <1>1, <1>3, <1>7, <2>1 DEF PcallReturns, Becomes, countVars, Yielded
  <2>3. /\ Fits(e, z, f, n, b) /\ Whole(luauFastpcall, t, f, nat, g)
        /\ Frames(luauFastpcall, t, f, nat, g, "none") /\ Explained(t, f, nat, g, FALSE)
        /\ Marks(luauFastpcall, t, f, nat, g) /\ FramesOK(luauFastpcall, f)
    BY <1>1, <1>2, <1>4, <1>7, TopReturns
  <2>4. /\ Stack(luauFastpcall, nat, g) /\ nat \in Seq(Element) /\ g \in Seq(Note) /\ Len(nat) = N /\ N > 1
        /\ f \in Seq(FrameType) /\ nat[N].L = t /\ n \in Nat /\ b \in Nat /\ N \in Nat
    BY <1>2, AtStack
  <2>5. /\ Atop(luauFastpcall, d, x, e, z) /\ d \in Element /\ x \in Note /\ z \in Note
    BY <1>2, <1>4, AtTop
  <2>6. /\ d.fn = "C" /\ z.h = x.h /\ z.y = x.y /\ z.c = x.c /\ z.b = x.b /\ e.frames = x.h /\ d.L = t
        /\ x.h \in Nat /\ x.y \in Nat
    BY <1>5, <2>5, NoteIs DEF Atop, Noted
  <2>7. n >= x.c /\ b >= x.b /\ n = b + x.y /\ Len(f) = x.h
    BY <1>5, <2>3, <2>6 DEF Fits
  <2>8. /\ f2 \in Seq(FrameType) /\ Len(f2) = Len(f) /\ FramesOK(luauFastpcall, f2) /\ NoWorse(f, f2)
        /\ \A H \in 0 .. Len(f) : Kept(f, f2, H)
        /\ f # <<>> => ~f2[Len(f)].handle
    BY <2>1, <2>3, <2>4, UnhandledIs
  <2>9. CASE N = 2
    <3>1. x.y = 0
      <4>1. Noted(g[1], 0, 0, 0, 0)
        BY <1>2, <2>9, AtTop
      <4> QED BY <1>4, <2>9, <4>1 DEF Noted
    <3>2. Becomes(t, f2, n, n, "ok", Front(native), "return")
      <4>1. n = b
        BY <2>4, <2>7, <3>1
      <4> QED BY <1>3, <2>2, <4>1
    <3>3. Top.L = t /\ Len(native) = 2 /\ "ok" \in Statuses
      BY <1>1, <1>3, <2>4, <2>9 DEF Statuses
    <3> QED BY <2>4, <2>8, <3>2, <3>3, HostStep
  <2>10. CASE N # 2
    <3>1. N > 2 /\ N - 1 \in 2 .. N
      BY <2>4, <2>10
    <3>2. x.h > 0 /\ f # <<>>
      <4>1. Atop(luauFastpcall, nat[N - 1 - 1], g[N - 1 - 1], nat[N - 1], g[N - 1])
        BY <2>4, <3>1 DEF Stack, Lies
      <4>2. Atop(luauFastpcall, nat[N - 1 - 1], g[N - 1 - 1], d, x)
        BY <1>4, <4>1
      <4>3. nat[N - 1 - 1] \in Element /\ g[N - 1 - 1] \in Note
        <5>1. N - 1 - 1 \in 1 .. Len(nat) /\ N - 1 - 1 \in 1 .. Len(g)
          BY <2>4, <3>1 DEF Stack, Grounded
        <5> QED BY <2>4, <5>1, LenIs
      <4>4. x.h > 0
        BY <2>5, <2>6, <4>2, <4>3, HeightIs
      <4> QED BY <2>4, <2>7, <4>4, LenIs
    <3>3. ~f2[x.h].handle
      BY <2>7, <2>8, <3>2
    <3>4. Left(t, f, f2, nat, N)
      BY <1>4, <1>5, <2>8, NoWorseLeft
    <3>5. LeftMarks(f, f2, nat[N])
      BY <1>4, <2>6, <2>8, <3>3 DEF LeftMarks, NoWorse
    <3>6. Kept(f, f2, x.h)
      <4>1. x.h \in 0 .. Len(f)
        BY <2>6, <2>7
      <4> QED BY <2>8, <4>1
    <3>7. Ends(luauFastpcall, t, f, "none", f2, "none", nat, g, N)
      BY <1>4, <1>5, <2>3, <2>8, <3>3, <3>4, <3>6 DEF Ends
    <3>8. Fits(nat[N - 1], g[N - 1], f2, n, b)
      BY <1>4, <2>6, <2>7, <2>8 DEF Fits, Handling
    <3> QED BY <1>2, <2>2, <2>3, <2>4, <2>8, <3>1, <3>5, <3>7, <3>8, StepReturns
  <2> QED BY <2>9, <2>10
<1> QED BY <1>6, <1>7

LEMMA ThrowExplains ==
  ASSUME NEW u, NEW f, NEW nat, NEW g,
         Explained(u, f, nat, g, FALSE)
  PROVE  Explained(u, f, nat, g, TRUE)
BY DEF Explained, Failed

\* A cut of the frames f to height h, with the mark of its top taken back
CutBack(fast, f, h, f2) ==
    /\ f2 \in Seq(FrameType) /\ Len(f2) = h /\ FramesOK(fast, f2) /\ NoWorse(f, f2) /\ Kept(f, f2, h)
    /\ h > 0 => ~f2[h].handle

LEMMA RestoredIs ==
  ASSUME NEW fast, NEW f, NEW h, NEW f2,
         f \in Seq(FrameType), FramesOK(fast, f), h \in 0 .. Len(f), f2 = Unhandled(SubSeq(f, 1, h))
  PROVE  CutBack(fast, f, h, f2)
<1>1. PICK p : p = SubSeq(f, 1, h)
  OBVIOUS
<1>2. /\ p \in Seq(FrameType) /\ Len(p) = h /\ FramesOK(fast, p) /\ NoWorse(f, p)
      /\ \A H \in 0 .. h : Kept(f, p, H)
  <2>1. p \in Seq(FrameType) /\ Len(p) = h
    BY <1>1, Prefixed
  <2>2. FramesOK(fast, p)
    BY <1>1, Prefixed
  <2>3. NoWorse(f, p)
    BY <1>1, Prefixed
  <2>4. \A H \in 0 .. h : Kept(f, p, H)
    BY <1>1, Prefixed
  <2> QED BY <2>1, <2>2, <2>3, <2>4
<1>3. /\ f2 \in Seq(FrameType) /\ Len(f2) = Len(p) /\ FramesOK(fast, f2) /\ NoWorse(p, f2)
      /\ \A H \in 0 .. Len(p) : Kept(p, f2, H)
      /\ p # <<>> => ~f2[Len(p)].handle
  <2>1. f2 = Unhandled(p)
    BY <1>1
  <2> QED BY <1>2, <2>1, UnhandledIs
<1>4. h \in Nat /\ h \in 0 .. h
  BY FrameIs
<1>5. NoWorse(f, f2)
  BY <1>2, <1>3 DEF NoWorse
<1>6. Kept(f, f2, h)
  <2>1. Kept(f, p, h) /\ Kept(p, f2, h) /\ Len(f2) = h
    BY <1>2, <1>3, <1>4
  <2> QED BY <2>1 DEF Kept
<1>7. h > 0 => ~f2[h].handle
  <2> SUFFICES ASSUME h > 0 PROVE ~f2[h].handle
    OBVIOUS
  <2>1. p # <<>>
    BY <1>2, <1>4, LenIs
  <2> QED BY <1>2, <1>3, <2>1
<1> QED BY <1>2, <1>3, <1>5, <1>6, <1>7 DEF CutBack

\* A luaD_pcall that failed leaves the frames of its caller, whether its error function ran or not.
Back(fast, t, f2, nat2, g2, h) == Whole(fast, t, f2, nat2, g2) /\ Len(f2) = h /\ f2 \in Seq(FrameType)

LEMMA RestoredWhole ==
  ASSUME NEW fast, NEW nat, NEW g, NEW N, NEW nat2, NEW g2, NEW t, NEW f, NEW f2, NEW fn, NEW h,
         nat \in Seq(Element), g \in Seq(Note), Stack(fast, nat, g), Len(nat) = N, N > 2,
         Popped(nat, g, nat2, g2), nat[N].fn = "luaD_pcall", nat[N].L = t, f \in Seq(FrameType),
         FramesOK(fast, f), Known(t, f, nat, g, N, fn), Explained(t, f, nat, g, TRUE), Marks(fast, t, f, nat, g),
         h = nat[N].frames, f2 = Unhandled(SubSeq(f, 1, h))
  PROVE  Back(fast, t, f2, nat2, g2, h)
<1>1. PICK e, z, d, x : e = nat[N] /\ z = g[N] /\ d = nat[N - 1] /\ x = g[N - 1]
  OBVIOUS
<1>2. /\ N \in Nat /\ N - 1 \in Nat /\ Len(g) = N
      /\ Atop(fast, d, x, e, z) /\ d \in Element /\ x \in Note /\ z \in Note
  <2>1. /\ N \in Nat /\ N - 1 \in Nat /\ Len(g) = N
        /\ nat[N - 1] \in Element /\ g[N] \in Note /\ g[N - 1] \in Note
        /\ Atop(fast, nat[N - 1], g[N - 1], nat[N], g[N])
    <3>1. N > 1
      <4>1. N \in Nat
        BY LenIs
      <4> QED BY <4>1
    <3> QED BY <3>1, TopIs
  <2> QED BY <1>1, <2>1
<1>3. /\ d.fn = "C" /\ z.h = x.h /\ e.frames = x.h /\ d.L = t /\ e.L = t /\ e.fn = "luaD_pcall"
      /\ x.h \in Nat
  BY <1>1, <1>2, NoteIs DEF Atop, Noted
<1>4. N > 1 /\ N - 1 \in 2 .. N
  BY <1>2
<1>5. /\ Known(t, f, nat, g, N - 1, "luaD_pcall")
      /\ Knows(f, d, x, e, z, fn)
  <2>1. /\ Known(t, f, nat, g, N - 1, nat[N].fn)
        /\ nat[N].L = t => Knows(f, nat[N - 1], g[N - 1], nat[N], g[N], fn)
    <3>1. nat \in Seq(Element) /\ Len(nat) = N /\ N > 1 /\ Known(t, f, nat, g, N, fn)
      BY <1>4
    <3> QED BY <3>1, KnownPop
  <2> QED BY <1>1, <2>1
<1>6. x.h \in 0 .. Len(f)
  <2>1. z.h <= Len(f)
    BY <1>5 DEF Knows
  <2> QED BY <1>3, <2>1, FrameIs
<1>7. /\ f2 \in Seq(FrameType) /\ Len(f2) = x.h /\ FramesOK(fast, f2) /\ NoWorse(f, f2) /\ Kept(f, f2, x.h)
      /\ x.h > 0 => ~f2[x.h].handle
  <2>1. h \in 0 .. Len(f) /\ f2 = Unhandled(SubSeq(f, 1, h)) /\ h = x.h
    BY <1>1, <1>3, <1>6
  <2>2. CutBack(fast, f, h, f2)
    BY <2>1, RestoredIs
  <2> QED BY <2>1, <2>2 DEF CutBack
<1>8. x.h > 0 /\ f[x.h].kind # "lua"
  <2>1. Atop(fast, nat[N - 1 - 1], g[N - 1 - 1], nat[N - 1], g[N - 1])
    BY <1>4 DEF Stack, Lies
  <2>2. Atop(fast, nat[N - 1 - 1], g[N - 1 - 1], d, x)
    BY <1>1, <2>1
  <2>3. nat[N - 1 - 1] \in Element /\ g[N - 1 - 1] \in Note
    <3>1. N - 1 - 1 \in 1 .. Len(nat) /\ N - 1 - 1 \in 1 .. Len(g)
      BY <1>2, <1>4
    <3> QED BY <3>1, LenIs
  <2>4. x.h > 0
    BY <1>2, <1>3, <2>2, <2>3, HeightIs
  <2>5. Knows(f, nat[N - 1 - 1], g[N - 1 - 1], d, x, "luaD_pcall")
    <3>1. N - 1 \in 2 .. (N - 1) /\ ~(N - 1 < N - 1)
      BY <1>2, <1>4
    <3> QED BY <1>1, <1>3, <1>5, <3>1 DEF Known
  <2> QED BY <1>3, <2>4, <2>5 DEF Knows
<1>9. /\ nat2 \in Seq(Element) /\ g2 \in Seq(Note) /\ Len(nat2) = N - 1 /\ Len(g2) = N - 1
      /\ Agree(nat, g, nat2, g2, N - 1)
  <2>1. N - 1 \in 1 .. Len(nat) /\ Cut(nat, g, nat2, g2, N - 1)
    BY <1>2, <1>4 DEF Popped
  <2> QED BY <2>1, CutIs
<1>10. Known(t, f2, nat2, g2, N - 1, "none")
  <2>1. \A i \in 2 .. (N - 1) : nat[i].L = t => g[i].h <= x.h
    <3>1. \A i \in 2 .. (N - 1) : nat[i].L = nat[N].L => g[i].h <= g[N - 1].h
      <4>1. nat \in Seq(Element) /\ g \in Seq(Note) /\ Stack(fast, nat, g) /\ Len(nat) = N /\ N > 1
        BY <1>4
      <4> QED BY <4>1, BelowHeight
    <3> QED BY <1>1, <1>3, <3>1
  <2>2. ~f2[g[N - 1].h].handle
    BY <1>1, <1>7, <1>8
  <2> QED BY <1>2, <1>5, <1>7, <1>9, <2>1, <2>2, KnownOn
<1>11. Explained(t, f2, nat2, g2, FALSE)
  <2>1. ASSUME NEW k \in DOMAIN f2, Bad(f2, k)
        PROVE  /\ k \in DOMAIN f /\ Bad(f, k) /\ f2[k].kind = f[k].kind
               /\ Unneeded(t, f, k, nat, g, N - 1) /\ ~Caught(t, k, nat, g)
    <3>1. k \in DOMAIN f /\ Bad(f, k) /\ f2[k].kind = f[k].kind
      BY <1>7, <2>1 DEF NoWorse
    <3>2. k \in 1 .. x.h
      BY <1>7, FrameIs
    <3>3. k # x.h
      <4> SUFFICES ASSUME k = x.h PROVE FALSE
        OBVIOUS
      <4>1. f2[k].kind # "lua"
        BY <1>8, <3>1
      <4>2. f2[k].forcall = f2[k].opyield
        <5>1. f2[k] \in FrameType
          BY <1>7, FrameIs
        <5>2. ~f2[k].forcall /\ ~f2[k].opyield
          BY <1>7, <4>1 DEF FramesOK
        <5>3. f2[k].forcall \in BOOLEAN /\ f2[k].opyield \in BOOLEAN
          BY <5>1 DEF FrameType
        <5> QED BY <5>2, <5>3
      <4>3. ~(k < Len(f2))
        BY <1>3, <1>7
      <4> QED BY <2>1, <4>2, <4>3 DEF Bad
    <3>4. ~(z.h <= k)
      BY <1>3, <3>2, <3>3
    <3>5. \A j \in (N - 1 + 1) .. Len(nat) : j = N
      BY <1>2
    <3>6. Unneeded(t, f, k, nat, g, N - 1)
      BY <1>1, <1>3, <3>4, <3>5 DEF Unneeded, CalledFrom
    <3>7. ~Caught(t, k, nat, g)
      <4> SUFFICES ASSUME NEW j \in 2 .. N, g[j].h <= k, \A m \in (j + 1) .. N : ~Protects(nat[m])
                   PROVE  FALSE
        BY DEF Caught
      <4>1. Protects(nat[N])
        BY <1>1, <1>3 DEF Protects
      <4>2. j # N
        BY <1>1, <3>4
      <4>3. N \in (j + 1) .. N
        BY <1>2, <4>2
      <4> QED BY <4>1, <4>3
    <3> QED BY <3>1, <3>6, <3>7
  <2>2. ExplainedKept(t, f, f2, nat, g, nat2, g2, N - 1, TRUE, FALSE)
    BY <2>1 DEF ExplainedKept
  <2>3. PICK K : K = N - 1
    OBVIOUS
  <2>4. /\ nat \in Seq(Element) /\ nat2 \in Seq(Element) /\ K \in Nat /\ Agree(nat, g, nat2, g2, K)
        /\ Explained(t, f, nat, g, TRUE) /\ ExplainedKept(t, f, f2, nat, g, nat2, g2, K, TRUE, FALSE)
    BY <1>2, <1>9, <2>2, <2>3
  <2> QED BY <2>4, ExplainedCaught
<1>12. Marks(fast, t, f2, nat2, g2)
  <2>1. LeftMarks(f, f2, nat[N])
    BY <1>1, <1>3, <1>7, <1>8 DEF LeftMarks, NoWorse
  <2>2. /\ nat \in Seq(Element) /\ g \in Seq(Note) /\ Stack(fast, nat, g) /\ Len(nat) = N /\ N > 1
        /\ Popped(nat, g, nat2, g2) /\ f \in Seq(FrameType) /\ f2 \in Seq(FrameType) /\ Marks(fast, t, f, nat, g)
    BY <1>4, <1>7
  <2> QED BY <2>1, <2>2, PopMarks
<1>13. Whole(fast, t, f2, nat2, g2)
  BY <1>7, <1>9, <1>10, <1>11, <1>12 DEF Whole, Frames
<1> QED BY <1>1, <1>3, <1>7, <1>13 DEF Back

LEMMA PcallFailsStep ==
  ASSUME NEW g, NEW t, g \in Seq(Note), Balanced(g), t \in Thread, PcallFails(t), UNCHANGED luauFastpcall
  PROVE  CallInv'
<1>1. /\ Top.fn = "luaD_pcall" /\ Top.L = t
      /\ signal = "throw" \/ (signal = "return" /\ Top.handling)
  BY DEF PcallFails
<1>2. PICK nat, N, f, n, b, st : At(g, nat, N, t, f, n, b, st)
  BY <1>1, AboveHost
<1>3. /\ [status EXCEPT ![t] = st] = status
      /\ native = nat /\ Top = nat[N] /\ status[t] = st /\ ci[t] = f
  BY <1>2, AtSame
<1>4. PICK e, z, d, x : e = nat[N] /\ z = g[N] /\ d = nat[N - 1] /\ x = g[N - 1]
  OBVIOUS
<1>5. e.fn = "luaD_pcall" /\ e.L = t /\ (signal = "return" => Handling(e))
  BY <1>1, <1>3, <1>4 DEF Handling
<1>6. st = "ok" /\ FramesOK(luauFastpcall, f) /\ Marks(luauFastpcall, t, f, nat, g)
      /\ Explained(t, f, nat, g, TRUE) /\ \E fn : Frames(luauFastpcall, t, f, nat, g, fn)
  <2>1. CASE signal = "throw"
    <3>1. /\ Thrown(z, n, b, st) /\ FramesOK(luauFastpcall, f) /\ Marks(luauFastpcall, t, f, nat, g)
          /\ Frames(luauFastpcall, t, f, nat, g, "luaD_pcall") /\ Explained(t, f, nat, g, TRUE)
      BY <1>2, <1>4, <2>1, TopThrows
    <3> QED BY <3>1 DEF Thrown
  <2>2. CASE signal = "return"
    <3>1. st = "ok"
      BY <1>2, <1>4, <1>5, <2>2, TopYields
    <3>2. /\ FramesOK(luauFastpcall, f) /\ Marks(luauFastpcall, t, f, nat, g)
          /\ Frames(luauFastpcall, t, f, nat, g, "none") /\ Explained(t, f, nat, g, FALSE)
      BY <1>2, <2>2, <3>1, TopReturns
    <3>3. Explained(t, f, nat, g, TRUE)
      BY <3>2, ThrowExplains
    <3> QED BY <3>1, <3>2, <3>3
  <2> QED BY <1>1, <2>1, <2>2
<1>7. PICK fn : Frames(luauFastpcall, t, f, nat, g, fn)
  BY <1>6
<1>8. /\ Stack(luauFastpcall, nat, g) /\ nat \in Seq(Element) /\ g \in Seq(Note) /\ Len(nat) = N /\ N > 1
      /\ f \in Seq(FrameType) /\ nat[N].L = t /\ N \in Nat
  BY <1>2, AtStack
<1>9. /\ Atop(luauFastpcall, d, x, e, z) /\ e \in Element /\ x \in Note /\ z \in Note
  BY <1>2, <1>4, AtTop
<1>10. /\ d.fn = "C" /\ z.h = x.h /\ e.frames = x.h /\ x.h \in Nat /\ x.y \in Nat
       /\ e.nCcalls = e.baseCcalls + x.y /\ e.nCcalls >= x.c /\ e.baseCcalls >= x.b
  BY <1>5, <1>9, NoteIs DEF Atop, Noted
<1>11. e.nCcalls \in Nat /\ e.baseCcalls \in Nat
  BY <1>5, <1>9, ElementIs
<1>12. PICK f2, h : h = e.frames /\ f2 = Unhandled(SubSeq(f, 1, h))
  OBVIOUS
<1>13. Becomes(t, f2, e.nCcalls, e.baseCcalls, "ok", Front(nat), "return")
  BY <1>3, <1>4, <1>6, <1>12 DEF PcallFails, Restored, Becomes
<1>14. CASE N = 2
  <2>1. x.y = 0
    <3>1. Noted(g[1], 0, 0, 0, 0)
      BY <1>2, <1>14, AtTop
    <3> QED BY <1>4, <1>14, <3>1 DEF Noted
  <2>2. Becomes(t, f2, e.nCcalls, e.nCcalls, "ok", Front(native), "return")
    <3>1. e.nCcalls = e.baseCcalls
      BY <1>10, <1>11, <2>1
    <3> QED BY <1>3, <1>13, <3>1
  <2>3. Top.L = t /\ Len(native) = 2 /\ "ok" \in Statuses
    BY <1>1, <1>3, <1>8, <1>14 DEF Statuses
  <2>4. f2 \in Seq(FrameType)
    <3>1. h \in 0 .. Len(f)
      <4>1. Frames(luauFastpcall, nat[N].L, f, nat, g, fn)
        BY <1>7, <1>8
      <4>2. g[N].h <= Len(f)
        BY <1>8, <4>1, LowIs
      <4>3. Len(f) \in Nat
        BY <1>8, FrameIs
      <4> QED BY <1>4, <1>10, <1>12, <4>2, <4>3
    <3>2. f \in Seq(FrameType) /\ FramesOK(luauFastpcall, f) /\ f2 = Unhandled(SubSeq(f, 1, h))
      BY <1>6, <1>8, <1>12
    <3>3. CutBack(luauFastpcall, f, h, f2)
      BY <3>1, <3>2, RestoredIs
    <3> QED BY <3>3 DEF CutBack
  <2> QED BY <1>11, <2>2, <2>3, <2>4, HostStep
<1>15. CASE N # 2
  <2>1. N > 2
    BY <1>8, <1>15
  <2>2. PICK nat2, g2 : nat2 = Front(nat) /\ g2 = Front(g)
    OBVIOUS
  <2>3. Popped(nat, g, nat2, g2)
    BY <1>8, <2>2, FrontPopped
  <2>4. Whole(luauFastpcall, t, f2, nat2, g2) /\ Len(f2) = g[N - 1].h /\ f2 \in Seq(FrameType)
    <3>1. Known(t, f, nat, g, N, fn)
      BY <1>7, <1>8 DEF Frames
    <3>2. /\ h = nat[N].frames /\ f2 = Unhandled(SubSeq(f, 1, h)) /\ nat[N].fn = "luaD_pcall"
          /\ FramesOK(luauFastpcall, f) /\ Marks(luauFastpcall, t, f, nat, g) /\ Explained(t, f, nat, g, TRUE)
      BY <1>4, <1>5, <1>6, <1>7, <1>12
    <3>3. Back(luauFastpcall, t, f2, nat2, g2, h)
      BY <1>8, <2>1, <2>3, <3>1, <3>2, RestoredWhole
    <3> QED BY <1>4, <1>10, <1>12, <3>3 DEF Back
  <2>5. Fits(nat[N - 1], g[N - 1], f2, e.nCcalls, e.baseCcalls)
    BY <1>4, <1>10, <2>4 DEF Fits
  <2>6. Becomes(t, f2, e.nCcalls, e.baseCcalls, "ok", nat2, "return") /\ nat[N].fn # "lua_resume"
    BY <1>4, <1>5, <1>13, <2>2
  <2> QED BY <1>2, <1>11, <2>1, <2>3, <2>4, <2>5, <2>6, StepPopped
<1> QED BY <1>14, <1>15

-----------------------------------------------------------------------------
(* Error functions                                                          *)

\* What an error function leaves is explained by the handling below it.
LEMMA HandlingWhole ==
  ASSUME NEW fast, NEW nat, NEW g, NEW N, NEW nat2, NEW g2, NEW t, NEW f, NEW fn,
         nat \in Seq(Element), g \in Seq(Note), Stack(fast, nat, g), Len(nat) = N, N > 2,
         Popped(nat, g, nat2, g2), nat[N].fn = "callerrfunc", nat[N].L = t, f \in Seq(FrameType),
         FramesOK(fast, f), Known(t, f, nat, g, N, fn), Explained(t, f, nat, g, TRUE), Marks(fast, t, f, nat, g)
  PROVE  Whole(fast, t, f, nat2, g2)
<1>1. PICK e, z, d, x : e = nat[N] /\ z = g[N] /\ d = nat[N - 1] /\ x = g[N - 1]
  OBVIOUS
<1>2. N \in Nat /\ N > 1 /\ N - 1 \in 2 .. N
  BY LenIs
<1>3. PICK K : K = N - 1
  OBVIOUS
<1>4. /\ Len(g) = N
      /\ Atop(fast, d, x, e, z) /\ d \in Element /\ x \in Note /\ z \in Note
  <2>1. /\ Len(g) = N
        /\ nat[N - 1] \in Element /\ g[N] \in Note /\ g[N - 1] \in Note
        /\ Atop(fast, nat[N - 1], g[N - 1], nat[N], g[N])
    BY <1>2, TopIs
  <2> QED BY <1>1, <2>1
<1>5. /\ Handling(d) /\ x.h <= z.h /\ d.L = t /\ e.L = t /\ e.fn = "callerrfunc"
      /\ x.h \in Nat /\ z.h \in Nat /\ d.fn # "C"
  BY <1>1, <1>4, NoteIs DEF Atop, Handling
<1>6. /\ Known(t, f, nat, g, K, "callerrfunc")
      /\ Knows(f, d, x, e, z, fn)
  <2>1. /\ Known(t, f, nat, g, N - 1, nat[N].fn)
        /\ nat[N].L = t => Knows(f, nat[N - 1], g[N - 1], nat[N], g[N], fn)
    <3>1. nat \in Seq(Element) /\ Len(nat) = N /\ N > 1 /\ Known(t, f, nat, g, N, fn)
      BY <1>2
    <3> QED BY <3>1, KnownPop
  <2> QED BY <1>1, <1>3, <2>1
<1>7. Kept(f, f, x.h)
  <2>1. x.h <= Len(f)
    <3>1. z.h <= Len(f)
      BY <1>6 DEF Knows
    <3>2. Len(f) \in Nat
      BY FrameIs
    <3> QED BY <1>5, <3>1, <3>2
  <2> QED BY <1>5, <2>1, KeptSame
<1>8. /\ nat2 \in Seq(Element) /\ g2 \in Seq(Note) /\ Len(nat2) = K /\ Len(g2) = K
      /\ Agree(nat, g, nat2, g2, K) /\ \A i \in 1 .. K : nat2[i] = nat[i] /\ g2[i] = g[i]
  <2>1. K \in 1 .. Len(nat) /\ Cut(nat, g, nat2, g2, K)
    BY <1>2, <1>3 DEF Popped
  <2> QED BY <2>1, CutIs
<1>9. K \in Nat /\ K \in 2 .. K /\ N = K + 1
  BY <1>2, <1>3
<1>10. Known(t, f, nat2, g2, K, "none")
  <2>1. \A i \in 2 .. K : nat[i].L = t => g[i].h <= x.h
    <3>1. \A i \in 2 .. (N - 1) : nat[i].L = nat[N].L => g[i].h <= g[N - 1].h
      <4>1. nat \in Seq(Element) /\ g \in Seq(Note) /\ Stack(fast, nat, g) /\ Len(nat) = N /\ N > 1
        BY <1>2
      <4> QED BY <4>1, BelowHeight
    <3> QED BY <1>1, <1>3, <1>5, <3>1
  <2> QED BY <1>6, <1>7, <1>8, <1>9, <2>1, KnownOn
<1>11. Explained(t, f, nat2, g2, FALSE)
  <2>1. ASSUME NEW k \in DOMAIN f, ~(x.h <= k)
        PROVE  Unneeded(t, f, k, nat, g, K) /\ ~Caught(t, k, nat, g)
    <3>1. \A j \in (K + 1) .. Len(nat) : j = N
      BY <1>9
    <3>2. Unneeded(t, f, k, nat, g, K)
      BY <1>1, <1>5, <3>1 DEF Unneeded, CalledFrom, Handling
    <3>3. ~Caught(t, k, nat, g)
      <4> SUFFICES ASSUME NEW j \in 2 .. N, g[j].h <= k, \A m \in (j + 1) .. N : ~Protects(nat[m])
                   PROVE  FALSE
        BY DEF Caught
      <4>1. Protects(nat[N])
        BY DEF Protects
      <4>2. j # N
        <5>1. ~(z.h <= k)
          <6>1. k \in Nat
            BY FrameIs
          <6> QED BY <1>5, <2>1, <6>1
        <5> QED BY <1>1, <5>1
      <4>3. N \in (j + 1) .. N
        BY <1>2, <4>2
      <4> QED BY <4>1, <4>3
    <3> QED BY <3>2, <3>3
  <2>2. ASSUME NEW k \in DOMAIN f, x.h <= k
        PROVE  Excused(t, f, k, nat2, g2, FALSE)
    BY <1>1, <1>3, <1>5, <1>8, <1>9, <2>2 DEF Excused, Failed
  <2>3. ExplainedKept(t, f, f, nat, g, nat2, g2, K, TRUE, FALSE)
    BY <2>1, <2>2 DEF ExplainedKept
  <2>4. /\ nat \in Seq(Element) /\ nat2 \in Seq(Element) /\ K \in Nat /\ Agree(nat, g, nat2, g2, K)
    BY <1>8, <1>9
  <2> QED BY <2>3, <2>4, ExplainedCaught
<1>12. Marks(fast, t, f, nat2, g2)
  <2>1. LeftMarks(f, f, nat[N])
    BY DEF LeftMarks
  <2> QED BY <1>2, <2>1, PopMarks
<1> QED BY <1>8, <1>10, <1>11, <1>12 DEF Whole, Frames

LEMMA ErrFuncStep ==
  ASSUME NEW g, g \in Seq(Note), Balanced(g), ErrFuncEnds, UNCHANGED luauFastpcall
  PROVE  CallInv'
<1>1. Top.fn = "callerrfunc" /\ signal \in {"throw", "return"}
  BY DEF ErrFuncEnds
<1>2. PICK nat, N, t, f, n, b, st : At(g, nat, N, t, f, n, b, st)
  BY <1>1, AboveHost
<1>3. /\ [nCcalls EXCEPT ![t] = n] = nCcalls /\ [status EXCEPT ![t] = st] = status
      /\ [baseCcalls EXCEPT ![t] = b] = baseCcalls /\ [ci EXCEPT ![t] = f] = ci
      /\ native = nat /\ Top = nat[N]
  BY <1>2, AtSame
<1>4. PICK e, z, d, x : e = nat[N] /\ z = g[N] /\ d = nat[N - 1] /\ x = g[N - 1]
  OBVIOUS
<1>5. e.fn = "callerrfunc"
  BY <1>1, <1>3, <1>4
<1>6. /\ Stack(luauFastpcall, nat, g) /\ nat \in Seq(Element) /\ g \in Seq(Note) /\ Len(nat) = N /\ N > 1
      /\ f \in Seq(FrameType) /\ nat[N].L = t /\ N \in Nat /\ n \in Nat /\ b \in Nat
  BY <1>2, AtStack
<1>7. Atop(luauFastpcall, d, x, e, z) /\ (N = 2 => e.fn \in {"luaD_pcall", "lua_resume"})
  BY <1>2, <1>4, AtTop
<1>8. /\ Handling(d) /\ z.c = x.c /\ z.b = x.b
  BY <1>5, <1>7 DEF Atop, Noted
<1>9. /\ st = "ok" /\ FramesOK(luauFastpcall, f) /\ Marks(luauFastpcall, t, f, nat, g)
      /\ Explained(t, f, nat, g, TRUE) /\ (\E fn : Frames(luauFastpcall, t, f, nat, g, fn))
      /\ n >= z.c /\ b >= z.b
  <2>1. CASE signal = "throw"
    <3>1. /\ Thrown(z, n, b, st) /\ FramesOK(luauFastpcall, f) /\ Marks(luauFastpcall, t, f, nat, g)
          /\ Frames(luauFastpcall, t, f, nat, g, "luaD_pcall") /\ Explained(t, f, nat, g, TRUE)
      BY <1>2, <1>4, <2>1, TopThrows
    <3> QED BY <3>1 DEF Thrown
  <2>2. CASE signal = "return"
    <3>1. st = "ok"
      <4> SUFFICES ASSUME st # "ok" PROVE FALSE
        OBVIOUS
      <4>1. Clear(nat, N)
        BY <1>2, <2>2, TopYields
      <4>2. PICK r \in 2 .. N : nat[r].fn = "lua_resume" /\ \A k \in (r + 1) .. N : GivesWay(nat[k])
        BY <4>1 DEF Clear
      <4>3. r # N
        BY <1>4, <1>5, <4>2
      <4>4. N \in (r + 1) .. N
        BY <1>6, <4>3
      <4> QED BY <1>4, <1>5, <4>2, <4>4 DEF GivesWay
    <3>2. /\ FramesOK(luauFastpcall, f) /\ Marks(luauFastpcall, t, f, nat, g)
          /\ Frames(luauFastpcall, t, f, nat, g, "none") /\ Explained(t, f, nat, g, FALSE) /\ Fits(e, z, f, n, b)
      BY <1>2, <1>4, <2>2, <3>1, TopReturns
    <3>3. Explained(t, f, nat, g, TRUE)
      BY <3>2, ThrowExplains
    <3>4. n >= z.c /\ b >= z.b
      BY <3>2 DEF Fits
    <3> QED BY <3>1, <3>2, <3>3, <3>4
  <2> QED BY <1>1, <2>1, <2>2
<1>10. PICK fn : Frames(luauFastpcall, t, f, nat, g, fn)
  BY <1>9
<1>11. N > 2
  BY <1>5, <1>6, <1>7
<1>12. PICK nat2, g2 : nat2 = Front(nat) /\ g2 = Front(g)
  OBVIOUS
<1>13. Popped(nat, g, nat2, g2)
  BY <1>6, <1>12, FrontPopped
<1>14. Whole(luauFastpcall, t, f, nat2, g2)
  <2>1. Known(t, f, nat, g, N, fn) /\ nat[N].fn = "callerrfunc"
    BY <1>4, <1>5, <1>6, <1>10 DEF Frames
  <2> QED BY <1>6, <1>9, <1>11, <1>13, <2>1, HandlingWhole
<1>15. Fits(nat[N - 1], g[N - 1], f, n, b)
  BY <1>4, <1>8, <1>9 DEF Fits, Handling
<1>16. Becomes(t, f, n, b, "ok", nat2, "return") /\ nat[N].fn # "lua_resume"
  BY <1>3, <1>4, <1>5, <1>9, <1>12 DEF ErrFuncEnds, Becomes, countVars
<1> QED BY <1>2, <1>6, <1>11, <1>13, <1>14, <1>15, <1>16, StepPopped

-----------------------------------------------------------------------------
(* An error unwinds the native stack                                        *)

\* On what handles an error lies its error function.
LEMMA OnHandling ==
  ASSUME NEW fast, NEW d, NEW x, NEW e, NEW z,
         Atop(fast, d, x, e, z), e \in Element, Handling(d)
  PROVE  e.fn = "callerrfunc"
<1>1. e.fn \in Names
  BY ElementIs
<1> QED BY <1>1 DEF Atop, Handling, Names

Unwinding(nat, N, j) == j \in 2 .. N /\ nat[j].L = nat[N].L /\ Protects(nat[j]) /\ \A m \in (j + 1) .. N : ~Protects(nat[m])

LEMMA UnwoundExplained ==
  ASSUME NEW fast, NEW nat, NEW g, NEW N, NEW j, NEW nat2, NEW g2, NEW t, NEW f,
         nat \in Seq(Element), g \in Seq(Note), Stack(fast, nat, g), Len(nat) = N, N > 1, Unwinding(nat, N, j),
         Cut(nat, g, nat2, g2, j), nat[N].L = t, f \in Seq(FrameType), Explained(t, f, nat, g, TRUE)
  PROVE  Explained(t, f, nat2, g2, TRUE)
<1>1. /\ N \in Nat /\ j \in 2 .. N /\ nat[j].L = t /\ Protects(nat[j]) /\ j \in Nat /\ j \in 1 .. Len(nat) /\ j >= 2
      /\ \A m \in (j + 1) .. N : ~Protects(nat[m])
  BY LenIs DEF Unwinding
<1>2. /\ nat2 \in Seq(Element) /\ g2 \in Seq(Note) /\ Len(nat2) = j /\ Len(g2) = j
      /\ Agree(nat, g, nat2, g2, j) /\ \A i \in 1 .. j : nat2[i] = nat[i] /\ g2[i] = g[i]
  BY <1>1, CutIs
<1>3. \A i \in 1 .. N : g[i] \in Note /\ g[i].h \in Nat /\ nat[i] \in Element
  <2>1. Len(g) = N
    BY DEF Stack, Grounded
  <2> QED BY <2>1, LenIs, NoteIs
<1>4. g[j].h \in Nat
  BY <1>1, <1>3
<1>5. ASSUME NEW k \in DOMAIN f, ~(g[j].h <= k)
      PROVE  Unneeded(t, f, k, nat, g, j) /\ ~Caught(t, k, nat, g)
  <2>1. ASSUME NEW i \in (j + 1) .. N
        PROVE  ~CalledFrom(t, f, nat[i], k) /\ ~Handling(nat[i])
    <3>1. ~Handling(nat[i])
      BY <1>1, <2>1 DEF Handling, Protects
    <3>2. SUFFICES ASSUME CalledFrom(t, f, nat[i], k)
                   PROVE  FALSE
      BY <3>1
    <3>3. nat[i].L = t /\ nat[i].frames = k /\ nat[i].fn \in {"luaD_performcally", "luaD_callint"}
      BY <3>2 DEF CalledFrom
    <3>4. PICK l : l = i - 1
      OBVIOUS
    <3>5. i \in 2 .. N /\ l \in 1 .. N /\ l \in 2 .. N /\ j \in 2 .. l /\ l \in 2 .. i
      BY <1>1, <3>4
    <3>6. Atop(fast, nat[l], g[l], nat[i], g[i])
      BY <3>4, <3>5 DEF Stack, Lies
    <3>7. nat[i].frames = g[l].h /\ nat[l].L = t
      BY <3>3, <3>6 DEF Atop
    <3>8. Higher(g[j], g[l])
      BY <1>1, <3>5, <3>7 DEF Stack, Rising
    <3> QED BY <1>5, <3>3, <3>7, <3>8 DEF Higher
  <2>2. Unneeded(t, f, k, nat, g, j)
    BY <2>1 DEF Unneeded
  <2>3. ~Caught(t, k, nat, g)
    <3> SUFFICES ASSUME NEW i \in 2 .. N, g[i].h <= k, Protects(nat[i]), \A m \in (i + 1) .. N : ~Protects(nat[m])
                 PROVE  FALSE
      BY DEF Caught
    <3>1. i # j
      BY <1>5
    <3>2. i \in (j + 1) .. N \/ j \in (i + 1) .. N
      BY <1>1, <3>1
    <3> QED BY <1>1, <3>2
  <2> QED BY <2>2, <2>3
<1>6. ASSUME NEW k \in DOMAIN f, g[j].h <= k
      PROVE  Excused(t, f, k, nat2, g2, TRUE)
  <2>1. \A m \in (j + 1) .. Len(nat2) : ~Protects(nat2[m])
    BY <1>1, <1>2
  <2>2. j \in 2 .. Len(nat2) /\ nat2[j] = nat[j] /\ g2[j] = g[j]
    BY <1>1, <1>2
  <2> QED BY <1>1, <1>6, <2>1, <2>2 DEF Excused, Failed
<1>7. ExplainedKept(t, f, f, nat, g, nat2, g2, j, TRUE, TRUE)
  BY <1>5, <1>6 DEF ExplainedKept
<1> QED BY <1>1, <1>2, <1>7, ExplainedOn

LEMMA UnwindStep ==
  ASSUME NEW g, g \in Seq(Note), Balanced(g), Unwind, UNCHANGED luauFastpcall
  PROVE  CallInv'
<1>1. signal = "throw"
  BY DEF Unwind
<1>2. PICK nat, N, t, f, n, b, st : At(g, nat, N, t, f, n, b, st)
  <2>1. ~Host
    BY <1>1 DEF Balanced, Host
  <2> QED BY <2>1, AboveHost
<1>3. /\ [nCcalls EXCEPT ![t] = n] = nCcalls /\ [status EXCEPT ![t] = st] = status
      /\ [baseCcalls EXCEPT ![t] = b] = baseCcalls /\ [ci EXCEPT ![t] = f] = ci
      /\ native = nat
  BY <1>2, AtSame
<1>4. /\ Stack(luauFastpcall, nat, g) /\ nat \in Seq(Element) /\ g \in Seq(Note) /\ Len(nat) = N /\ N > 1
      /\ f \in Seq(FrameType) /\ nat[N].L = t /\ N \in Nat /\ n \in Nat /\ b \in Nat /\ Len(g) = N
  BY <1>2, AtStack
<1>5. /\ Thrown(g[N], n, b, st) /\ FramesOK(luauFastpcall, f) /\ Marks(luauFastpcall, t, f, nat, g)
      /\ Frames(luauFastpcall, t, f, nat, g, "luaD_pcall") /\ Explained(t, f, nat, g, TRUE)
  BY <1>1, <1>2, TopThrows
<1>6. PICK j \in 2 .. N : /\ nat[j].L = nat[N].L /\ g[j].h <= g[N].h /\ Protects(nat[j])
                          /\ \A m \in (j + 1) .. N : ~Protects(nat[m])
  BY <1>4, CaughtBy
<1>7. j < N /\ native' = SubSeq(nat, 1, j)
  <2>1. PICK last : /\ last = CHOOSE i \in DOMAIN native : Protects(native[i]) /\ \A k \in i + 1 .. Len(native) : ~Protects(native[k])
                    /\ last < Len(native) /\ native' = SubSeq(native, 1, last)
    BY DEF Unwind, Protects
  <2>2. j \in DOMAIN nat
    BY <1>4, <1>6, LenIs
  <2>3. last \in DOMAIN nat /\ Protects(nat[last]) /\ \A k \in last + 1 .. Len(nat) : ~Protects(nat[k])
    BY <1>3, <1>4, <1>6, <2>1, <2>2
  <2>4. last \in 1 .. N
    BY <1>4, <2>3, LenIs
  <2>5. last = j
    <3> SUFFICES ASSUME last # j PROVE FALSE
      OBVIOUS
    <3>1. last \in (j + 1) .. N \/ j \in (last + 1) .. N
      BY <1>4, <1>6, <2>4
    <3> QED BY <1>4, <1>6, <2>3, <3>1
  <2> QED BY <1>3, <1>4, <2>1, <2>5
<1>8. PICK nat2, g2 : nat2 = SubSeq(nat, 1, j) /\ g2 = SubSeq(g, 1, j)
  OBVIOUS
<1>9. j \in 1 .. Len(nat) /\ j \in Nat /\ j > 1 /\ j + 1 \in 2 .. N
  BY <1>4, <1>6, <1>7
<1>10. Cut(nat, g, nat2, g2, j)
  BY <1>4, <1>8, <1>9, PrefixCut
<1>11. /\ nat2 \in Seq(Element) /\ g2 \in Seq(Note) /\ Len(nat2) = j /\ Len(g2) = j
       /\ Stack(luauFastpcall, nat2, g2) /\ Agree(nat, g, nat2, g2, j)
       /\ \A i \in 1 .. j : nat2[i] = nat[i] /\ g2[i] = g[i]
  <2>1. nat \in Seq(Element) /\ g \in Seq(Note) /\ Stack(luauFastpcall, nat, g) /\ j \in 1 .. Len(nat)
    BY <1>4, <1>9
  <2> QED BY <1>10, <2>1, CutIs
<1>12. ~Handling(nat[j])
  <2> SUFFICES ASSUME Handling(nat[j]) PROVE FALSE
    OBVIOUS
  <2>1. PICK i : i = j + 1
    OBVIOUS
  <2>2. i \in 2 .. N /\ i - 1 = j /\ i \in (j + 1) .. N /\ i \in 1 .. Len(nat)
    BY <1>4, <1>9, <2>1
  <2>3. Atop(luauFastpcall, nat[j], g[j], nat[i], g[i]) /\ nat[i] \in Element
    BY <1>4, <2>2, LenIs DEF Stack, Lies
  <2>4. nat[i].fn = "callerrfunc"
    BY <2>3, OnHandling
  <2> QED BY <1>6, <2>2, <2>4 DEF Protects
<1>13. n >= g[j].c /\ b >= g[j].b /\ n >= b /\ st = "ok"
  <2>1. Higher(g[j], g[N])
    <3>1. N \in 2 .. Len(nat)
      BY <1>4
    <3> QED BY <1>4, <1>6, <3>1 DEF Stack, Rising
  <2>2. g[j] \in Note /\ g[N] \in Note
    <3>1. j \in 1 .. Len(g) /\ N \in 1 .. Len(g)
      BY <1>4, <1>9
    <3> QED BY <1>4, <3>1, LenIs
  <2> QED BY <1>4, <1>5, <2>1, <2>2, NoteIs DEF Higher, Thrown
<1>14. Frames(luauFastpcall, t, f, nat2, g2, "luaD_pcall")
  <2>1. Known(t, f, nat, g, N, "luaD_pcall")
    BY <1>4, <1>5 DEF Frames
  <2>2. \A i \in 2 .. j : i \in 2 .. N /\ i < N
    BY <1>4, <1>7, <1>9
  <2>3. Known(t, f, nat, g, j, nat[j + 1].fn)
    <3>1. \A i \in 2 .. j : ~(i < j) => i + 1 = j + 1
      BY <1>9
    <3> QED BY <2>1, <2>2, <3>1 DEF Known
  <2>4. \A i \in 2 .. j : nat[i].L = t => g[i].h <= Len(f)
    BY <2>1, <2>2 DEF Known, Knows
  <2>5. Kept(f, f, Len(f))
    <3>1. Len(f) \in Nat /\ Len(f) <= Len(f)
      BY <1>4, FrameIs
    <3> QED BY <1>4, <3>1, KeptSame
  <2>6. Known(t, f, nat2, g2, j, "luaD_pcall")
    BY <1>4, <1>9, <1>11, <2>3, <2>4, <2>5, KnownOn
  <2> QED BY <1>5, <1>11, <2>6 DEF Frames
<1>15. Explained(t, f, nat2, g2, TRUE)
  <2>1. Unwinding(nat, N, j)
    BY <1>6 DEF Unwinding
  <2> QED BY <1>4, <1>5, <1>10, <2>1, UnwoundExplained
<1>16. Marks(luauFastpcall, t, f, nat2, g2)
  <2>1. MarksKept(luauFastpcall, t, f, f, nat, nat2, g2, j)
    <3>1. \A i \in (j + 1) .. Len(nat) : nat[i].fn # "luaD_pcall"
      BY <1>4, <1>6 DEF Protects
    <3>2. \A i \in (j + 1) .. Len(nat2) : FALSE
      BY <1>9, <1>11
    <3> QED BY <3>1, <3>2 DEF MarksKept
  <2>2. Len(g2) = Len(nat2)
    BY <1>11
  <2> QED BY <1>4, <1>5, <1>9, <1>11, <2>1, <2>2, MarksOn
<1>17. Throws(luauFastpcall, f, n, b, "ok", nat2, g2)
  <2>1. nat2[j] = nat[j] /\ g2[j] = g[j] /\ nat[j].L = t
    BY <1>4, <1>6, <1>9, <1>11
  <2> QED BY <1>11, <1>12, <1>13, <1>14, <1>15, <1>16, <2>1 DEF Throws
<1>18. Moves(nat, g, nat2, g2, j, t)
  <2>1. \A i \in 1 .. (j - 1) : i \in 1 .. j
    BY <1>9
  <2>2. \A i \in j .. Len(nat) : nat[i].L = t
    <3>1. N \in 2 .. Len(nat)
      BY <1>4
    <3> QED BY <1>4, <1>6, <3>1 DEF Stack, Together
  <2>3. \A i \in j .. Len(nat2) : i = j
    BY <1>9, <1>11
  <2>4. nat2[j] = nat[j] /\ nat[j].L = t /\ j <= Len(nat2) /\ Len(nat2) > 1
    BY <1>4, <1>6, <1>9, <1>11
  <2> QED BY <1>9, <1>11, <2>1, <2>2, <2>3, <2>4 DEF Moves
<1>19. Becomes(t, f, n, b, "ok", nat2, "throw")
  BY <1>1, <1>3, <1>7, <1>8, <1>13 DEF Unwind, Becomes, countVars
<1>20. OnTop(luauFastpcall, f, n, b, "ok", nat2, g2, "throw") /\ "ok" \in Statuses
  BY <1>17 DEF OnTop, Statuses
<1> QED BY <1>2, <1>4, <1>11, <1>18, <1>19, <1>20, AtStep
=============================================================================
