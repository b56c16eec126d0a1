------------------------------ MODULE CallStack ------------------------------
(***************************************************************************)
(* Calls, protected calls and coroutines of one VM (VM/src/ldo.cpp): the   *)
(* call frames of each thread (CallInfo), its counts of C calls, and the   *)
(* native stack on which luau_execute, C functions and the calls between   *)
(* them lie.  An error unwinds the native stack to the nearest protected   *)
(* call; a yield returns through it, where the counts of C calls say that  *)
(* it can; resume goes on from the call frames alone.                      *)
(*                                                                         *)
(* DebugLuauCoroutineFinally has its default, false.  lua_break is         *)
(* lua_yield, for the state of this module.                                *)
(***************************************************************************)
EXTENDS Naturals, FiniteSets, SequencesExt

CONSTANTS
    Thread,
    MainThread,     \* the thread of the host program
    MaxCCalls,      \* LUAI_MAXCCALLS
    HardLimit,      \* what luaD_checkCstack leaves for error handlers
    MaxFrames       \* bound: call frames of all threads, when no error is handled

ASSUME CallAssumption ==
    /\ MainThread \in Thread
    /\ MaxCCalls \in Nat \ {0} /\ HardLimit \in Nat /\ MaxCCalls < HardLimit /\ MaxFrames \in Nat

VARIABLES
    luauFastpcall,  \* the flag LuauFastpcall of the process; it is FALSE by default
    ci,             \* the call frames of each thread
    nCcalls,        \* number of nested C calls of each thread
    baseCcalls,     \* and the number up to which it can yield
    status,         \* "ok", "yield", "reentry" (SCHEDULED_REENTRY) or "error"
    native,         \* the native stack; the host program is at its bottom
    signal          \* "run", "return" to the top of the native stack, or "throw"

callVars == <<luauFastpcall, ci, nCcalls, baseCcalls, status, native, signal>>
countVars == <<nCcalls, baseCcalls>>

\* A function is of Lua, of C, or of C with a continuation.  handle, errfunc, return, opyield
\* and pcall are of CallInfo; forcall says that the frame has a call of FORGLOOP unfinished.
Kind == {"lua", "c", "cont"}
Frame(kind) == [kind |-> kind, handle |-> FALSE, errfunc |-> FALSE, return |-> FALSE,
                opyield |-> FALSE, pcall |-> FALSE, forcall |-> FALSE]

CallInit ==
    /\ luauFastpcall \in BOOLEAN
    /\ ci = [t \in Thread |-> <<>>]
    /\ nCcalls = [t \in Thread |-> 0] /\ baseCcalls = [t \in Thread |-> 0]
    /\ status = [t \in Thread |-> "ok"]
    /\ native = <<[fn |-> "C", L |-> MainThread]>>
    /\ signal = "run"

Top == Last(native)
Yielded(t) == status[t] # "ok"                  \* isyielded, for a thread that runs
Yieldable(t) == nCcalls[t] <= baseCcalls[t]     \* lua_isyieldable
Running(fn, t) == signal = "run" /\ Top.fn = fn /\ Top.L = t
Returned(fn, t) == signal = "return" /\ Top.fn = fn /\ Top.L = t
Host == Len(native) = 1
FramesLeft == FoldFunction(+, 0, [t \in Thread |-> Len(ci[t])]) < MaxFrames
CFunction(t) == Running("C", t) /\ ~Host /\ ~Last(ci[t]).pcall  \* luaB_pcallcont calls nothing

-----------------------------------------------------------------------------
(* Calls                                                                    *)

Native(fn, t) == [fn |-> fn, L |-> t]
Return(kind) == [Frame(kind) EXCEPT !.return = kind = "lua"]

\* resume_continue, down to a call frame
ResumeContinue(t, base) == [fn |-> "resume_continue", L |-> t, base |-> base]

\* luau_precall and performcall, on a native stack of nat: a C function runs, a Lua function
\* is interpreted, or is left for the loop of resume_continue to interpret.
PerformCall(t, kind, frames, nat, preparereentry) ==
    /\ ci' = [ci EXCEPT ![t] = Append(frames, Return(kind))]
    /\ IF kind = "lua" /\ preparereentry
       THEN /\ status' = [status EXCEPT ![t] = "reentry"]
            /\ native' = nat /\ signal' = "return"
       ELSE /\ native' = nat \o (CASE kind # "lua" -> <<Native("C", t)>>
                                [] kind = "lua" /\ ~luauFastpcall -> <<Native("luau_execute", t)>>
                                [] kind = "lua" /\ luauFastpcall ->
                                      <<ResumeContinue(t, Len(frames)), Native("luau_execute", t)>>)
            /\ signal' = "run" /\ UNCHANGED status

\* A counted call that lies at frame on the native stack nat; luaD_checkCstack throws at
\* MaxCCalls, and from HardLimit on.
Counted(t, base, kind, frames, nat, frame, preparereentry) ==
    LET count == nCcalls[t] + 1 IN
    /\ nCcalls' = [nCcalls EXCEPT ![t] = count]
    /\ IF count = MaxCCalls \/ count >= HardLimit
       THEN /\ ci' = [ci EXCEPT ![t] = frames] /\ native' = nat /\ signal' = "throw"
            /\ UNCHANGED <<baseCcalls, status>>
       ELSE /\ baseCcalls' = [baseCcalls EXCEPT ![t] = base]
            /\ PerformCall(t, kind, frames, Append(nat, frame), preparereentry)

\* luaD_callint: a C function that has a continuation lets its callee yield.
CallInt(t, kind, frames, nat, preparereentry) ==
    LET from == frames # <<>> /\ Last(frames).kind = "cont" IN
    Counted(t, IF from THEN baseCcalls[t] + 1 ELSE baseCcalls[t], kind, frames, nat,
            [fn |-> "luaD_callint", L |-> t, from |-> from, frames |-> Len(frames)], preparereentry)

\* Faulty variant: a yield skips the rest of the function.
CallIntReturnsYielding(t) ==
    /\ Returned("luaD_callint", t)
    /\ nCcalls' = IF Yielded(t) THEN nCcalls ELSE [nCcalls EXCEPT ![t] = @ - 1]
    /\ baseCcalls' = IF Top.from THEN [baseCcalls EXCEPT ![t] = @ - 1] ELSE baseCcalls
    /\ native' = Front(native)
    /\ UNCHANGED <<ci, status, signal>>

CallIntReturns(t) ==
    /\ Returned("luaD_callint", t)
    /\ nCcalls' = [nCcalls EXCEPT ![t] = @ - 1]
    /\ baseCcalls' = IF Top.from THEN [baseCcalls EXCEPT ![t] = @ - 1] ELSE baseCcalls
    /\ native' = Front(native)
    /\ UNCHANGED <<ci, status, signal>>

\* luaV_callTM and luaD_callny have nothing to restore but the count.
UncountReturns(t) ==
    /\ \E fn \in {"luaV_callTM", "luaD_callny"} : Returned(fn, t)
    /\ nCcalls' = [nCcalls EXCEPT ![t] = @ - 1]
    /\ native' = Front(native)
    /\ UNCHANGED <<ci, baseCcalls, status, signal>>

\* Faulty variant: the caller is the frame that is on top now.
PerformCallYReturnsTop(t) ==
    /\ Returned("luaD_performcally", t)
    /\ native' = Front(native)
    /\ IF Yielded(t)
       THEN ci' = [ci EXCEPT ![t][Len(ci[t])].opyield = TRUE] /\ UNCHANGED countVars
       ELSE /\ ci' = [ci EXCEPT ![t][Len(ci[t])] = [@ EXCEPT !.forcall = FALSE, !.opyield = FALSE]]
            /\ nCcalls' = [nCcalls EXCEPT ![t] = @ - 1]
            /\ baseCcalls' = [baseCcalls EXCEPT ![t] = @ - 1]
    /\ UNCHANGED <<status, signal>>

\* luaD_performcally: a caller that has to leave is marked for luau_finishop.
PerformCallYReturns(t) ==
    /\ Returned("luaD_performcally", t)
    /\ native' = Front(native)
    /\ IF Yielded(t)
       THEN ci' = [ci EXCEPT ![t][Top.frames].opyield = TRUE] /\ UNCHANGED countVars
       ELSE /\ ci' = [ci EXCEPT ![t][Len(ci[t])] = [@ EXCEPT !.forcall = FALSE, !.opyield = FALSE]]
            /\ nCcalls' = [nCcalls EXCEPT ![t] = @ - 1]
            /\ baseCcalls' = [baseCcalls EXCEPT ![t] = @ - 1]
    /\ UNCHANGED <<status, signal>>

-----------------------------------------------------------------------------
(* luau_execute                                                             *)

\* OP_CALL needs no C call, neither for a Lua function nor for one of C.
ExecCall(t, kind) ==
    /\ Running("luau_execute", t) /\ FramesLeft
    /\ ci' = [ci EXCEPT ![t] = Append(@, Frame(kind))]
    /\ native' = IF kind = "lua" THEN native ELSE Append(native, Native("C", t))
    /\ UNCHANGED <<countVars, status, signal>>

\* FASTPCALL pushes a frame for pcall, and then calls as OP_CALL does.
ExecFastPcall(t, kind, ef) ==
    /\ luauFastpcall
    /\ Running("luau_execute", t) /\ Yieldable(t) /\ FramesLeft
    /\ ci' = [ci EXCEPT ![t] = @ \o
                <<[Frame("cont") EXCEPT !.handle = TRUE, !.errfunc = ef, !.pcall = TRUE], Return(kind)>>]
    /\ native' = IF kind = "lua" THEN native ELSE Append(native, Native("C", t))
    /\ UNCHANGED <<countVars, status, signal>>

\* A metamethod of C is called by luaV_callTM, any other by luaD_call.
ExecMetamethod(t, kind) ==
    /\ Running("luau_execute", t) /\ FramesLeft
    /\ IF kind = "lua" THEN CallInt(t, kind, ci[t], native, FALSE)
       ELSE Counted(t, baseCcalls[t], kind, ci[t], native,
                    [fn |-> "luaV_callTM", L |-> t, frames |-> Len(ci[t])], FALSE)

\* FORGLOOP calls an iterator that may yield; its frame is marked when it does, or before.
ExecForCall(t, kind) ==
    /\ Running("luau_execute", t) /\ FramesLeft
    /\ Counted(t, baseCcalls[t] + 1, kind, [ci[t] EXCEPT ![Len(ci[t])] = [@ EXCEPT !.forcall = TRUE, !.opyield = luauFastpcall]], native,
               [fn |-> "luaD_performcally", L |-> t, frames |-> Len(ci[t])], FALSE)

\* OP_RETURN: luau_execute ends with the frame that it began with.
ExecReturn(t) ==
    /\ Running("luau_execute", t)
    /\ ci' = [ci EXCEPT ![t] = Front(@)]
    /\ IF Last(ci[t]).return THEN native' = Front(native) /\ signal' = "return"
       ELSE UNCHANGED <<native, signal>>
    /\ UNCHANGED <<countVars, status>>

\* What it called has returned: it goes on, with luau_pospcallsuccess first, or leaves for
\* a yield.
ExecReturned(t) ==
    /\ Returned("luau_execute", t)
    /\ IF Yielded(t) THEN native' = Front(native) /\ UNCHANGED <<ci, signal>>
       ELSE /\ signal' = "run" /\ UNCHANGED native
            /\ ci' = [ci EXCEPT ![t] = IF Last(@).pcall THEN Front(@) ELSE @]
    /\ UNCHANGED <<countVars, status>>

-----------------------------------------------------------------------------
(* C functions                                                              *)

\* The results of a C function or of a continuation: its frame ends (luau_poscall).
CReturn(t) ==
    /\ Running("C", t) /\ ~Host
    /\ ci' = [ci EXCEPT ![t] = Front(@)]
    /\ native' = Front(native) /\ signal' = "return"
    /\ UNCHANGED <<countVars, status>>

\* lua_yield in a C function or in an interrupt of luau_execute
Yield(t) ==
    /\ CFunction(t) \/ Running("luau_execute", t)
    /\ IF Yieldable(t)
       THEN /\ status' = [status EXCEPT ![t] = "yield"]
            /\ native' = Front(native) /\ signal' = "return"
       ELSE signal' = "throw" /\ UNCHANGED <<native, status>>
    /\ UNCHANGED <<ci, countVars>>

\* luaD_throw
Error(t) ==
    /\ CFunction(t) \/ Running("luau_execute", t)
    /\ signal' = "throw"
    /\ UNCHANGED <<ci, countVars, status, native>>

\* lua_call, lua_callyieldable in a function with a continuation
CCall(t, kind) ==
    /\ CFunction(t) /\ FramesLeft
    /\ CallInt(t, kind, ci[t], native, FALSE)

\* What luaD_pcall keeps
Protected(t, ef) ==
    [fn |-> "luaD_pcall", L |-> t, nCcalls |-> nCcalls[t], baseCcalls |-> baseCcalls[t],
     frames |-> Len(ci[t]), errfunc |-> ef, handling |-> FALSE]

\* lua_pcall in a function without a continuation, lua_pcallyieldable in one with.  The
\* caller's frame is marked for resume to find, if its native frames are gone by then.
CPcall(t, kind, ef) ==
    /\ CFunction(t) \/ (Host /\ Running("C", t) /\ ci[t] = <<>> /\ status[t] = "ok")
    /\ FramesLeft
    /\ LET cont == ci[t] # <<>> /\ Last(ci[t]).kind = "cont"
           frames == IF ~cont THEN ci[t]
                     ELSE [ci[t] EXCEPT ![Len(ci[t])] = [@ EXCEPT !.handle = TRUE, !.errfunc = ef]]
       IN CallInt(t, kind, frames, Append(native, Protected(t, ef)), cont /\ Yieldable(t))

\* A C function goes on, or hands a yield down.
CReturned(t) ==
    /\ Returned("C", t)
    /\ IF Yielded(t) /\ ~Host THEN native' = Front(native) /\ UNCHANGED signal
       ELSE signal' = "run" /\ UNCHANGED native
    /\ UNCHANGED <<ci, countVars, status>>

-----------------------------------------------------------------------------
(* Errors                                                                   *)

\* A throw leaves the native frames up to the nearest luaD_rawrunprotected.
Unwind ==
    LET Protects(i) == native[i].fn \in {"luaD_pcall", "callerrfunc", "lua_resume"}
        last == CHOOSE i \in DOMAIN native : Protects(i) /\ \A j \in i + 1 .. Len(native) : ~Protects(j)
    IN /\ signal = "throw" /\ last < Len(native)
       /\ native' = SubSeq(native, 1, last)
       /\ UNCHANGED <<ci, countVars, status, signal>>

\* callerrfunc: the error function runs on top of the frames that failed, and may not yield.
CallErrFunc(t, kind, nat) ==
    Counted(t, baseCcalls[t], kind, ci[t], Append(nat, Native("callerrfunc", t)),
            Native("luaD_callny", t), FALSE)

\* It has returned or failed.
ErrFuncEnds ==
    /\ signal \in {"return", "throw"} /\ Top.fn = "callerrfunc"
    /\ native' = Front(native) /\ signal' = "return"
    /\ UNCHANGED <<ci, countVars, status>>

\* lua_pcallyieldable is done with its callee.
Unhandled(frames) ==
    IF frames # <<>> /\ Last(frames).kind = "cont"
    THEN [frames EXCEPT ![Len(frames)].handle = FALSE] ELSE frames

\* luaD_pcall: nothing has failed, but it may have yielded.
PcallReturns(t) ==
    /\ Returned("luaD_pcall", t) /\ ~Top.handling
    /\ ci' = IF Yielded(t) THEN ci ELSE [ci EXCEPT ![t] = Unhandled(@)]
    /\ native' = Front(native)
    /\ UNCHANGED <<countVars, status, signal>>

\* luaD_pcall: the error function has the error first.
PcallHandles(t, kind) ==
    /\ signal = "throw" /\ Top.fn = "luaD_pcall" /\ Top.L = t /\ Top.errfunc
    /\ CallErrFunc(t, kind, [native EXCEPT ![Len(native)] = [@ EXCEPT !.errfunc = FALSE, !.handling = TRUE]])

\* Faulty variant: the frames of the call that failed stay.
RestoredCounts(t) ==
    /\ ci' = [ci EXCEPT ![t] = Unhandled(@)]
    /\ nCcalls' = [nCcalls EXCEPT ![t] = Top.nCcalls]
    /\ baseCcalls' = [baseCcalls EXCEPT ![t] = Top.baseCcalls]

Restored(t) ==
    /\ ci' = [ci EXCEPT ![t] = Unhandled(SubSeq(@, 1, Top.frames))]
    /\ nCcalls' = [nCcalls EXCEPT ![t] = Top.nCcalls]
    /\ baseCcalls' = [baseCcalls EXCEPT ![t] = Top.baseCcalls]

\* The end of a luaD_pcall that failed
PcallFails(t) ==
    /\ Top.fn = "luaD_pcall" /\ Top.L = t /\ ~Top.errfunc
    /\ signal = "throw" \/ (signal = "return" /\ Top.handling)
    /\ Restored(t)
    /\ native' = Front(native) /\ signal' = "return"
    /\ UNCHANGED status

-----------------------------------------------------------------------------
(* Coroutines                                                               *)

\* Faulty variant: the count of the thread that resumes is not taken over.
ResumeFromNone(t) ==
    LET count == 0 IN
    /\ CFunction(Top.L) \/ (Host /\ signal = "run")
    /\ status[t] = "yield" \/ (status[t] = "ok" /\ ci[t] = <<>> /\ FramesLeft)
    /\ Host \/ t # MainThread
    /\ IF count >= MaxCCalls
       THEN nCcalls' = [nCcalls EXCEPT ![t] = count] /\ UNCHANGED <<baseCcalls, native>>
       ELSE /\ nCcalls' = [nCcalls EXCEPT ![t] = count + 1]
            /\ baseCcalls' = [baseCcalls EXCEPT ![t] = count + 1]
            /\ native' = Append(native, [fn |-> "lua_resume", L |-> t, nCcalls |-> count + 1,
                                         phase |-> "start", handler |-> 0])
    /\ UNCHANGED <<ci, status, signal>>

\* lua_resume with from = NULL, by the host, or from the thread that runs.  A thread that
\* is not suspended, or one C call too many, is an error result and no throw.  Only the
\* host resumes its own thread.
Resume(t) ==
    LET count == IF Host THEN 0 ELSE nCcalls[Top.L] IN
    /\ CFunction(Top.L) \/ (Host /\ signal = "run")
    /\ status[t] = "yield" \/ (status[t] = "ok" /\ ci[t] = <<>> /\ FramesLeft)
    /\ Host \/ t # MainThread
    /\ IF count >= MaxCCalls
       THEN nCcalls' = [nCcalls EXCEPT ![t] = count] /\ UNCHANGED <<baseCcalls, native>>
       ELSE /\ nCcalls' = [nCcalls EXCEPT ![t] = count + 1]
            /\ baseCcalls' = [baseCcalls EXCEPT ![t] = count + 1]
            /\ native' = Append(native, [fn |-> "lua_resume", L |-> t, nCcalls |-> count + 1,
                                         phase |-> "start", handler |-> 0])
    /\ UNCHANGED <<ci, status, signal>>

\* The native stack of nat goes on in a phase of its lua_resume.
Phase(nat, phase) == [nat EXCEPT ![Len(nat)].phase = phase]
Loop(t) == Append(Phase(native, "loop"), ResumeContinue(t, 0))

\* resume: a new coroutine calls its function
Start(t, kind) ==
    /\ Running("lua_resume", t) /\ status[t] = "ok"
    /\ ci' = [ci EXCEPT ![t] = <<Return(kind)>>]
    /\ IF kind = "lua" THEN native' = Loop(t) /\ signal' = "return"
       ELSE native' = Append(Phase(native, "called"), Native("C", t)) /\ UNCHANGED signal
    /\ UNCHANGED <<countVars, status>>

\* resume: one that has yielded; a C function without a continuation has its results.
Restart(t) ==
    /\ Running("lua_resume", t) /\ status[t] = "yield"
    /\ status' = [status EXCEPT ![t] = "ok"]
    /\ ci' = IF Last(ci[t]).kind = "c" THEN [ci EXCEPT ![t] = Front(@)] ELSE ci
    /\ native' = Loop(t) /\ signal' = "return"
    /\ UNCHANGED countVars

\* resume_continue: the frame on top is continued, or pcall's ends.
Continues(t) == status[t] \in {"ok", "reentry"} /\ Len(ci[t]) > Top.base

Continue(t) ==
    /\ Returned("resume_continue", t) /\ Continues(t)
    /\ LET top == Last(ci[t]) IN
       IF top.pcall THEN ci' = [ci EXCEPT ![t] = Front(@)] /\ UNCHANGED <<native, signal>>
       ELSE /\ ci' = [ci EXCEPT ![t][Len(ci[t])] =
                   IF top.kind = "lua" THEN [@ EXCEPT !.opyield = FALSE, !.forcall = FALSE]
                   ELSE [@ EXCEPT !.handle = FALSE]]
            /\ native' = Append(native, Native(IF top.kind = "lua" THEN "luau_execute" ELSE "C", t))
            /\ signal' = "run"
    /\ status' = [status EXCEPT ![t] = "ok"]
    /\ UNCHANGED countVars

ContinueEnds(t) ==
    /\ Returned("resume_continue", t) /\ ~Continues(t)
    /\ native' = Front(native)
    /\ UNCHANGED <<ci, countVars, status, signal>>

\* resume, resume_handle: the first function asks for a reentry, or the continuation that
\* had an error has returned.
Reenter(t) ==
    /\ Returned("lua_resume", t)
    /\ \/ Top.phase = "called" /\ status[t] = "reentry"
       \/ Top.phase = "handle" /\ status[t] = "ok"
    /\ status' = [status EXCEPT ![t] = "ok"]
    /\ native' = Loop(t)
    /\ UNCHANGED <<ci, countVars, signal>>

\* resume_finish
Finish(t, result) ==
    /\ nCcalls' = [nCcalls EXCEPT ![t] = Top.nCcalls - 1]
    /\ baseCcalls' = [baseCcalls EXCEPT ![t] = Top.nCcalls - 1]
    /\ status' = [status EXCEPT ![t] = result]
    /\ native' = Front(native) /\ signal' = "return"
    /\ UNCHANGED ci

ResumeEnds(t) ==
    /\ Returned("lua_resume", t)
    /\ \/ Top.phase = "called" /\ status[t] # "reentry"
       \/ Top.phase = "handle" /\ status[t] # "ok"
       \/ Top.phase = "loop"
    /\ Finish(t, status[t])

\* resume_findhandler
Handlers(t) == {i \in DOMAIN ci[t] : ci[t][i].handle}
Handler(t) == CHOOSE i \in Handlers(t) : \A j \in Handlers(t) : j <= i

\* resume_handle: the frames above the handler's end, and its continuation has the error.
Handle(t, h, frames, nat) ==
    /\ ci' = [ci EXCEPT ![t] = SubSeq(frames, 1, h)]
    /\ nCcalls' = [nCcalls EXCEPT ![t] = Last(nat).nCcalls]
    /\ baseCcalls' = [baseCcalls EXCEPT ![t] = Last(nat).nCcalls]
    /\ native' = Append(nat, Native("C", t)) /\ signal' = "run"
    /\ UNCHANGED status

\* An error that no luaD_pcall is left for
ResumeFails(t, kind) ==
    /\ signal = "throw" /\ Top.fn = "lua_resume" /\ Top.L = t
    /\ IF Handlers(t) = {} THEN Finish(t, "error")
       ELSE LET h == Handler(t)
                frames == [ci[t] EXCEPT ![h].handle = FALSE]
            IN IF ~frames[h].errfunc THEN Handle(t, h, frames, Phase(native, "handle"))
               ELSE Counted(t, Top.nCcalls, kind, [frames EXCEPT ![h].errfunc = FALSE],
                            Append(Phase([native EXCEPT ![Len(native)].handler = h], "handling"),
                                   Native("callerrfunc", t)),
                            Native("luaD_callny", t), FALSE)

ResumeHandled(t) ==
    /\ Returned("lua_resume", t) /\ Top.phase = "handling"
    /\ Handle(t, Top.handler, ci[t], Phase([native EXCEPT ![Len(native)].handler = 0], "handle"))

\* lua_resetthread, by coroutine.close or the host
ResetThread(t) ==
    /\ CFunction(Top.L) \/ (Host /\ signal = "run")
    /\ \A i \in DOMAIN native : native[i].L # t
    /\ ci' = [ci EXCEPT ![t] = <<>>]
    /\ nCcalls' = [nCcalls EXCEPT ![t] = 0] /\ baseCcalls' = [baseCcalls EXCEPT ![t] = 0]
    /\ status' = [status EXCEPT ![t] = "ok"]
    /\ UNCHANGED <<native, signal>>

CallStep ==
    \/ \E t \in Thread :
          \/ CallIntReturns(t) \/ UncountReturns(t) \/ PerformCallYReturns(t)
          \/ ExecReturn(t) \/ ExecReturned(t)
          \/ CReturn(t) \/ Yield(t) \/ Error(t) \/ CReturned(t)
          \/ PcallReturns(t) \/ PcallFails(t)
          \/ Resume(t) \/ Restart(t) \/ Continue(t) \/ ContinueEnds(t) \/ Reenter(t)
          \/ ResumeEnds(t) \/ ResumeHandled(t) \/ ResetThread(t)
    \/ \E t \in Thread, kind \in Kind :
          \/ ExecCall(t, kind) \/ ExecMetamethod(t, kind) \/ ExecForCall(t, kind)
          \/ CCall(t, kind) \/ Start(t, kind)
          \/ PcallHandles(t, kind) \/ ResumeFails(t, kind)
          \/ \E ef \in BOOLEAN : CPcall(t, kind, ef) \/ ExecFastPcall(t, kind, ef)
    \/ Unwind \/ ErrFuncEnds

CallNext == CallStep /\ UNCHANGED luauFastpcall

CallSpec == CallInit /\ [][CallNext]_callVars

-----------------------------------------------------------------------------
(* What must be true                                                        *)

OnStack(t) == {i \in DOMAIN native : native[i].L = t}
LastOf(t) == CHOOSE i \in OnStack(t) : \A j \in OnStack(t) : j <= i
IsCounted(i) ==
    native[i].fn \in {"luaD_callint", "luaV_callTM", "luaD_callny", "luaD_performcally", "lua_resume"}

\* Between an error and its handling the count is that of the call that failed, also for the
\* threads that an error function resumes.
Failing(t) ==
    \/ signal = "throw" /\ Top.L = t
    \/ \E i \in 1 .. LastOf(t) :
          \/ native[i].fn = "luaD_pcall" /\ native[i].handling
          \/ native[i].fn = "lua_resume" /\ native[i].phase = "handling"

Depth(t) == Cardinality({i \in 1 .. LastOf(t) : IsCounted(i)})
Active(t) == OnStack(t) # {} /\ ~(signal = "return" /\ Top.L = t /\ Yielded(t))

\* nCcalls, which is copied from thread to thread, is never less than the depth of the native
\* stack when something runs on it, after every sequence of yields, errors and resumes: the
\* limit on it protects that stack.
DepthLimited == \A t \in Thread : Active(t) => nCcalls[t] >= Depth(t)

\* nCcalls is the "number of nested C calls" (lstate.h:307): what has returned, yielded or
\* failed takes nothing from the limit.
CallsCounted == \A t \in Thread : Active(t) /\ ~Failing(t) => nCcalls[t] = Depth(t)

\* What returns to its caller when its callee yields
Unwinds(i) ==
    \/ native[i].fn \in {"luau_execute", "C", "luaD_performcally", "luaD_pcall", "resume_continue"}
    \/ native[i].fn = "luaD_callint" /\ native[i].from

\* A thread can yield exactly when everything on the native stack above its resume gives
\* way to a yield: "attempt to yield across metamethod/C-call boundary" otherwise.
YieldsUnwind ==
    \A t \in Thread : signal = "run" /\ Top.L = t /\ ~Host =>
        LET R == {i \in OnStack(t) : native[i].fn = "lua_resume"} IN
        Yieldable(t) = (R # {} /\ \A i \in OnStack(t) : (\A r \in R : i > r) => Unwinds(i))

\* Calls are balanced: one that has returned leaves its caller's frame on top, although the
\* callee may have left, been continued by another resume, or failed, in between; and, but
\* for LuauFastpcall, an error that a luaD_pcall catches is not one of a protected call above
\* it.  (With the flag a protected call above it may have no native frame left to catch it.)
StackBalanced ==
    \A t \in Thread : Top.L = t =>
        /\ signal = "return" /\ ~Yielded(t)
           /\ Top.fn \in {"luaD_callint", "luaV_callTM", "luaD_performcally", "luaD_pcall"}
           /\ (Top.fn = "luaD_pcall" => ~Top.handling)
               => Len(ci[t]) = Top.frames
        /\ ~luauFastpcall /\ signal = "throw" /\ Top.fn = "luaD_pcall" =>
               \A i \in DOMAIN ci[t] : ci[t][i].handle => i <= Top.frames

\* A suspended thread can be continued from its call frames alone: C functions below the
\* top have a continuation, calls of FORGLOOP are marked, no mark of a protected call is
\* left on the top, and the loop of resume starts with the counts equal, as it asserts.
Continuable ==
    /\ \A t \in Thread : status[t] = "yield" /\ OnStack(t) = {} =>
          \A i \in DOMAIN ci[t] :
              /\ ci[t][i].kind = "c" => i = Len(ci[t])
              /\ ci[t][i].handle => i < Len(ci[t])
              /\ ci[t][i].opyield = ci[t][i].forcall
    /\ \A t \in Thread : Returned("resume_continue", t) /\ Continues(t) =>
          nCcalls[t] = baseCcalls[t] /\ Last(ci[t]).kind # "c"
=============================================================================
