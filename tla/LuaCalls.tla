------------------------------ MODULE LuaCalls ------------------------------
(***************************************************************************)
(* Calls, errors and coroutines (ldo.c with its callers in lvm.c,      *)
(* lapi.c, lgc.c, lparser.c and lbaselib.c).  The C stack that all Lua     *)
(* threads share is explicit: a sequence of activations of the C functions *)
(* that matter, cut off by luaD_throw, while every thread has CallInfos,   *)
(* counters and the innermost handler of its own.  Arguments, results and  *)
(* the instructions between two calls are left out: a Lua or C function    *)
(* may at any time call, return, yield or raise an error.                  *)
(***************************************************************************)
EXTENDS Integers, Sequences

CONSTANTS Thread, MainThread,
          Userdata,     \* how many userdata have a finalizer
          BasicCI,      \* BASIC_CI_SIZE
          MaxCalls,     \* LUAI_MAXCALLS
          MaxCCalls,    \* LUAI_MAXCCALLS
          ErrorRoom     \* LUAI_MAXCCALLS >> 3, kept for error handlers

ASSUME CallsAssumption ==
    /\ MainThread \in Thread
    /\ Userdata \in Nat
    /\ BasicCI \in Nat /\ BasicCI >= 1
    /\ MaxCalls \in Nat /\ MaxCalls > BasicCI
    /\ MaxCCalls \in Nat \ {0}
    /\ ErrorRoom \in Nat \ {0}

(* The C functions a program calls.  "c" stands for all that do nothing    *)
(* but call other functions; "xpcallnil" is xpcall with a handler that is  *)
(* not a function.                                                         *)
CFunction == {"c", "pcall", "xpcall", "xpcallnil", "load", "resume", "wrap", "yield"}

(* What they call in turn.                                                 *)
Callee == {"lua", "yield"}

VARIABLES th,      \* the fields of lua_State that calls use, by thread
          cstack,  \* activations of C functions, innermost last
          mode,    \* "run"; "error": in luaG_errormsg; "throw", "errerr": luaD_throw
          due,     \* userdata whose finalizer has not been called
          closing  \* lua_close: "open", "closing" or "closed"

vars == <<th, cstack, mode, due, closing>>

(* preinit_state and stack_init; fn: the function of a coroutine that was  *)
(* not started is on its stack.                                            *)
NewThread(fn) ==
    [ci |-> <<>>, size_ci |-> BasicCI, nCcalls |-> 0, baseCcalls |-> 0,
     status |-> "ok", errfunc |-> 0, allowhook |-> TRUE, errorJmp |-> 0, fn |-> fn]

Init ==
    /\ th = [t \in Thread |-> NewThread(FALSE)]
    /\ cstack = <<>>
    /\ mode = "run"
    /\ due = Userdata
    /\ closing = "open"

(***************************************************************************)
(* C code that makes several calls in a row works on a state               *)
(* [th, cs, mode].                                                         *)
(***************************************************************************)
Now == [th |-> th, cs |-> cstack, mode |-> mode]

Become(s) == th' = s.th /\ cstack' = s.cs /\ mode' = s.mode

Top == cstack[Len(cstack)]

Push(s, act) == [s EXCEPT !.cs = Append(@, act)]

Pop(s) == [s EXCEPT !.cs = SubSeq(@, 1, Len(@) - 1)]

PushFrame(s, t, f) == [s EXCEPT !.th[t].ci = Append(@, f)]

PopFrame(s, t) == [s EXCEPT !.th[t].ci = SubSeq(@, 1, Len(@) - 1)]

Raise(s) == [s EXCEPT !.mode = "error"]

ErrErr(s) == [s EXCEPT !.mode = "errerr"]

(* The C function on top of the stack is through with its call.            *)
Done(s) == [s EXCEPT !.cs[Len(s.cs)].st = "done"]

growCI(s, t) ==
    LET size == s.th[t].size_ci
        grown == [s EXCEPT !.th[t].size_ci = 2 * size]
    IN IF size > MaxCalls THEN ErrErr(s)
       ELSE IF 2 * size > MaxCalls THEN Raise(grown) ELSE grown

inc_ci(s, t, f) ==
    LET s1 == IF Len(s.th[t].ci) = s.th[t].size_ci - 1 THEN growCI(s, t) ELSE s
    IN IF s1.mode = "run" THEN PushFrame(s1, t, f) ELSE s1

(* Enter a function: a C function is called, luaV_execute has to be called *)
(* for a Lua function.                                                     *)
luaD_precall(s, t, f) ==
    LET s1 == inc_ci(s, t, f)
    IN IF s1.mode = "run" /\ f # "lua"
       THEN Push(s1, [k |-> "cfun", t |-> t, f |-> f, st |-> "start"]) ELSE s1

Execute(s, t, n) == Push(s, [k |-> "exec", t |-> t, n |-> n])

(* Mutant: a count that has reached the limit is past it.                  *)
luaD_callNoOverflow(s, t, f) ==
    LET n == s.th[t].nCcalls + 1
        s1 == Push([s EXCEPT !.th[t].nCcalls = n], [k |-> "call", t |-> t])
        s2 == luaD_precall(s1, t, f)
    IN IF n > MaxCCalls THEN ErrErr(s1)
       ELSE IF f = "lua" /\ s2.mode = "run" THEN Execute(s2, t, 1) ELSE s2

luaD_call(s, t, f) ==
    LET n == s.th[t].nCcalls + 1
        s1 == Push([s EXCEPT !.th[t].nCcalls = n], [k |-> "call", t |-> t])
        s2 == luaD_precall(s1, t, f)
    IN IF n = MaxCCalls THEN Raise(s1)
       ELSE IF n >= MaxCCalls + ErrorRoom THEN ErrErr(s1)
       ELSE IF f = "lua" /\ s2.mode = "run" THEN Execute(s2, t, 1) ELSE s2

(* luaD_rawrunprotected, with what its caller keeps to restore it.         *)
luaD_rawrunprotected(s, t, kind) ==
    LET l == s.th[t]
    IN [Push(s, [k |-> "try", t |-> t, kind |-> kind, previous |-> l.errorJmp,
                 old_ci |-> Len(l.ci), oldnCcalls |-> l.nCcalls,
                 old_allowhooks |-> l.allowhook, old_errfunc |-> l.errfunc])
        EXCEPT !.th[t].errorJmp = Len(s.cs) + 1]

luaD_pcall(s, t, ef) ==
    [luaD_rawrunprotected(s, t, "pcall") EXCEPT !.th[t].errfunc = ef]

restore_stack_limit(l) ==
    IF l.size_ci > MaxCalls /\ Len(l.ci) + 1 < MaxCalls
    THEN [l EXCEPT !.size_ci = MaxCalls] ELSE l

(***************************************************************************)
(* Lua code.                                                               *)
(***************************************************************************)
InLua == mode = "run" /\ cstack # <<>> /\ Top.k = "exec"

Reentry(s, d) == [s EXCEPT !.cs[Len(cstack)].n = @ + d]

OpCall ==
    /\ InLua
    /\ \E f \in CFunction \cup {"lua"} :
          LET s == luaD_precall(Now, Top.t, f)
          IN Become(IF f = "lua" /\ s.mode = "run" THEN Reentry(s, 1) ELSE s)
    /\ UNCHANGED <<due, closing>>

(* A tail call of a Lua function puts the new frame in place of the old.   *)
OpTailCall ==
    /\ InLua
    /\ LET s == luaD_precall(Now, Top.t, "lua")
       IN Become(IF s.mode = "run" THEN PopFrame(s, Top.t) ELSE s)
    /\ UNCHANGED <<due, closing>>

OpReturn ==
    /\ InLua
    /\ Become(IF Top.n = 1 THEN Pop(PopFrame(Now, Top.t))
              ELSE Reentry(PopFrame(Now, Top.t), -1))
    /\ UNCHANGED <<due, closing>>

(* A tag method, called from luaV_execute.                                 *)
OpMeta ==
    /\ InLua
    /\ \E f \in Callee : Become(luaD_call(Now, Top.t, f))
    /\ UNCHANGED <<due, closing>>

(***************************************************************************)
(* C functions.                                                            *)
(***************************************************************************)
InC(names) == mode = "run" /\ cstack # <<>> /\ Top.k = "cfun" /\ Top.f \in names

Starts(f) == InC({f}) /\ Top.st = "start"

CallFromC ==
    /\ Starts("c")
    /\ \E f \in CFunction \cup {"lua"} : Become(luaD_call(Now, Top.t, f))
    /\ UNCHANGED <<due, closing>>

luaB_pcall ==
    /\ Starts("pcall")
    /\ \E f \in Callee :
          Become(luaD_call(luaD_pcall(Now, Top.t, 0), Top.t, f))
    /\ UNCHANGED <<due, closing>>

(* The handler is found by its stack position: here that of its frame.     *)
luaB_xpcall ==
    /\ Starts("xpcall") \/ Starts("xpcallnil")
    /\ Become(luaD_call(luaD_pcall(Now, Top.t, Len(th[Top.t].ci)), Top.t, "lua"))
    /\ UNCHANGED <<due, closing>>

(* Mutant: the parser runs without the error function of its caller.       *)
luaD_protectedparserAlone ==
    /\ Starts("load")
    /\ Become(Push(luaD_pcall(Now, Top.t, 0),
                   [k |-> "parse", t |-> Top.t, level |-> 0]))
    /\ UNCHANGED <<due, closing>>

(* The parser keeps the error function of its caller.                      *)
luaD_protectedparser ==
    /\ Starts("load")
    /\ Become(Push(luaD_pcall(Now, Top.t, th[Top.t].errfunc),
                   [k |-> "parse", t |-> Top.t, level |-> 0]))
    /\ UNCHANGED <<due, closing>>

(* lua_error, luaL_error and luaG_runerror.                                *)
RaiseError ==
    /\ InLua \/ InC(CFunction)
    /\ Become(Raise(Now))
    /\ UNCHANGED <<due, closing>>

(* An allocation fails: no handler is called.                              *)
OutOfMemory ==
    /\ InLua \/ InC(CFunction)
    /\ Become([Now EXCEPT !.mode = "throw"])
    /\ UNCHANGED <<due, closing>>

(* A C function returns to luaD_precall.                                   *)
ReturnFromC ==
    /\ InC(CFunction)
    /\ Top.f = "c" \/ Top.st = "done"
    /\ Become(Pop(PopFrame(Now, Top.t)))
    /\ UNCHANGED <<due, closing>>

(* luaD_call after the function has returned.                              *)
luaD_callReturns ==
    /\ mode = "run" /\ cstack # <<>> /\ Top.k = "call"
    /\ Become([Pop(Now) EXCEPT !.th[Top.t].nCcalls = @ - 1])
    /\ UNCHANGED <<due, closing>>

(***************************************************************************)
(* The parser, and undump, which counts its levels alike.                  *)
(***************************************************************************)
InParser == mode = "run" /\ cstack # <<>> /\ Top.k = "parse"

Level(d) == [Now EXCEPT !.cs[Len(cstack)].level = @ + d, !.th[Top.t].nCcalls = @ + d]

enterlevel ==
    /\ InParser
    /\ Become([Level(1) EXCEPT !.mode =
                  IF th[Top.t].nCcalls + 1 > MaxCCalls THEN "throw" ELSE "run"])
    /\ UNCHANGED <<due, closing>>

leavelevel ==
    /\ InParser /\ Top.level > 0
    /\ Become(Level(-1))
    /\ UNCHANGED <<due, closing>>

(* luaZ_fill: the reader of load() calls a Lua function.                   *)
generic_reader ==
    /\ InParser
    /\ \E f \in Callee : Become(luaD_call(Now, Top.t, f))
    /\ UNCHANGED <<due, closing>>

SyntaxError ==
    /\ InParser
    /\ Become([Now EXCEPT !.mode = "throw"])
    /\ UNCHANGED <<due, closing>>

ParserReturns ==
    /\ InParser /\ Top.level = 0
    /\ Become(Pop(Now))
    /\ UNCHANGED <<due, closing>>

(***************************************************************************)
(* Hooks and finalizers, called in the middle of other code.               *)
(***************************************************************************)
luaD_callhook ==
    /\ InLua \/ Starts("c")
    /\ th[Top.t].allowhook
    /\ Become(luaD_call(Push([Now EXCEPT !.th[Top.t].allowhook = FALSE],
                             [k |-> "hook", t |-> Top.t]), Top.t, "lua"))
    /\ UNCHANGED <<due, closing>>

HookReturns ==
    /\ mode = "run" /\ cstack # <<>> /\ Top.k = "hook"
    /\ Become(Pop([Now EXCEPT !.th[Top.t].allowhook = TRUE]))
    /\ UNCHANGED <<due, closing>>

(* The userdata leaves tmudata before its finalizer is called.             *)
GCTM ==
    /\ \/ InLua \/ InParser
       \/ mode = "run" /\ cstack # <<>> /\ Top.k = "try" /\ Top.kind = "close"
    /\ due > 0
    /\ Become(luaD_call(Push([Now EXCEPT !.th[Top.t].allowhook = FALSE],
                             [k |-> "gctm", t |-> Top.t, oldah |-> th[Top.t].allowhook]),
                        Top.t, "lua"))
    /\ due' = due - 1
    /\ UNCHANGED closing

GCTMReturns ==
    /\ mode = "run" /\ cstack # <<>> /\ Top.k = "gctm"
    /\ Become(Pop([Now EXCEPT !.th[Top.t].allowhook = Top.oldah]))
    /\ UNCHANGED <<due, closing>>

(* Mutant: the CallInfos are halved whenever they are not all used.        *)
checkstacksizesTight(t) ==
    LET size == th[t].size_ci
    IN /\ InLua
       /\ size <= MaxCalls
       /\ Len(th[t].ci) + 1 < size
       /\ 2 * BasicCI < size
       /\ Become([Now EXCEPT !.th[t].size_ci = size \div 2])
       /\ UNCHANGED <<due, closing>>

(* The collector halves the CallInfos of a thread that uses few of them.   *)
checkstacksizes(t) ==
    LET size == th[t].size_ci
    IN /\ InLua
       /\ size <= MaxCalls
       /\ 4 * Len(th[t].ci) < size
       /\ 2 * BasicCI < size
       /\ Become([Now EXCEPT !.th[t].size_ci = size \div 2])
       /\ UNCHANGED <<due, closing>>

(***************************************************************************)
(* Errors.                                                                 *)
(***************************************************************************)
luaG_errormsg ==
    /\ mode = "error"
    /\ LET t == Top.t
           ef == th[t].errfunc
           s == [Now EXCEPT !.mode = "run"]
       IN IF ef = 0 THEN Become([Now EXCEPT !.mode = "throw"])
          ELSE IF th[t].ci[ef] = "xpcallnil" THEN Become(ErrErr(Now))
          ELSE Become(luaD_call(Push(s, [k |-> "errormsg", t |-> t]), t, "lua"))
    /\ UNCHANGED <<due, closing>>

HandlerReturns ==
    /\ mode = "run" /\ cstack # <<>> /\ Top.k = "errormsg"
    /\ Become([Now EXCEPT !.mode = "throw"])
    /\ UNCHANGED <<due, closing>>

(* Mutant: an error allows hooks again, as in resetstack.                  *)
CaughtByPcallAllowing(s, j) ==
    restore_stack_limit(
        [s EXCEPT !.ci = SubSeq(@, 1, j.old_ci), !.nCcalls = j.oldnCcalls,
                  !.allowhook = TRUE, !.errfunc = j.old_errfunc,
                  !.errorJmp = j.previous])

(* Mutant: the count of C calls is not put back.                           *)
CaughtByPcallCounting(s, j) ==
    restore_stack_limit(
        [s EXCEPT !.ci = SubSeq(@, 1, j.old_ci),
                  !.allowhook = j.old_allowhooks, !.errfunc = j.old_errfunc,
                  !.errorJmp = j.previous])

(* luaD_throw jumps to the innermost luaD_rawrunprotected of the thread:   *)
(* luaD_pcall puts the thread back to where it was.                        *)
CaughtByPcall(s, j) ==
    restore_stack_limit(
        [s EXCEPT !.ci = SubSeq(@, 1, j.old_ci), !.nCcalls = j.oldnCcalls,
                  !.allowhook = j.old_allowhooks, !.errfunc = j.old_errfunc,
                  !.errorJmp = j.previous])

(* lua_resume leaves the dead thread as it is.                             *)
CaughtByResume(l, j, code) ==
    [l EXCEPT !.status = code, !.nCcalls = @ - 1, !.errorJmp = j.previous]

(* lua_close calls the finalizers that are left, from the base level, and  *)
(* starts over when one of them raises an error.                           *)
CallAllGCTM(s) ==
    luaD_rawrunprotected(
        [s EXCEPT !.th[MainThread] =
            [@ EXCEPT !.ci = <<>>, !.nCcalls = 0, !.baseCcalls = 0]],
        MainThread, "close")

(* auxresume got an error: resume returns false, wrap raises it again.     *)
ResumeFailed(s) ==
    IF s.cs[Len(s.cs)].f = "wrap" THEN Raise(s) ELSE Done(s)

luaD_throw ==
    /\ mode \in {"throw", "errerr"}
    /\ LET t == Top.t
           j == cstack[th[t].errorJmp]
           s == [Now EXCEPT !.cs = SubSeq(@, 1, th[t].errorJmp - 1), !.mode = "run"]
       IN /\ th[t].errorJmp > 0
          /\ CASE j.kind = "pcall" ->
                    LET s1 == [s EXCEPT !.th[t] = CaughtByPcall(@, j)]
                    IN Become(IF s1.cs = <<>> THEN s1 ELSE Done(s1))
               [] j.kind = "resume" ->
                    Become(ResumeFailed([s EXCEPT !.th[t] = CaughtByResume(@, j, mode)]))
               [] j.kind = "close" ->
                    Become(CallAllGCTM([s EXCEPT !.th[t].errorJmp = j.previous]))
    /\ UNCHANGED <<due, closing>>

(* Mutant: the handler is taken off only by an error.                      *)
ProtectedReturnsKeeping ==
    /\ mode = "run" /\ cstack # <<>> /\ Top.k = "try" /\ Top.kind # "close"
    /\ IF Top.kind = "pcall"
       THEN LET s1 == [Pop(Now) EXCEPT !.th[Top.t].errfunc = Top.old_errfunc]
            IN Become(IF s1.cs = <<>> THEN s1 ELSE Done(s1))
       ELSE Become(Done([Pop(Now) EXCEPT !.th[Top.t].nCcalls = @ - 1]))
    /\ UNCHANGED <<due, closing>>

(* The protected code has returned normally to luaD_pcall or lua_resume.   *)
ProtectedReturns ==
    /\ mode = "run" /\ cstack # <<>> /\ Top.k = "try" /\ Top.kind # "close"
    /\ LET s == [Pop(Now) EXCEPT !.th[Top.t].errorJmp = Top.previous]
       IN IF Top.kind = "pcall"
          THEN LET s1 == [s EXCEPT !.th[Top.t].errfunc = Top.old_errfunc]
               IN Become(IF s1.cs = <<>> THEN s1 ELSE Done(s1))
          ELSE Become(Done([s EXCEPT !.th[Top.t].nCcalls = @ - 1]))
    /\ UNCHANGED <<due, closing>>

(***************************************************************************)
(* Coroutines.                                                             *)
(***************************************************************************)
costatus(t, c) ==
    IF t = c THEN "running"
    ELSE CASE th[c].status = "yield" -> "suspended"
           [] th[c].status = "ok" ->
                IF th[c].ci # <<>> THEN "normal"
                ELSE IF th[c].fn THEN "suspended" ELSE "dead"
           [] OTHER -> "dead"

(* A new thread takes the place of one that is dead.                       *)
luaB_cocreate(c) ==
    /\ Starts("c")
    /\ costatus(Top.t, c) = "dead"
    /\ Become([Now EXCEPT !.th[c] = NewThread(TRUE)])
    /\ UNCHANGED <<due, closing>>

(* Mutant: the frame of the C function that yielded is not taken off.      *)
ContinueInYield(s, c) ==
    IF s.th[c].status = "ok"
    THEN LET s1 == luaD_precall([s EXCEPT !.th[c].fn = FALSE], c, "lua")
         IN IF s1.mode = "run" THEN Execute(s1, c, 1) ELSE s1
    ELSE Execute([s EXCEPT !.th[c].status = "ok"], c, Len(s.th[c].ci))

(* The function resume() that lua_resume runs.                             *)
Continue(s, c) ==
    IF s.th[c].status = "ok"
    THEN LET s1 == luaD_precall([s EXCEPT !.th[c].fn = FALSE], c, "lua")
         IN IF s1.mode = "run" THEN Execute(s1, c, 1) ELSE s1
    ELSE LET s1 == PopFrame([s EXCEPT !.th[c].status = "ok"], c)
         IN Execute(s1, c, Len(s1.th[c].ci))

(* Mutant: the coroutine goes on counting where it was, without setlevel.  *)
lua_resumeOwnLevel(s, t, c) ==
    LET n == s.th[c].nCcalls
        s1 == [s EXCEPT !.th[c].nCcalls = n + 1, !.th[c].baseCcalls = n + 1]
    IN IF n >= MaxCCalls THEN ResumeFailed(s)
       ELSE Continue(luaD_rawrunprotected(s1, c, "resume"), c)

(* lua_setlevel and lua_resume.  resume_error overwrites what is above the *)
(* base of the frame: the function, when the coroutine was not started.    *)
lua_resume(s, t, c) ==
    LET n == s.th[t].nCcalls
        s1 == [s EXCEPT !.th[c].nCcalls = n + 1, !.th[c].baseCcalls = n + 1]
    IN IF \/ s.th[c].status # "yield" /\ (s.th[c].status # "ok" \/ s.th[c].ci # <<>>)
          \/ n >= MaxCCalls
       THEN ResumeFailed([s EXCEPT !.th[c].nCcalls = n,
                                   !.th[c].fn = @ /\ s.th[c].status = "yield"])
       ELSE Continue(luaD_rawrunprotected(s1, c, "resume"), c)

auxresume(c) ==
    /\ Starts("resume") \/ Starts("wrap")
    /\ Become(IF costatus(Top.t, c) # "suspended" THEN ResumeFailed(Now)
              ELSE lua_resume(Now, Top.t, c))
    /\ UNCHANGED <<due, closing>>

(* Mutant: one C call more is let through.                                 *)
lua_yieldAcross ==
    /\ Starts("yield")
    /\ LET t == Top.t
           s == Pop([Now EXCEPT !.th[t].status = "yield"])
       IN Become(IF th[t].nCcalls > th[t].baseCcalls + 1 THEN Raise(Now)
                 ELSE IF s.cs[Len(s.cs)].k = "exec" THEN Pop(s) ELSE s)
    /\ UNCHANGED <<due, closing>>

(* lua_yield: a yield returns from luaD_precall and luaV_execute without   *)
(* leaving the frame.                                                      *)
lua_yield ==
    /\ Starts("yield")
    /\ LET t == Top.t
           s == Pop([Now EXCEPT !.th[t].status = "yield"])
       IN Become(IF th[t].nCcalls > th[t].baseCcalls THEN Raise(Now)
                 ELSE IF s.cs[Len(s.cs)].k = "exec" THEN Pop(s) ELSE s)
    /\ UNCHANGED <<due, closing>>

(***************************************************************************)
(* The host program runs a chunk, and ends.                                *)
(***************************************************************************)
lua_cpcall ==
    /\ cstack = <<>> /\ closing = "open"
    /\ Become(luaD_call(luaD_pcall(Now, MainThread, 0), MainThread, "c"))
    /\ UNCHANGED <<due, closing>>

lua_close ==
    /\ cstack = <<>> /\ closing = "open"
    /\ Become(CallAllGCTM([Now EXCEPT !.th[MainThread].errfunc = 0]))
    /\ closing' = "closing"
    /\ UNCHANGED due

close_state ==
    /\ mode = "run" /\ cstack # <<>> /\ Top.k = "try" /\ Top.kind = "close"
    /\ due = 0
    /\ Become([Pop(Now) EXCEPT !.th[MainThread].errorJmp = Top.previous])
    /\ closing' = "closed"
    /\ UNCHANGED due

Next ==
    \/ OpCall \/ OpTailCall \/ OpReturn \/ OpMeta
    \/ CallFromC \/ luaB_pcall \/ luaB_xpcall \/ luaD_protectedparser
    \/ RaiseError \/ OutOfMemory \/ ReturnFromC \/ luaD_callReturns
    \/ enterlevel \/ leavelevel \/ generic_reader \/ SyntaxError \/ ParserReturns
    \/ luaD_callhook \/ HookReturns \/ GCTM \/ GCTMReturns
    \/ \E t \in Thread : checkstacksizes(t)
    \/ luaG_errormsg \/ HandlerReturns \/ luaD_throw \/ ProtectedReturns
    \/ \E c \in Thread \ {MainThread} : luaB_cocreate(c) \/ auxresume(c)
    \/ lua_yield
    \/ lua_cpcall \/ lua_close \/ close_state

Spec == Init /\ [][Next]_vars

(***************************************************************************)
(* Properties.                                                             *)
(***************************************************************************)
Sum(n, f(_)) ==
    LET S[i \in 0..n] == IF i = 0 THEN 0 ELSE S[i - 1] + f(i) IN S[n]

(* The threads that were resumed and have not come back, main first.       *)
Chain ==
    LET F[i \in 0..Len(cstack)] ==
          IF i = 0 THEN <<MainThread>>
          ELSE IF cstack[i].k = "try" /\ cstack[i].kind = "resume"
               THEN Append(F[i - 1], cstack[i].t) ELSE F[i - 1]
    IN F[Len(cstack)]

Live(t) ==
    \/ t = MainThread
    \/ \E i \in DOMAIN cstack :
          cstack[i].t = t /\ cstack[i].k = "try" /\ cstack[i].kind = "resume"

ActivationsOf(t) == {i \in DOMAIN cstack : cstack[i].t = t}

Last(S) == IF S = {} THEN 0 ELSE CHOOSE i \in S : \A j \in S : j <= i

InnermostTry(t) == Last({i \in ActivationsOf(t) : cstack[i].k = "try"})

(* Every field keeps its range, and no thread has more frames than its     *)
(* CallInfos have room for, also after they were halved, or put back to    *)
(* LUAI_MAXCALLS by restore_stack_limit.                                   *)
TypeOK ==
    /\ mode \in {"run", "error", "throw", "errerr"}
    /\ mode # "run" => cstack # <<>>
    /\ due \in 0..Userdata
    /\ closing \in {"open", "closing", "closed"}
    /\ \A i \in DOMAIN cstack : cstack[i].t \in Thread
    /\ \A t \in Thread :
          /\ th[t].ci \in Seq(CFunction \cup {"lua"})
          /\ Len(th[t].ci) < th[t].size_ci
          /\ th[t].status \in {"ok", "yield", "throw", "errerr"}
          /\ th[t].errfunc \in 0..Len(th[t].ci)

(* The C stack and the CallInfos tell the same story: luaV_execute runs as *)
(* many Lua frames as it believes it does, a C function has its frame, and *)
(* nothing but Lua frames is below the yield of a suspended coroutine.     *)
FramesOnCStack ==
    \A t \in Thread :
        LET part(a) == CASE a.t = t /\ a.k = "exec" -> [j \in 1..a.n |-> "lua"]
                         [] a.t = t /\ a.k = "cfun" -> <<a.f>>
                         [] OTHER -> <<>>
            F[i \in 0..Len(cstack)] == IF i = 0 THEN <<>> ELSE F[i - 1] \o part(cstack[i])
            n == Len(th[t].ci)
        IN IF Live(t) /\ th[t].status = "ok" THEN th[t].ci = F[Len(cstack)]
           ELSE th[t].status = "yield" =>
                  n > 1 /\ th[t].ci = [i \in 1..n |-> IF i = n THEN "yield" ELSE "lua"]

(* nCcalls of a thread counts the C calls of all the threads below it and  *)
(* its own, whatever errors were caught, and so bounds the depth of the C  *)
(* stack even in error handlers and in coroutines that resume each other.  *)
CallsCounted ==
    \A t \in {u \in Thread : Live(u)} :
        LET weight(i) == CASE cstack[i].k = "call" -> 1
                           [] cstack[i].k = "try" /\ cstack[i].kind = "resume" -> 1
                           [] cstack[i].k = "parse" -> cstack[i].level
                           [] OTHER -> 0
        IN /\ th[t].nCcalls = Sum(Last(ActivationsOf(t)), weight)
           /\ th[t].nCcalls <= MaxCCalls + ErrorRoom

(* errorJmp is the innermost handler of the thread: no longjmp into a      *)
(* function that has returned, and no exit() for want of a handler.        *)
JumpsToInnermost ==
    /\ \A t \in Thread : th[t].errorJmp = InnermostTry(t)
    /\ mode # "run" => th[Top.t].errorJmp # 0

(* The error function in force is that of the innermost protected call: an *)
(* error inside pcall never gets to the handler of an xpcall around it, an *)
(* error in the parser does, and a coroutine starts without one.           *)
HandlerOfInnermost ==
    \A t \in Thread :
        LET j == InnermostTry(t)
            caller == IF j > 1 /\ cstack[j - 1].k = "cfun" THEN cstack[j - 1].f ELSE "host"
        IN Live(t) \/ th[t].status \in {"ok", "yield"} =>
             th[t].errfunc = IF j = 0 THEN 0
                             ELSE CASE caller \in {"xpcall", "xpcallnil"} -> cstack[j].old_ci
                                    [] caller = "load" -> cstack[j].old_errfunc
                                    [] OTHER -> 0

(* A thread can call hooks except inside a hook or a finalizer, also after *)
(* an error has left one of them.  (lua_close does not turn them on again.)*)
HooksOffInside ==
    \A t \in Thread :
        (Live(t) \/ th[t].status \in {"ok", "yield"}) /\ (t # MainThread \/ closing = "open") =>
            th[t].allowhook = \A i \in ActivationsOf(t) : cstack[i].k \notin {"hook", "gctm"}

(* A protected call leaves the thread as it found it, however it ends:     *)
(* frames, count of C calls, hooks, error function and handler.            *)
ProtectedCallRestores ==
    [][\A j \in DOMAIN cstack :
          LET a == cstack[j]
          IN a.k = "try" /\ j > Len(cstack') /\ a.kind = "pcall" =>
               /\ Len(th'[a.t].ci) = a.old_ci
               /\ th'[a.t].nCcalls = a.oldnCcalls
               /\ th'[a.t].allowhook = a.old_allowhooks
               /\ th'[a.t].errfunc = a.old_errfunc
               /\ th'[a.t].errorJmp = a.previous]_vars

(* LUA_ERRERR, "error in error handling", is for an error while another is *)
(* being handled (ldo.c:58, 170, 375), but for C calls counted past the    *)
(* limit without luaD_call having met it, and reported an overflow: those  *)
(* of a coroutine that starts counting at LUAI_MAXCCALLS (lua_resume), and *)
(* those of a reader when the parser is nested that deeply (enterlevel);   *)
(* and for a thread with LUAI_MAXCALLS frames or more, which it can have   *)
(* after a call that deep has caught an overflow (restore_stack_limit).    *)
ErrErrInHandler ==
    mode = "errerr" =>
        \/ \E i \in DOMAIN cstack : cstack[i].k = "errormsg"
        \/ th[Top.t].errfunc > 0
        \/ th[Top.t].baseCcalls = MaxCCalls
        \/ \E i \in DOMAIN cstack : cstack[i].k = "parse" /\ cstack[i].level > 0
        \/ Len(th[Top.t].ci) >= MaxCalls

(* The machine implements what LuaCoroutines promises: frames that end in  *)
(* order, errors that go to the innermost protected call of the running    *)
(* coroutine, coroutines that are resumed once and come back in order.     *)
FramesFrom(t) ==
    [i \in DOMAIN th[t].ci |->
        IF th[t].ci[i] = "lua" THEN "lua"
        ELSE IF /\ th[t].ci[i] \in {"pcall", "xpcall", "xpcallnil", "load"}
                /\ \E j \in DOMAIN cstack :
                      /\ cstack[j].t = t
                      /\ cstack[j].k = "try" /\ cstack[j].kind = "pcall"
                      /\ cstack[j].old_ci = i
        THEN "guard" ELSE "c"]

StateFrom(t) ==
    IF Live(t) THEN "active"
    ELSE CASE th[t].status = "yield" -> "suspended"
           [] th[t].status = "ok" /\ th[t].fn -> "fresh"
           [] OTHER -> "dead"

Co == INSTANCE LuaCoroutines WITH
        frames <- [t \in Thread |-> FramesFrom(t)],
        state <- [t \in Thread |-> StateFrom(t)],
        chain <- Chain

ImplementsCoroutines == Co!CoSpec
=============================================================================
