---------------------------- MODULE LuaCoroutines ----------------------------
(***************************************************************************)
(* What calls, errors and coroutines mean to a program, without C stack,   *)
(* long jumps and counters: every coroutine has its call frames, the       *)
(* resumed coroutines form a chain whose last member runs, an error goes   *)
(* to the innermost protected call of the running coroutine or kills it,   *)
(* and a coroutine yields only when all that is in between is Lua code.    *)
(***************************************************************************)
EXTENDS Integers, Sequences

CONSTANTS Thread, MainThread

VARIABLES frames,  \* of every thread, innermost last: "lua", "c" or "guard",
                   \* a C function that is in the middle of a protected call
          state,   \* "dead", "fresh", "suspended" or "active"
          chain    \* the resumed threads, the running one last

coVars == <<frames, state, chain>>

running == chain[Len(chain)]

CoInit ==
    /\ frames = [c \in Thread |-> <<>>]
    /\ state = [c \in Thread |-> IF c = MainThread THEN "active" ELSE "dead"]
    /\ chain = <<MainThread>>

Below(f) == SubSeq(f, 1, Len(f) - 1)

Ends(f, kind) == f # <<>> /\ f[Len(f)] = kind

Unprotected(f) == \A i \in DOMAIN f : f[i] # "guard"

(* What a step of the running thread makes of its frames f.                *)
Enter(f) == {f, Append(f, "lua"), Append(f, "c")}

Leave(f) == IF f = <<>> THEN {} ELSE {Below(f)}

(* A C function calls another function in protected mode, and gets back.   *)
Protect(f) == IF Ends(f, "c") THEN Enter(Append(Below(f), "guard")) ELSE {}

EndProtect(f) == IF Ends(f, "guard") THEN {Append(Below(f), "c")} ELSE {}

(* An error: the frames above the innermost protected call go away.  The   *)
(* host protects whatever it calls in the main thread.                     *)
Catch(f) ==
    {Append(SubSeq(f, 1, n - 1), "c") : n \in
        {i \in DOMAIN f : f[i] = "guard" /\ Unprotected(SubSeq(f, i + 1, Len(f)))}}
    \cup IF running = MainThread /\ Unprotected(f) THEN {<<>>} ELSE {}

Run ==
    /\ UNCHANGED <<state, chain>>
    /\ \E f \in {frames[running]} :
          \E g \in Enter(f) \cup Leave(f) \cup Protect(f) \cup EndProtect(f) \cup Catch(f) :
             frames' = [frames EXCEPT ![running] = g]

LeaveThread(s) ==
    /\ running # MainThread
    /\ state' = [state EXCEPT ![running] = s]
    /\ chain' = Below(chain)
    /\ UNCHANGED frames

Kill == Unprotected(frames[running]) /\ LeaveThread("dead")

Finish == frames[running] = <<>> /\ LeaveThread("dead")

Yield ==
    /\ Ends(frames[running], "c")
    /\ \A i \in 1..(Len(frames[running]) - 1) : frames[running][i] = "lua"
    /\ LeaveThread("suspended")

Resume(c) ==
    /\ state[c] \in {"fresh", "suspended"}
    /\ frames' = [frames EXCEPT ![c] = IF state[c] = "fresh" THEN <<"lua">>
                                       ELSE Below(@)]
    /\ state' = [state EXCEPT ![c] = "active"]
    /\ chain' = Append(chain, c)

Create(c) ==
    /\ state[c] = "dead"
    /\ frames' = [frames EXCEPT ![c] = <<>>]
    /\ state' = [state EXCEPT ![c] = "fresh"]
    /\ UNCHANGED chain

(* The C stack has no room for another coroutine: a fresh one is lost.     *)
Lose(c) ==
    /\ state[c] = "fresh"
    /\ state' = [state EXCEPT ![c] = "dead"]
    /\ UNCHANGED <<frames, chain>>

CoNext ==
    \/ Run
    \/ Kill \/ Finish \/ Yield
    \/ \E c \in Thread \ {MainThread} : Resume(c) \/ Create(c) \/ Lose(c)

CoSpec == CoInit /\ [][CoNext]_coVars
=============================================================================
