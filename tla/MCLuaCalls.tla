----------------------------- MODULE MCLuaCalls -----------------------------
EXTENDS LuaCalls, TLC

CONSTANTS main, co1

(* The deepest C stack and the most frames, in all threads, to explore.    *)
CONSTANTS MaxActivations, MaxFrames

Bounded ==
    /\ Len(cstack) <= MaxActivations
    /\ Len(th[main].ci) + Len(th[co1].ci) <= MaxFrames
=============================================================================
