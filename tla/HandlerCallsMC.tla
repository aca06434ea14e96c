--------------------------- MODULE HandlerCallsMC ---------------------------
(* Two consume loops, ordinary functions and a coroutine on two threads,   *)
(* for TLC.                                                                *)
EXTENDS HandlerCalls

CONSTANTS l1, l2, f1, f2, f3, g1

TwoLoops == {l1, l2}
FourIds == {f1, f2, f3, g1}
ThreeFunctions == {f1, f2, f3}
=============================================================================
