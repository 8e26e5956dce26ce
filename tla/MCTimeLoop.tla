---------------------------- MODULE MCTimeLoop ----------------------------
(* A counter of 32 ticks, a loop of 10, a period of 20 and turns of the main *)
(* loop that may be longer than both.                                        *)
EXTENDS EventLoop

MCBodyTicks == {3, 4}
MCTurnTicks == {0, 1, 25}
=============================================================================
