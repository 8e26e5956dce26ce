------------------------------ MODULE TimeLoop ------------------------------
(***************************************************************************)
(* TIME_LOOP (support/tick.h) as wiz_get_dhcp_ip uses it: run the body for *)
(* a number of seconds by comparing uwTick, an unsigned counter of         *)
(* milliseconds that wraps, with the value it should have at the end.  The *)
(* body ends in HAL_Delay, so that the comparison only sees every          *)
(* hundredth tick or so.                                                   *)
(***************************************************************************)
EXTENDS Integers

CONSTANTS
  Modulus,          \* the counter counts modulo 2^32
  LoopTicks,        \* loop_seconds * TICKS_PER_SECOND
  BodyTicks,        \* ticks the body may take, HAL_Delay included
  TurnTicks         \* ticks a turn of the main loop may take: "ew delay N" and
                    \* a wiz_sendb that waits make it longer than LoopTicks

ASSUME TicksAssumption ==
  /\ Modulus \in Nat /\ LoopTicks \in 1..Modulus - 1
  /\ BodyTicks # {} /\ BodyTicks \subseteq 1..Modulus - 1
  /\ TurnTicks \subseteq 0..Modulus - 1

VARIABLES
  uwTick,           \* the counter
  pc,               \* in the main loop, or in TIME_LOOP
  end_tick,         \* TIME_LOOP's local end_tick
  elapsed           \* history: ticks since TIME_LOOP_START

vars == <<uwTick, pc, end_tick, elapsed>>

MaxElapsed == 2 * Modulus       \* bound: elapsed is not counted further

\* n ticks pass.
Tick(n) ==
  /\ uwTick' = (uwTick + n) % Modulus
  /\ elapsed' = IF elapsed + n < MaxElapsed THEN elapsed + n ELSE MaxElapsed

Init == uwTick = 0 /\ pc = "main" /\ end_tick = 0 /\ elapsed = 0

\* A turn of event_loop that does not ask for DHCP.
Turn(n) ==
  /\ pc = "main"
  /\ Tick(n)
  /\ UNCHANGED <<pc, end_tick>>

\* Mutant of EndTick: a sum that does not wrap.
EndTickUnwrapped == uwTick + LoopTicks

EndTick == (uwTick + LoopTicks) % Modulus

Start ==
  /\ pc = "main"
  /\ pc' = "loop"
  /\ end_tick' = EndTick
  /\ elapsed' = 0
  /\ UNCHANGED uwTick

\* Mutants of Runs: the loop ends only at the very tick; it ends a tick late.
RunsUntilEqual == uwTick # end_tick
RunsAtEnd == uwTick <= end_tick

\* The condition of the loop.
Runs == uwTick < end_tick

Body(n) ==
  /\ pc = "loop" /\ Runs
  /\ Tick(n)
  /\ UNCHANGED <<pc, end_tick>>

End ==
  /\ pc = "loop" /\ ~Runs
  /\ pc' = "main"
  /\ UNCHANGED <<uwTick, end_tick, elapsed>>

Next ==
  \/ \E n \in TurnTicks : Turn(n)
  \/ Start
  \/ \E n \in BodyTicks : Body(n)
  \/ End

Spec == Init /\ [][Next]_vars

\* The body returns, and the processor goes on.
Fairness == WF_vars(\E n \in BodyTicks : Body(n)) /\ WF_vars(End)

FairSpec == Spec /\ Fairness

-----------------------------------------------------------------------------
(***************************************************************************)
(* Properties.                                                             *)
(***************************************************************************)

\* The counter and end_tick are unsigned int, whatever TIME_LOOP_START adds.
TypeOK ==
  /\ uwTick \in 0..Modulus - 1
  /\ pc \in {"main", "loop"}
  /\ end_tick \in 0..Modulus - 1
  /\ elapsed \in 0..MaxElapsed

\* The counter may wrap before, or in, the turn in which the time is over.
WrapsInLoop == \E n \in BodyTicks : end_tick < LoopTicks \/ end_tick + n > Modulus

\* Less than one turn of the body more than the time.
AboutInTime == \E n \in BodyTicks : elapsed < LoopTicks + n

\* When it does not, TIME_LOOP lasts "loop seconds" (tick.h:20) and is left at
\* the first look at the counter after them, less than one turn of the body later.
LoopLastsUnlessWrap ==
  [][pc = "loop" /\ pc' = "main" /\ ~WrapsInLoop
       => elapsed >= LoopTicks /\ AboutInTime]_vars

\* "loop seconds" (tick.h:20): TIME_LOOP, and with it comm_handler, returns.
LoopEnds == pc = "loop" ~> pc = "main"

\* There is a full turn of the body between end_tick and the wrap.
WideEnough == \A n \in BodyTicks : end_tick + n <= Modulus

\* Then the comparison sees a value past end_tick, and TIME_LOOP returns.
LoopEndsIfWide == pc = "loop" /\ WideEnough ~> pc = "main"
=============================================================================
