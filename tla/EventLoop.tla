----------------------------- MODULE EventLoop -----------------------------
(***************************************************************************)
(* event_loop (tester/event_loop.c): turns of comm_handler, which may ask  *)
(* for DHCP and then stays in TIME_LOOP, and after each a call of          *)
(* run_per_x_seconds (support/tick.c), which tells once in a period that   *)
(* it is over.  It remembers a tick, for which 0 means none, and compares  *)
(* it with a counter that wraps.                                           *)
(***************************************************************************)
EXTENDS TimeLoop

CONSTANT Period     \* second * tick_per_second

ASSUME PeriodAssumption == Period \in 1..Modulus - 1

VARIABLES
  due,              \* comm_handler has returned: run_per_x_seconds is called
  prev_tick,        \* event_loop's local prev_tick
  ret,              \* last result of run_per_x_seconds
  since,            \* history: ticks since prev_tick was set
  wrapped           \* history: the counter has wrapped since

periodic == <<prev_tick, ret>>
eventVars == <<vars, due, periodic, since, wrapped>>

EventInit ==
  /\ Init
  /\ due = FALSE /\ prev_tick = 0 /\ ret = 0
  /\ since = 0 /\ wrapped = FALSE

\* n ticks pass after prev_tick was set.
Since(n) ==
  /\ since' = IF since + n < MaxElapsed THEN since + n ELSE MaxElapsed
  /\ wrapped' = (wrapped \/ uwTick + n >= Modulus)
  /\ UNCHANGED periodic

\* A turn up to the call: HAL_Delay, and comm_handler that does not ask for
\* DHCP, but may wait for as long as "ew delay N" says or a peer takes to read;
\* or comm_handler that does.
Short(n) == ~due /\ Turn(n) /\ Since(n) /\ due' = TRUE
Ask == ~due /\ Start /\ UNCHANGED <<due, periodic, since, wrapped>>
Attempt(n) == Body(n) /\ Since(n) /\ UNCHANGED due
Return == End /\ due' = TRUE /\ UNCHANGED <<periodic, since, wrapped>>

(***************************************************************************)
(* run_per_x_seconds.                                                      *)
(***************************************************************************)
Unset == prev_tick = 0
Overflowed == prev_tick > uwTick

\* The difference of two unsigned numbers.
Passed == (uwTick - prev_tick) % Modulus >= Period

\* Mutant of Reports: after a wrap the period begins anew.
ReportsNoOverflow == ~Unset /\ ~Overflowed /\ Passed

Reports == ~Unset /\ (Overflowed \/ Passed)

\* Mutant of Remembered: prev_tick is set only once.
RememberedOnce == IF Unset THEN uwTick ELSE prev_tick

Remembered == IF Unset \/ Overflowed \/ Passed THEN uwTick ELSE prev_tick

run_per_x_seconds ==
  /\ due /\ due' = FALSE
  /\ ret' = IF Reports THEN 1 ELSE 0
  /\ prev_tick' = Remembered
  /\ IF Unset \/ Overflowed \/ Passed
     THEN since' = 0 /\ wrapped' = FALSE
     ELSE UNCHANGED <<since, wrapped>>
  /\ UNCHANGED vars

EventNext ==
  \/ \E n \in TurnTicks : Short(n)
  \/ Ask
  \/ \E n \in BodyTicks : Attempt(n)
  \/ Return
  \/ run_per_x_seconds

\* The body of TIME_LOOP returns, and the processor goes on.
EventSpec ==
  /\ EventInit /\ [][EventNext]_eventVars
  /\ WF_eventVars(\E n \in BodyTicks : Attempt(n)) /\ WF_eventVars(Return)

(***************************************************************************)
(* Properties.                                                             *)
(***************************************************************************)
\* A call that finds the period over since the last report says so, whether
\* the counter has wrapped in between or not, unless prev_tick is the 0 that
\* stands for none (then the period begins anew) or a turn was so long that a
\* whole round of the counter has passed before the call.
ReportsInTime ==
  [][due /\ ~due' /\ prev_tick # 0 /\ since \in Period..Modulus - 1
       => ret' = 1]_eventVars

\* "1 at the moment that x seconds are over" (tick.c:17): no report comes before
\* the period is over, except one when the counter wraps in it.
ReportsNotEarly ==
  [][due /\ ~due' /\ ret' = 1 => since >= Period \/ wrapped]_eventVars
==============================================================================
