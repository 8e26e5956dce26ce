-------------------------- MODULE TimeLoop_proofs --------------------------
(***************************************************************************)
(* How long TIME_LOOP lasts, and when run_per_x_seconds reports a period,  *)
(* for every width of the counter.                                         *)
(***************************************************************************)
EXTENDS EventLoop, TLAPS

\* A value below the modulus is its own remainder.
LEMMA OwnRemainder ==
  ASSUME NEW m \in Nat, NEW x \in Nat, x < m
  PROVE  x % m = x
  OBVIOUS

\* A remainder is below the modulus.
LEMMA RemainderRange ==
  ASSUME NEW m \in Nat, m > 0, NEW x \in Nat
  PROVE  x % m \in 0..m - 1
  OBVIOUS

\* What the assumption says of the numbers the steps use.
LEMMA Ticks ==
  /\ Modulus \in Nat /\ Modulus > 0
  /\ LoopTicks \in Nat /\ LoopTicks > 0 /\ LoopTicks < Modulus
  /\ \A n \in BodyTicks : n \in Nat /\ 0 < n /\ n < Modulus
  /\ \A n \in TurnTicks : n \in Nat /\ n < Modulus
  BY TicksAssumption

\* Ticks keep the types of the counter and of the history.
LEMMA TickType ==
  ASSUME TypeOK, NEW n \in Nat, Tick(n)
  PROVE  uwTick' \in 0..Modulus - 1 /\ elapsed' \in 0..MaxElapsed
  <1>1. uwTick \in Nat /\ elapsed \in Nat
    BY Ticks DEF TypeOK, MaxElapsed
  <1>2. uwTick' \in 0..Modulus - 1
    BY <1>1, Ticks, RemainderRange DEF Tick
  <1>3. elapsed' \in 0..MaxElapsed
    BY <1>1, Ticks DEF Tick, MaxElapsed
  <1> QED  BY <1>2, <1>3

LEMMA TypePreserved ==
  ASSUME TypeOK, [Next]_vars
  PROVE  TypeOK'
  <1>1. CASE \E n \in TurnTicks : Turn(n)
    <2>1. PICK n \in TurnTicks : Turn(n)  BY <1>1
    <2> QED  BY <2>1, TickType, Ticks DEF Turn, TypeOK, MaxElapsed
  <1>2. CASE Start
    <2>1. uwTick + LoopTicks \in Nat  BY Ticks DEF TypeOK
    <2>2. end_tick' \in 0..Modulus - 1
      BY <1>2, <2>1, Ticks, RemainderRange DEF Start, EndTick
    <2>3. 0 \in 0..MaxElapsed  BY Ticks DEF MaxElapsed
    <2> QED  BY <1>2, <2>2, <2>3 DEF Start, TypeOK, MaxElapsed
  <1>3. CASE \E n \in BodyTicks : Body(n)
    <2>1. PICK n \in BodyTicks : Body(n)  BY <1>3
    <2> QED  BY <2>1, TickType, Ticks DEF Body, TypeOK, MaxElapsed
  <1>4. CASE End
    BY <1>4 DEF End, TypeOK, MaxElapsed
  <1>5. CASE UNCHANGED vars
    BY <1>5 DEF vars, TypeOK, MaxElapsed
  <1> QED  BY <1>1, <1>2, <1>3, <1>4, <1>5 DEF Next

LEMMA InitType == Init => TypeOK
  BY Ticks DEF Init, TypeOK, MaxElapsed

\* The counter of TIME_LOOP is an unsigned int, for every modulus.
THEOREM TypeCorrect == Spec => []TypeOK
  <1>1. TypeOK /\ [Next]_vars => TypeOK'  BY TypePreserved
  <1> QED  BY <1>1, InitType, PTL DEF Spec

(***************************************************************************)
(* In a loop that the counter does not wrap in, it shows what has passed   *)
(* since TIME_LOOP_START.                                                  *)
(***************************************************************************)
Shown ==
  pc = "loop" /\ ~WrapsInLoop =>
    /\ uwTick + LoopTicks = end_tick + elapsed
    /\ AboutInTime

\* A turn that begins in time ends less than a turn later.
LEMMA TurnInTime ==
  ASSUME NEW n \in BodyTicks, elapsed \in Nat, elapsed < LoopTicks,
         elapsed' = elapsed + n
  PROVE  AboutInTime'
  <1>1. elapsed' < LoopTicks + n
    BY Ticks
  <1> QED BY <1>1, Zenon DEF AboutInTime

\* So is every time that is not over.
LEMMA EarlyInTime ==
  ASSUME elapsed' \in Nat, elapsed' < LoopTicks
  PROVE  AboutInTime'
  <1>1. PICK n \in BodyTicks : TRUE  BY TicksAssumption
  <1>2. elapsed' < LoopTicks + n  BY Ticks
  <1> QED BY <1>2, Zenon DEF AboutInTime

LEMMA InitShown == Init => Shown
  BY DEF Init, Shown

LEMMA ShownPreserved ==
  ASSUME TypeOK, Shown, [Next]_vars
  PROVE  Shown'
  <1> USE Ticks
  <1>1. CASE \E n \in TurnTicks : Turn(n)
    BY <1>1 DEF Turn, Shown
  <1>2. CASE Start
    <2> SUFFICES ASSUME ~WrapsInLoop'
                 PROVE  uwTick' + LoopTicks = end_tick' + elapsed' /\ AboutInTime'
      BY DEF Shown
    <2>1. end_tick' >= LoopTicks
      <3>1. PICK n \in BodyTicks : TRUE  BY TicksAssumption
      <3>2. end_tick' \in Nat  BY <1>2, TypePreserved DEF TypeOK
      <3> QED  BY <3>1, <3>2 DEF WrapsInLoop
    <2>2. uwTick \in Nat /\ uwTick < Modulus  BY DEF TypeOK
    <2>3. uwTick + LoopTicks < Modulus
      <3>1. SUFFICES ASSUME uwTick + LoopTicks >= Modulus  PROVE FALSE
        BY <2>2
      <3>2. (uwTick + LoopTicks) % Modulus = uwTick + LoopTicks - Modulus
        BY <2>2, <3>1
      <3> QED  BY <1>2, <2>1, <2>2, <3>2 DEF Start, EndTick
    <2>4. end_tick' = uwTick + LoopTicks
      BY <1>2, <2>2, <2>3, OwnRemainder DEF Start, EndTick
    <2>5. AboutInTime'
      BY <1>2, EarlyInTime DEF Start
    <2> QED  BY <1>2, <2>2, <2>4, <2>5 DEF Start
  <1>3. CASE \E n \in BodyTicks : Body(n)
    <2>1. PICK n \in BodyTicks : Body(n)  BY <1>3
    <2> SUFFICES ASSUME ~WrapsInLoop
                 PROVE  uwTick' + LoopTicks = end_tick + elapsed' /\ AboutInTime'
      BY <2>1 DEF Shown, Body, WrapsInLoop
    <2>2. /\ uwTick \in Nat /\ end_tick \in Nat /\ elapsed \in Nat
          /\ uwTick < end_tick /\ end_tick + n <= Modulus
      BY <2>1 DEF TypeOK, MaxElapsed, Body, Runs, WrapsInLoop
    <2>3. uwTick + LoopTicks = end_tick + elapsed
      BY <2>1 DEF Shown, Body
    <2>4. uwTick' = uwTick + n
      BY <2>1, <2>2, OwnRemainder DEF Body, Tick
    <2>5. elapsed < LoopTicks  BY <2>2, <2>3
    <2>6. elapsed' = elapsed + n
      BY <2>1, <2>2, <2>5 DEF Body, Tick, MaxElapsed
    <2>7. AboutInTime'
      BY <2>2, <2>5, <2>6, TurnInTime
    <2> QED  BY <2>2, <2>3, <2>4, <2>6, <2>7
  <1>4. CASE End
    BY <1>4 DEF End, Shown
  <1>5. CASE UNCHANGED vars
    BY <1>5 DEF vars, Shown, WrapsInLoop, AboutInTime
  <1> QED  BY <1>1, <1>2, <1>3, <1>4, <1>5 DEF Next

(***************************************************************************)
(* A TIME_LOOP that the counter does not wrap in lasts loop seconds, and   *)
(* less than a turn of its body more, for every modulus and every length   *)
(* of the loop and of its body (tick.h:21-27).                             *)
(***************************************************************************)
THEOREM LastsUnlessWrap == Spec => LoopLastsUnlessWrap
  <1>1. Init => TypeOK /\ Shown
    BY InitType, InitShown
  <1>2. TypeOK /\ Shown /\ [Next]_vars => (TypeOK /\ Shown)'
    BY TypePreserved, ShownPreserved
  <1>3. TypeOK /\ Shown /\ [Next]_vars =>
          [pc = "loop" /\ pc' = "main" /\ ~WrapsInLoop
             => elapsed >= LoopTicks /\ AboutInTime]_vars
    <2> SUFFICES ASSUME TypeOK, Shown, Next, pc = "loop", pc' = "main", ~WrapsInLoop
                 PROVE  elapsed >= LoopTicks /\ AboutInTime
      OBVIOUS
    <2>1. End
      BY DEF Next, Turn, Start, Body
    <2>2. uwTick \in Nat /\ end_tick \in Nat /\ elapsed \in Nat /\ uwTick >= end_tick
      BY <2>1, Ticks DEF TypeOK, MaxElapsed, End, Runs
    <2> QED  BY <2>2, Ticks DEF Shown
  <1> QED  BY <1>1, <1>2, <1>3, PTL DEF Spec, LoopLastsUnlessWrap

(***************************************************************************)
(* Any TIME_LOOP, also one that the counter wraps in.  TIME_LOOP_START may *)
(* wrap the sum: then the body is not run at all.  Otherwise the counter   *)
(* shows the time since, until the time is over.                           *)
(***************************************************************************)
NotRun == elapsed = 0 /\ end_tick < LoopTicks /\ end_tick < uwTick
Counted == uwTick + LoopTicks = end_tick + elapsed

\* The loop's states when the counter may also jump over the values past
\* end_tick, and when it may not.
LoopShown ==
  pc = "loop" =>
    /\ NotRun \/ Counted \/ elapsed >= LoopTicks
    /\ WideEnough => (NotRun \/ Counted) /\ AboutInTime

LEMMA LoopShownPreserved ==
  ASSUME TypeOK, LoopShown, [Next]_vars
  PROVE  LoopShown'
  <1> USE Ticks
  <1>1. CASE \E n \in TurnTicks : Turn(n)
    BY <1>1 DEF Turn, LoopShown
  <1>2. CASE Start
    <2>1. uwTick \in Nat /\ uwTick < Modulus /\ uwTick' = uwTick /\ elapsed' = 0
          /\ end_tick' = (uwTick + LoopTicks) % Modulus
      BY <1>2 DEF TypeOK, Start, EndTick
    <2>4. AboutInTime'
      BY <2>1, EarlyInTime
    <2>2. CASE uwTick + LoopTicks < Modulus
      <3>1. end_tick' = uwTick + LoopTicks
        BY <2>1, <2>2, OwnRemainder
      <3> QED BY <2>1, <2>4, <3>1 DEF LoopShown, Counted
    <2>3. CASE uwTick + LoopTicks >= Modulus
      <3>1. (uwTick + LoopTicks) % Modulus = uwTick + LoopTicks - Modulus
        BY <2>1, <2>3
      <3> QED BY <2>1, <2>3, <2>4, <3>1 DEF LoopShown, NotRun
    <2> QED BY <2>1, <2>2, <2>3
  <1>3. CASE \E n \in BodyTicks : Body(n)
    <2>1. PICK n \in BodyTicks : Body(n)  BY <1>3
    <2>2. /\ pc = "loop" /\ end_tick' = end_tick /\ uwTick < end_tick
          /\ uwTick \in Nat /\ end_tick \in Nat /\ elapsed \in Nat
          /\ end_tick < Modulus
          /\ n \in Nat /\ 0 < n /\ n < Modulus
      BY <2>1 DEF Body, Runs, TypeOK, MaxElapsed
    <2>3. WideEnough' <=> WideEnough
      BY <2>2 DEF WideEnough
    <2>4. elapsed' = (IF elapsed + n < MaxElapsed THEN elapsed + n ELSE MaxElapsed)
          /\ uwTick' = (uwTick + n) % Modulus
      BY <2>1 DEF Body, Tick
    <2>5. CASE ~Counted
      <3>1. elapsed >= LoopTicks /\ ~WideEnough
        BY <2>2, <2>5 DEF LoopShown, NotRun
      <3>2. elapsed' >= LoopTicks
        BY <2>2, <2>4, <3>1 DEF MaxElapsed
      <3> QED BY <2>3, <3>1, <3>2 DEF LoopShown
    <2>6. CASE Counted
      <3>1. elapsed < LoopTicks /\ elapsed' = elapsed + n
        BY <2>2, <2>4, <2>6 DEF Counted, MaxElapsed
      <3>2. AboutInTime'
        BY <2>2, <3>1, TurnInTime
      <3>3. CASE uwTick + n < Modulus
        <4>1. uwTick' = uwTick + n
          BY <2>2, <2>4, <3>3, OwnRemainder
        <4>2. Counted'
          BY <2>2, <2>6, <3>1, <4>1 DEF Counted
        <4> QED BY <3>2, <4>2 DEF LoopShown
      <3>4. CASE uwTick + n >= Modulus
        <4>1. ~WideEnough
          BY <2>2, <3>4 DEF WideEnough
        <4>2. elapsed' >= LoopTicks
          BY <2>2, <2>6, <3>1, <3>4 DEF Counted
        <4> QED BY <2>3, <4>1, <4>2 DEF LoopShown
      <3> QED BY <2>2, <3>3, <3>4
    <2> QED BY <2>5, <2>6
  <1>4. CASE End
    BY <1>4 DEF End, LoopShown
  <1>5. CASE UNCHANGED vars
    BY <1>5 DEF vars, LoopShown, NotRun, Counted, WideEnough, AboutInTime
  <1> QED  BY <1>1, <1>2, <1>3, <1>4, <1>5 DEF Next

LEMMA LoopInvariance == Spec => [](TypeOK /\ LoopShown)
  <1>1. Init => LoopShown
    BY DEF Init, LoopShown
  <1>2. TypeOK /\ LoopShown /\ [Next]_vars => (TypeOK /\ LoopShown)'
    BY TypePreserved, LoopShownPreserved
  <1> QED BY InitType, <1>1, <1>2, PTL DEF Spec

\* What remains of a loop: the ticks to end_tick.
Remaining == IF uwTick < end_tick THEN end_tick - uwTick ELSE 0

\* A loop is left at once or after its time, never in between.
NotCutShort == (elapsed = 0 /\ end_tick < LoopTicks) \/ elapsed >= LoopTicks

\* TIME_LOOP is never cut short: whenever the counter wraps, it lasts the loop
\* seconds at least, or (if the sum of TIME_LOOP_START wraps) is not run at all
\* (tick.h:21-27).  wiz_get_dhcp_ip's attempts have their time or none.
THEOREM LoopIsNotCutShort ==
  Spec => [][pc = "loop" /\ pc' = "main" => NotCutShort]_vars
  <1>1. TypeOK /\ LoopShown /\ [Next]_vars =>
          [pc = "loop" /\ pc' = "main" => NotCutShort]_vars
    <2> SUFFICES ASSUME TypeOK, LoopShown, Next, pc = "loop", pc' = "main"
                 PROVE  NotCutShort
      OBVIOUS
    <2>1. End
      BY DEF Next, Turn, Start, Body
    <2>2. uwTick \in Nat /\ end_tick \in Nat /\ elapsed \in Nat /\ uwTick >= end_tick
      BY <2>1, Ticks DEF TypeOK, MaxElapsed, End, Runs
    <2> QED  BY <2>2, Ticks DEF LoopShown, NotRun, Counted, NotCutShort
  <1> QED  BY <1>1, LoopInvariance, PTL DEF Spec

\* Where a turn of the body fits between end_tick and the wrap, TIME_LOOP is
\* never longer than its time and less than a turn of the body, and every turn
\* brings the end nearer: it takes LoopTicks turns at most.  (That it is left,
\* then, is fairness: LoopEndsIfWide.)
THEOREM WideLoopIsBounded ==
  Spec => /\ [](pc = "loop" /\ WideEnough => AboutInTime)
          /\ [][pc = "loop" /\ WideEnough /\ pc' = "loop"
                  => Remaining' \in Nat /\ Remaining' < Remaining]_vars
  <1>1. TypeOK /\ LoopShown =>
          (pc = "loop" /\ WideEnough => AboutInTime)
    BY DEF LoopShown
  <1>2. TypeOK /\ LoopShown /\ [Next]_vars =>
          [pc = "loop" /\ WideEnough /\ pc' = "loop"
             => Remaining' \in Nat /\ Remaining' < Remaining]_vars
    <2> SUFFICES ASSUME TypeOK, Next, pc = "loop", WideEnough, pc' = "loop"
                 PROVE  Remaining' \in Nat /\ Remaining' < Remaining
      OBVIOUS
    <2>1. PICK n \in BodyTicks : Body(n)
      BY DEF Next, Turn, Start, End
    <2>2. /\ uwTick \in Nat /\ end_tick \in Nat /\ uwTick < end_tick
          /\ n \in Nat /\ 0 < n /\ end_tick' = end_tick
          /\ end_tick + n <= Modulus /\ Modulus \in Nat
      BY <2>1, Ticks DEF TypeOK, Body, Runs, WideEnough
    <2>3. uwTick' = uwTick + n
      BY <2>1, <2>2, OwnRemainder DEF Body, Tick
    <2> QED BY <2>2, <2>3 DEF Remaining
  <1> QED  BY <1>1, <1>2, LoopInvariance, PTL DEF Spec

(***************************************************************************)
(* The event loop: TIME_LOOP's steps and calls of run_per_x_seconds.  What *)
(* prev_tick is behind the counter is what has passed since it was set, a  *)
(* wrap counted, as long as that is less than a round of the counter.      *)
(***************************************************************************)
LEMMA EventStep == [EventNext]_eventVars => [Next]_vars
  BY DEF EventNext, eventVars, Short, Ask, Attempt, Return, run_per_x_seconds,
         Next

EventType ==
  prev_tick \in 0..Modulus - 1 /\ since \in Nat /\ wrapped \in BOOLEAN

Behind ==
  prev_tick # 0 /\ since < Modulus =>
    \/ ~wrapped /\ uwTick = prev_tick + since
    \/ wrapped /\ uwTick = prev_tick + since - Modulus

EventInv == TypeOK /\ EventType /\ Behind

LEMMA EventInitHolds == EventInit => EventInv
  <1> SUFFICES ASSUME EventInit PROVE EventInv
    OBVIOUS
  <1>1. TypeOK
    BY InitType DEF EventInit
  <1>2. EventType
    <2>1. prev_tick \in 0..Modulus - 1 /\ since \in Nat
      BY Ticks DEF EventInit
    <2>2. wrapped \in BOOLEAN
      BY Zenon DEF EventInit
    <2> QED BY <2>1, <2>2 DEF EventType
  <1>3. Behind
    BY DEF EventInit, Behind
  <1> QED BY <1>1, <1>2, <1>3 DEF EventInv

\* n ticks pass and prev_tick stays.
LEMMA TicksKeepBehind ==
  ASSUME EventInv, NEW n \in Nat, n < Modulus, Tick(n), Since(n)
  PROVE  EventType' /\ Behind'
  <1>1. /\ uwTick \in Nat /\ uwTick < Modulus /\ since \in Nat
        /\ prev_tick \in Nat /\ prev_tick < Modulus
        /\ Modulus \in Nat /\ Modulus > 0
    BY Ticks DEF EventInv, EventType, TypeOK
  <1>2. uwTick' = IF uwTick + n >= Modulus THEN uwTick + n - Modulus ELSE uwTick + n
    <2>1. uwTick' = (uwTick + n) % Modulus
      BY DEF Tick
    <2>2. CASE uwTick + n < Modulus
      BY <1>1, <2>1, <2>2, OwnRemainder
    <2>3. CASE uwTick + n >= Modulus
      <3>1. (uwTick + n) % Modulus = uwTick + n - Modulus
        BY <1>1, <2>3
      <3> QED BY <2>1, <2>3, <3>1
    <2> QED BY <1>1, <2>2, <2>3
  <1>3. since' \in Nat /\ (since' < Modulus => since' = since + n)
    BY <1>1 DEF Since, MaxElapsed
  <1>4. wrapped' \in BOOLEAN
    BY Zenon DEF Since
  <1>5. prev_tick' = prev_tick
    BY DEF Since, periodic
  <1>6. EventType'
    BY <1>3, <1>4, <1>5 DEF EventInv, EventType
  <1>7. ASSUME prev_tick # 0, since' < Modulus
        PROVE  \/ ~wrapped' /\ uwTick' = prev_tick + since'
               \/ wrapped' /\ uwTick' = prev_tick + since' - Modulus
    <2>1. since' = since + n /\ since < Modulus
      BY <1>1, <1>3, <1>7
    <2>2. CASE wrapped
      <3>1. uwTick = prev_tick + since - Modulus /\ wrapped'
        BY <1>7, <2>1, <2>2 DEF EventInv, Behind, Since
      <3>2. uwTick' = uwTick + n
        BY <1>1, <1>2, <1>7, <2>1, <3>1
      <3> QED BY <1>1, <2>1, <3>1, <3>2
    <2>3. CASE ~wrapped
      <3>1. uwTick = prev_tick + since
        BY <1>7, <2>1, <2>3 DEF EventInv, Behind
      <3>2. wrapped' <=> uwTick + n >= Modulus
        BY <2>3 DEF Since
      <3> QED BY <1>1, <1>2, <2>1, <3>1, <3>2
    <2> QED BY <2>2, <2>3
  <1> QED BY <1>5, <1>6, <1>7 DEF Behind

LEMMA EventInvKept == EventInv /\ [EventNext]_eventVars => EventInv'
  <1> SUFFICES ASSUME EventInv, [EventNext]_eventVars PROVE EventInv'
    OBVIOUS
  <1>1. TypeOK'
    BY EventStep, TypePreserved DEF EventInv
  <1>2. CASE \E n \in TurnTicks : Short(n)
    <2>1. PICK n \in TurnTicks : Short(n)
      BY <1>2
    <2>2. n \in Nat /\ n < Modulus
      BY TicksAssumption
    <2> QED BY <1>1, <2>1, <2>2, TicksKeepBehind DEF Short, Turn, EventInv
  <1>3. CASE \E n \in BodyTicks : Attempt(n)
    <2>1. PICK n \in BodyTicks : Attempt(n)
      BY <1>3
    <2>2. n \in Nat /\ n < Modulus
      BY TicksAssumption
    <2> QED BY <1>1, <2>1, <2>2, TicksKeepBehind DEF Attempt, Body, EventInv
  <1>4. CASE Ask \/ Return \/ UNCHANGED eventVars
    <2>1. UNCHANGED <<uwTick, periodic, since, wrapped>>
      BY <1>4 DEF Ask, Start, Return, End, eventVars, vars
    <2> QED BY <1>1, <2>1 DEF EventInv, EventType, Behind, periodic
  <1>5. CASE run_per_x_seconds
    <2>1. uwTick' = uwTick /\ uwTick \in 0..Modulus - 1
      BY <1>5 DEF run_per_x_seconds, vars, EventInv, TypeOK
    <2>2. CASE Unset \/ Overflowed \/ Passed
      <3>1. prev_tick' = uwTick /\ since' = 0 /\ wrapped' = FALSE
        BY <1>5, <2>2 DEF run_per_x_seconds, Remembered
      <3>2. EventType'
        BY <2>1, <3>1 DEF EventType
      <3>3. Behind'
        BY <2>1, <3>1 DEF Behind
      <3> QED BY <1>1, <3>2, <3>3 DEF EventInv
    <2>3. CASE ~(Unset \/ Overflowed \/ Passed)
      <3>1. UNCHANGED <<prev_tick, since, wrapped>>
        BY <1>5, <2>3 DEF run_per_x_seconds, Remembered
      <3> QED BY <1>1, <2>1, <3>1 DEF EventInv, EventType, Behind
    <2> QED BY <2>2, <2>3
  <1> QED BY <1>2, <1>3, <1>4, <1>5 DEF EventNext

LEMMA EventInvariance == EventSpec => []EventInv
  BY EventInitHolds, EventInvKept, PTL DEF EventSpec

\* The step that ends a call is run_per_x_seconds.
LEMMA CallStep ==
  ASSUME [EventNext]_eventVars, due, ~due'
  PROVE  run_per_x_seconds
  BY DEF EventNext, Short, Ask, Attempt, Return, eventVars

\* The two ways in which the period can be over, without remainders.
LEMMA PassedMeans ==
  ASSUME EventInv, ~Overflowed
  PROVE  Passed <=> uwTick - prev_tick >= Period
  <1>1. /\ uwTick \in Nat /\ uwTick < Modulus
        /\ prev_tick \in Nat /\ prev_tick <= uwTick /\ Modulus \in Nat
    BY Ticks DEF EventInv, EventType, TypeOK, Overflowed
  <1>2. (uwTick - prev_tick) % Modulus = uwTick - prev_tick
    BY <1>1, OwnRemainder
  <1> QED BY <1>2 DEF Passed

\* run_per_x_seconds reports a period that is over at the first call after it,
\* for every width of the counter and every period: the comparison of prev_tick
\* with the counter makes up for the wrap (tick.c:33-37).
THEOREM ReportsAreInTime == EventSpec => ReportsInTime
  <1> DEFINE Step == due /\ ~due' /\ prev_tick # 0 /\ since \in Period..Modulus - 1
                       => ret' = 1
  <1>1. EventInv /\ [EventNext]_eventVars => [Step]_eventVars
    <2> SUFFICES ASSUME EventInv, [EventNext]_eventVars, due, ~due', prev_tick # 0,
                        since \in Period..Modulus - 1
                 PROVE  ret' = 1
      OBVIOUS
    <2>1. run_per_x_seconds
      BY CallStep
    <2>2. Reports
      <3>1. CASE wrapped
        <4>1. uwTick = prev_tick + since - Modulus
          BY <3>1, Ticks DEF EventInv, Behind
        <4>2. prev_tick > uwTick
          BY <4>1, Ticks DEF EventInv, EventType
        <4> QED BY <4>2 DEF Reports, Unset, Overflowed
      <3>2. CASE ~wrapped
        <4>1. uwTick = prev_tick + since
          BY <3>2, Ticks DEF EventInv, Behind
        <4>2. ~Overflowed /\ uwTick - prev_tick >= Period
          BY <4>1, PeriodAssumption, Ticks DEF EventInv, EventType, Overflowed
        <4> QED BY <4>2, PassedMeans DEF Reports, Unset
      <3> QED BY <3>1, <3>2
    <2> QED BY <2>1, <2>2 DEF run_per_x_seconds
  <1> QED BY <1>1, EventInvariance, PTL DEF EventSpec, ReportsInTime

\* It reports no period before it is over, unless the counter has wrapped in it.
THEOREM ReportsAreNotEarly == EventSpec => ReportsNotEarly
  <1> DEFINE Step == due /\ ~due' /\ ret' = 1 => since >= Period \/ wrapped
  <1>1. EventInv /\ [EventNext]_eventVars => [Step]_eventVars
    <2> SUFFICES ASSUME EventInv, [EventNext]_eventVars, due, ~due', ret' = 1,
                        ~wrapped, since < Period
                 PROVE  FALSE
      BY PeriodAssumption DEF EventInv, EventType
    <2>1. Reports
      <3>1. run_per_x_seconds
        BY CallStep
      <3> QED BY <3>1 DEF run_per_x_seconds
    <2>2. uwTick = prev_tick + since
      BY <2>1, PeriodAssumption, Ticks DEF EventInv, EventType, Behind, Reports, Unset
    <2>3. ~Overflowed
      BY <2>2 DEF Overflowed, EventInv, EventType
    <2>4. uwTick - prev_tick >= Period
      BY <2>1, <2>3, PassedMeans DEF Reports
    <2> QED BY <2>2, <2>4, PeriodAssumption, Ticks DEF EventInv, EventType
  <1> QED BY <1>1, EventInvariance, PTL DEF EventSpec, ReportsNotEarly
=============================================================================
