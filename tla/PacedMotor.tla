----------------------------- MODULE PacedMotor -----------------------------
(***************************************************************************)
(* A servo under the pace of loop(): update() is called at least once in   *)
(* every MaxGap milliseconds.  Whether the servo gets anywhere depends on  *)
(* it: after the clock has wrapped, a pending deadline near its end passes *)
(* the guard of update() only in the few milliseconds before the next      *)
(* wrap, and a loop that always misses them never moves the servo.         *)
(***************************************************************************)
EXTENDS TrackingMotors

CONSTANT MaxGap  \* loop() calls update() at least every MaxGap milliseconds

VARIABLE idle    \* milliseconds since the last call

pacedVars == <<Location, NewLocation, servoTime, millis, sinceStep, idle>>

PacedInit == Init /\ idle = 0

PacedUpdate == Update /\ idle' = 0

PacedTick == idle < MaxGap /\ Tick /\ idle' = idle + 1

PacedSetTarget == \E t \in Targets : SetTarget(t) /\ UNCHANGED idle

PacedNext == PacedUpdate \/ PacedTick \/ PacedSetTarget

(* loop() is called for ever and the clock never stops. *)
PacedSpec ==
  /\ PacedInit /\ [][PacedNext]_pacedVars
  /\ WF_pacedVars(PacedUpdate) /\ WF_pacedVars(PacedTick)

(* A target that stays is reached, to within the Divisor - 1 microseconds  *)
(* below which the quotient of trackingMotors.cpp:79 is zero, and the      *)
(* servo stays there; a freeze after a wrap delays it, but not for ever.   *)
Converges ==
  \A t \in Targets :
    <>[](NewLocation = t) => <>[](Magnitude(Error) < Divisor)
=============================================================================
