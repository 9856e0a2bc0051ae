--------------------------- MODULE TrackingMotors ---------------------------
(***************************************************************************)
(* One servo of the tracker (class trackingMotors), from the end of init() *)
(* on.  The sketch stores a target in NewLocation and calls update() from  *)
(* loop() as often as it gets round; update() moves the servo one fifth of *)
(* the remaining way, at most once per millisperStep milliseconds of a     *)
(* clock, millis(), that wraps around.                                     *)
(*                                                                         *)
(* Location, NewLocation and servoTime are the fields of the class.        *)
(* millis is the clock; sinceStep is a history variable, the true time     *)
(* since the last step, counted up to Width.                               *)
(***************************************************************************)
EXTENDS Arduino

CONSTANTS
  Width,          \* millis() counts modulo Width, 2^32 on the ESP32
  MillisPerStep,  \* millisperStep: 5
  Divisor,        \* the 5 of (NewLocation - Location)/5
  MinLoc, MaxLoc, \* range of pulses the servo is attached with: 500, 2500
  CenterLoc,      \* the pulse of the start position: 1500
  Targets         \* the values the sketch may store in NewLocation

ASSUME MotorAssumption ==
  /\ Width \in Nat /\ MillisPerStep \in Nat
  /\ 0 < MillisPerStep /\ MillisPerStep < Width
  /\ Divisor \in Nat /\ 1 < Divisor
  /\ MinLoc \in Int /\ MaxLoc \in Int
  /\ CenterLoc \in MinLoc..MaxLoc
  /\ Targets \subseteq MinLoc..MaxLoc

VARIABLES Location, NewLocation, servoTime, millis, sinceStep

motor == <<Location, NewLocation, servoTime>>
vars  == <<Location, NewLocation, servoTime, millis, sinceStep>>

Error == NewLocation - Location

-----------------------------------------------------------------------------
(* init() ends by reading the clock into servoTime. *)
Init ==
  /\ Location = CenterLoc
  /\ NewLocation = CenterLoc
  /\ millis \in 0..(Width - 1)
  /\ servoTime = millis
  /\ sinceStep = 0

(* setDirectionAltitude() of the sketch aims the servo. *)
SetTarget(t) ==
  /\ NewLocation' = t
  /\ UNCHANGED <<Location, servoTime, millis, sinceStep>>

(* The three ways through update(). *)
TooSoon ==
  /\ NotYet(millis, servoTime, MillisPerStep, Width)
  /\ UNCHANGED <<motor, sinceStep>>

OnTarget ==
  /\ ~NotYet(millis, servoTime, MillisPerStep, Width)
  /\ NewLocation = Location
  /\ UNCHANGED <<motor, sinceStep>>

(* Mutants of Step: it goes the wrong way, without the guard of line 72,     *)
(* only upward, or keeps the next deadline in servoTime.                     *)
StepLike(due, location, time) ==
  /\ due
  /\ NewLocation # Location
  /\ Location' = location
  /\ servoTime' = time
  /\ sinceStep' = 0
  /\ UNCHANGED NewLocation
Due == ~NotYet(millis, servoTime, MillisPerStep, Width)
Advanced == Location + Quot(NewLocation - Location, Divisor)

StepAway == StepLike(Due, Location - Quot(NewLocation - Location, Divisor), millis)
StepUpOnly == StepLike(Due /\ NewLocation > Location, Advanced, millis)
StepToDeadline == StepLike(Due, Advanced, Deadline(millis, MillisPerStep, Width))

Step ==
  /\ ~NotYet(millis, servoTime, MillisPerStep, Width)
  /\ NewLocation # Location
  /\ Location' = Location + Quot(NewLocation - Location, Divisor)
  /\ servoTime' = millis
  /\ sinceStep' = 0
  /\ UNCHANGED NewLocation

Update ==
  /\ TooSoon \/ OnTarget \/ Step
  /\ UNCHANGED millis

(* A millisecond passes. *)
Tick ==
  /\ millis' = NextMillis(millis, Width)
  /\ sinceStep' = IF sinceStep < Width THEN sinceStep + 1 ELSE Width
  /\ UNCHANGED motor

Next ==
  \/ \E t \in Targets : SetTarget(t)
  \/ Update
  \/ Tick

Spec == Init /\ [][Next]_vars
-----------------------------------------------------------------------------
TypeOK ==
  /\ Location \in Int
  /\ NewLocation \in Int
  /\ servoTime \in 0..(Width - 1)
  /\ millis \in 0..(Width - 1)
  /\ sinceStep \in 0..Width

(* The servo is never driven outside the pulses it was attached with, on   *)
(* whatever path it is and however the target moves meanwhile              *)
(* (trackingMotors.cpp:78-84).                                             *)
WithinRange == Location \in MinLoc..MaxLoc

(* A step goes toward the target and never past it, although the quotient  *)
(* of line 79 is of either sign and truncated, and although the second     *)
(* `if` of update() sees the Location the first one has just written.      *)
NoOvershoot ==
  [][Location' # Location =>
       \/ Location < Location' /\ Location' < NewLocation
       \/ Location > Location' /\ Location' > NewLocation]_vars

(* The clock has wrapped around since the last step. *)
Wrapped == servoTime + sinceStep >= Width

(* The sum servoTime + millisperStep of line 72 wraps around. *)
DeadlineWraps == servoTime + MillisPerStep >= Width

(* Two steps are at least millisperStep apart: the guard of line 72 fails  *)
(* to enforce it only when its right-hand side has wrapped.                *)
RateLimited ==
  [][servoTime' # servoTime => sinceStep >= MillisPerStep \/ DeadlineWraps]_vars

(* A motor that has waited long enough is held back by line 72 only when   *)
(* the clock has wrapped since its last step: there is no other way to     *)
(* freeze a servo.                                                         *)
HeldBackOnlyByWrap ==
  sinceStep >= MillisPerStep /\ NotYet(millis, servoTime, MillisPerStep, Width)
    => Wrapped
=============================================================================
