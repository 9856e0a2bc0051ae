------------------------ MODULE TrackingMotorsProofs ------------------------
(***************************************************************************)
(* Proofs about one servo, for every clock width, step period, divisor,    *)
(* range of pulses and set of targets that MotorAssumption admits.         *)
(***************************************************************************)
EXTENDS TrackingMotors, TLAPS

(* A positive number divided by two or more gets smaller and stays in Nat. *)
LEMMA DivShrinks ==
  ASSUME NEW n \in Nat, NEW k \in Nat, n > 0, k > 1
  PROVE  n \div k \in Nat /\ n \div k < n
<1>1. n \div k \in Int /\ k * (n \div k) <= n /\ n < k * (n \div k) + k
  OBVIOUS
<1> DEFINE q == n \div k
<1>2. q \in Int /\ k * q <= n /\ n < k * q + k
  BY <1>1
<1> HIDE DEF q
<1>3. q >= 0
  <2>1. CASE q < 0
    <3>1. k * (q + 1) <= 0
      BY <1>2, <2>1
    <3> QED BY <3>1, <1>2
  <2> QED BY <2>1, <1>2
<1>4. q < n
  <2>1. CASE q >= n
    <3>1. k * q >= 2 * q
      BY <1>2, <1>3
    <3> QED BY <3>1, <1>2, <2>1
  <2> QED BY <2>1, <1>2
<1> QED BY <1>2, <1>3, <1>4 DEF q

(* The truncated quotient of a distance keeps its sign and is shorter than *)
(* the distance: what a step of update() covers.                           *)
LEMMA QuotTowardZero ==
  ASSUME NEW d \in Int, NEW k \in Nat, k > 1, d # 0
  PROVE  /\ Quot(d, k) \in Int
         /\ d > 0 => 0 <= Quot(d, k) /\ Quot(d, k) < d
         /\ d < 0 => d < Quot(d, k) /\ Quot(d, k) <= 0
<1>1. CASE d > 0
  <2>1. Quot(d, k) = d \div k
    BY <1>1 DEF Quot, Magnitude
  <2> QED BY <2>1, <1>1, DivShrinks
<1>2. CASE d < 0
  <2>1. Quot(d, k) = -((-d) \div k)
    BY <1>2 DEF Quot, Magnitude
  <2>2. -d \in Nat /\ -d > 0
    BY <1>2
  <2>3. (-d) \div k \in Nat /\ (-d) \div k < -d
    BY <2>2, DivShrinks
  <2> QED BY <2>1, <2>3, <1>2
<1> QED BY <1>1, <1>2

-----------------------------------------------------------------------------
(* What is inductive: the types; the servo within its range, its target     *)
(* too; and the arithmetic of the clock, that as long as fewer than Width   *)
(* milliseconds have passed since the last step millis is servoTime plus    *)
(* that many, modulo Width.                                                 *)
ClockOK ==
  sinceStep < Width =>
    millis = IF servoTime + sinceStep < Width
             THEN servoTime + sinceStep
             ELSE servoTime + sinceStep - Width

MotorInv ==
  /\ TypeOK
  /\ WithinRange
  /\ NewLocation \in MinLoc..MaxLoc
  /\ ClockOK

(* A step that moves the servo moves it toward the target, not past it. *)
LEMMA StepToward ==
  ASSUME MotorInv, Step
  PROVE  /\ Location' \in Int
         /\ NewLocation > Location => Location <= Location' /\ Location' < NewLocation
         /\ NewLocation < Location => NewLocation < Location' /\ Location' <= Location
<1> DEFINE d == NewLocation - Location
<1>1. d \in Int /\ d # 0 /\ Location \in Int /\ NewLocation \in Int
  BY DEF MotorInv, TypeOK, Step
<1>2. Location' = Location + Quot(d, Divisor)
  BY DEF Step
<1>3. Divisor \in Nat /\ Divisor > 1
  BY MotorAssumption
<1> HIDE DEF d
<1>4. /\ Quot(d, Divisor) \in Int
      /\ d > 0 => 0 <= Quot(d, Divisor) /\ Quot(d, Divisor) < d
      /\ d < 0 => d < Quot(d, Divisor) /\ Quot(d, Divisor) <= 0
  BY <1>1, <1>3, QuotTowardZero
<1>5. d = NewLocation - Location
  BY DEF d
<1> QED BY <1>1, <1>2, <1>4, <1>5

LEMMA MotorInvInit == Init => MotorInv
  BY MotorAssumption DEF Init, MotorInv, TypeOK, WithinRange, ClockOK

LEMMA MotorInvStep == MotorInv /\ [Next]_vars => MotorInv'
<1> SUFFICES ASSUME MotorInv, [Next]_vars
             PROVE  MotorInv'
  OBVIOUS
<1> USE MotorAssumption
<1>1. ASSUME NEW t \in Targets, SetTarget(t)
      PROVE  MotorInv'
  BY <1>1 DEF SetTarget, MotorInv, TypeOK, WithinRange, ClockOK
<1>2. CASE Update
  <2>1. CASE TooSoon
    BY <1>2, <2>1 DEF Update, TooSoon, motor, MotorInv, TypeOK, WithinRange, ClockOK
  <2>2. CASE OnTarget
    BY <1>2, <2>2 DEF Update, OnTarget, motor, MotorInv, TypeOK, WithinRange, ClockOK
  <2>3. CASE Step
    <3>1. Location' \in MinLoc..MaxLoc
      BY <2>3, StepToward DEF Step, MotorInv, TypeOK, WithinRange
    <3> QED BY <1>2, <2>3, <3>1 DEF Update, Step, MotorInv, TypeOK, WithinRange, ClockOK
  <2> QED BY <1>2, <2>1, <2>2, <2>3 DEF Update
<1>3. CASE Tick
  <2>1. TypeOK' /\ WithinRange' /\ NewLocation' \in MinLoc..MaxLoc
    BY <1>3 DEF Tick, motor, NextMillis, MotorInv, TypeOK, WithinRange
  <2>2. ClockOK'
    BY <1>3 DEF Tick, motor, NextMillis, MotorInv, TypeOK, ClockOK
  <2> QED BY <2>1, <2>2 DEF MotorInv
<1>4. CASE UNCHANGED vars
  BY <1>4 DEF vars, MotorInv, TypeOK, WithinRange, ClockOK
<1> QED BY <1>1, <1>2, <1>3, <1>4 DEF Next

THEOREM MotorInvariant == Spec => []MotorInv
  BY MotorInvInit, MotorInvStep, PTL DEF Spec

-----------------------------------------------------------------------------
(* Every field of the motor keeps its type. *)
THEOREM TypeCorrect == Spec => []TypeOK
<1>1. MotorInv => TypeOK
  BY DEF MotorInv
<1> QED BY <1>1, MotorInvariant, PTL

(* The servo stays within the pulses it is attached with, provided the     *)
(* sketch aims it at none outside them.                                    *)
THEOREM RangeSafe == Spec => []WithinRange
<1>1. MotorInv => WithinRange
  BY DEF MotorInv
<1> QED BY <1>1, MotorInvariant, PTL

(* update() never passes the target, for any divisor above one. *)
THEOREM OvershootFree == Spec => NoOvershoot
<1>1. MotorInv /\ [Next]_vars =>
        [Location' # Location =>
           \/ Location < Location' /\ Location' < NewLocation
           \/ Location > Location' /\ Location' > NewLocation]_vars
  <2> SUFFICES ASSUME MotorInv, Next, Location' # Location
               PROVE  \/ Location < Location' /\ Location' < NewLocation
                      \/ Location > Location' /\ Location' > NewLocation
    OBVIOUS
  <2>1. Step
    BY DEF Next, SetTarget, Update, TooSoon, OnTarget, Tick, motor
  <2>2. Location \in Int /\ NewLocation \in Int /\ NewLocation # Location
    BY <2>1 DEF Step, MotorInv, TypeOK
  <2> QED BY <2>1, <2>2, StepToward
<1> QED BY <1>1, MotorInvariant, PTL DEF Spec, NoOvershoot

(* The guard of update() spaces the steps millisperStep apart, except when *)
(* the deadline it computes wraps around.                                  *)
THEOREM StepRate == Spec => RateLimited
<1>1. MotorInv /\ [Next]_vars =>
        [servoTime' # servoTime => sinceStep >= MillisPerStep \/ DeadlineWraps]_vars
  <2> SUFFICES ASSUME MotorInv, Next, servoTime' # servoTime,
                      ~DeadlineWraps, sinceStep < MillisPerStep
               PROVE  FALSE
    BY MotorAssumption DEF MotorInv, TypeOK
  <2>1. Step
    BY DEF Next, SetTarget, Update, TooSoon, OnTarget, Tick, motor
  <2>2. ~NotYet(millis, servoTime, MillisPerStep, Width)
    BY <2>1 DEF Step
  <2> QED BY <2>2, MotorAssumption
          DEF NotYet, Deadline, DeadlineWraps, MotorInv, TypeOK, ClockOK
<1> QED BY <1>1, MotorInvariant, PTL DEF Spec, RateLimited

(* The only thing that freezes a servo is a clock that has wrapped since   *)
(* its last step.                                                          *)
THEOREM HeldBack == Spec => []HeldBackOnlyByWrap
<1>1. MotorInv => HeldBackOnlyByWrap
  BY MotorAssumption
     DEF MotorInv, TypeOK, ClockOK, HeldBackOnlyByWrap, Wrapped, NotYet, Deadline
<1> QED BY <1>1, MotorInvariant, PTL
=============================================================================
