---------------------------- MODULE EspAimProofs -----------------------------
(***************************************************************************)
(* Proofs about the sketch: each servo runs as TrackingMotors says, and    *)
(* when both rest they point at the plane, whatever has happened before.   *)
(***************************************************************************)
EXTENDS EspAim, TLAPS

(* What is known of aims and of servos, where the servos are.               *)
Aimed == INSTANCE AimingProofs
  WITH pan <- panLocation, tilt <- tiltLocation,
       Stride <- 2 * HalfTurn * Fraction

LEMMA MountSound == Aimed!AimingAssumption
  BY SketchAssumption DEF Aimed!AimingAssumption

(* The two instances of Aiming compute the same targets.                    *)
LEMMA OneMount ==
  ASSUME NEW dir, NEW alt
  PROVE  Aimed!PanTarget(dir) = Aim!PanTarget(dir) /\ Aimed!TiltTarget(dir, alt) = Aim!TiltTarget(dir, alt)
  BY Zenon DEF Aimed!PanTarget, Aim!PanTarget, Aimed!TiltTarget, Aim!TiltTarget,
         Aimed!InFront, Aim!InFront, Aimed!Degrees, Aim!Degrees, Aimed!LinearMap, Aim!LinearMap,
         Aimed!Quot, Aim!Quot, Aimed!Magnitude, Aim!Magnitude

LEMMA TargetTypes ==
  ASSUME NEW dir \in Directions, NEW alt \in Altitudes
  PROVE  dir \in Int /\ alt \in Int /\ Aim!PanTarget(dir) \in Int /\ Aim!TiltTarget(dir, alt) \in Int
  BY MountSound, OneMount, Aimed!Angles

-----------------------------------------------------------------------------
(* The sketch drives both servos as TrackingMotors says: the handlers, the  *)
(* polls and the other servo are stutters of a servo, and setup() and       *)
(* setDirectionAltitude() aim it.                                           *)

LEMMA PanStep == [Next]_vars => [PanMotor!Next]_(PanMotor!vars)
<1> SUFFICES ASSUME [Next]_vars PROVE [PanMotor!Next]_(PanMotor!vars)
  OBVIOUS
<1>1. CASE FinishSetup
  BY <1>1 DEF FinishSetup, TiltMotor!SetTarget, pan, PanMotor!vars
<1>2. CASE PlaneAims
  <2>1. PICK dir \in Directions, alt \in Altitudes : Aim!SetDirectionAltitude(dir, alt)
    BY <1>2 DEF PlaneAims, Aims
  <2>2. panTarget' \in PanTargets
    BY <2>1 DEF Aim!SetDirectionAltitude, PanTargets
  <2>3. PanMotor!SetTarget(panTarget')
    BY <1>2 DEF PlaneAims, Motionless, PanMotor!SetTarget
  <2> QED BY <2>2, <2>3 DEF PanMotor!Next
<1>3. CASE PlanePolls \/ PollFails
  BY <1>3 DEF PlanePolls, PollFails, pan, PanMotor!vars
<1>4. CASE MoveTilt
  BY <1>4 DEF MoveTilt, TiltMotor!Update, pan, PanMotor!vars
<1>5. CASE MovePan
  BY <1>5 DEF MovePan, PanMotor!Next
<1>6. CASE Tick
  BY <1>6 DEF Tick, PanMotor!Next
<1>7. CASE UNCHANGED vars
  BY <1>7 DEF vars, PanMotor!vars
<1> QED BY <1>1, <1>2, <1>3, <1>4, <1>5, <1>6, <1>7 DEF Next, Loop

LEMMA TiltStep == [Next]_vars => [TiltMotor!Next]_(TiltMotor!vars)
<1> SUFFICES ASSUME [Next]_vars PROVE [TiltMotor!Next]_(TiltMotor!vars)
  OBVIOUS
<1>1. CASE FinishSetup
  BY <1>1 DEF FinishSetup, TiltMotor!Next
<1>2. CASE PlaneAims
  <2>1. PICK dir \in Directions, alt \in Altitudes : Aim!SetDirectionAltitude(dir, alt)
    BY <1>2 DEF PlaneAims, Aims
  <2>2. tiltTarget' \in TiltTargets
    BY <2>1 DEF Aim!SetDirectionAltitude, TiltTargets
  <2>3. TiltMotor!SetTarget(tiltTarget')
    BY <1>2 DEF PlaneAims, Motionless, TiltMotor!SetTarget
  <2> QED BY <2>2, <2>3 DEF TiltMotor!Next
<1>3. CASE PlanePolls \/ PollFails
  BY <1>3 DEF PlanePolls, PollFails, tilt, TiltMotor!vars
<1>4. CASE MoveTilt
  BY <1>4 DEF MoveTilt, TiltMotor!Next
<1>5. CASE MovePan
  BY <1>5 DEF MovePan, PanMotor!Update, tilt, TiltMotor!vars
<1>6. CASE Tick
  BY <1>6 DEF Tick, TiltMotor!Next
<1>7. CASE UNCHANGED vars
  BY <1>7 DEF vars, TiltMotor!vars
<1> QED BY <1>1, <1>2, <1>3, <1>4, <1>5, <1>6, <1>7 DEF Next, Loop

(* Each servo of the sketch behaves as the servo that is specified on its   *)
(* own, so that what is proved there holds of both.                         *)
THEOREM ServosRun == Spec => PanMotor!Spec /\ TiltMotor!Spec
<1>1. Init => PanMotor!Init /\ TiltMotor!Init
  BY DEF Init
<1> QED BY <1>1, PanStep, TiltStep, PTL DEF Spec, PanMotor!Spec, TiltMotor!Spec

-----------------------------------------------------------------------------
(* What is proved of a servo, of each of them.                              *)
PanProofs == INSTANCE TrackingMotorsProofs
  WITH Location <- panLocation, NewLocation <- panTarget, servoTime <- panTime,
       sinceStep <- panSince, Targets <- PanTargets

TiltProofs == INSTANCE TrackingMotorsProofs
  WITH Location <- tiltLocation, NewLocation <- tiltTarget, servoTime <- tiltTime,
       sinceStep <- tiltSince, Targets <- TiltTargets \cup {StartTilt}

LEMMA PanSame ==
  /\ PanMotor!Init => PanProofs!Init
  /\ [PanMotor!Next]_(PanMotor!vars) => [PanProofs!Next]_(PanProofs!vars)
<1>1. PanMotor!Init => PanProofs!Init
  BY DEF PanMotor!Init, PanProofs!Init
<1>2. PanMotor!Next => PanProofs!Next
  BY Zenon
     DEF PanMotor!Next, PanProofs!Next, PanMotor!SetTarget, PanProofs!SetTarget,
         PanMotor!Tick, PanProofs!Tick, PanMotor!NextMillis, PanProofs!NextMillis,
         PanMotor!motor, PanProofs!motor, PanMotor!Update, PanProofs!Update,
         PanMotor!TooSoon, PanProofs!TooSoon, PanMotor!OnTarget, PanProofs!OnTarget,
         PanMotor!Step, PanProofs!Step, PanMotor!NotYet, PanProofs!NotYet,
         PanMotor!Deadline, PanProofs!Deadline, PanMotor!Quot, PanProofs!Quot,
         PanMotor!Magnitude, PanProofs!Magnitude
<1> QED BY <1>1, <1>2 DEF PanMotor!vars, PanProofs!vars

LEMMA TiltSame ==
  /\ TiltMotor!Init => TiltProofs!Init
  /\ [TiltMotor!Next]_(TiltMotor!vars) => [TiltProofs!Next]_(TiltProofs!vars)
<1>1. TiltMotor!Init => TiltProofs!Init
  BY DEF TiltMotor!Init, TiltProofs!Init
<1>2. TiltMotor!Next => TiltProofs!Next
  BY Zenon
     DEF TiltMotor!Next, TiltProofs!Next, TiltMotor!SetTarget, TiltProofs!SetTarget,
         TiltMotor!Tick, TiltProofs!Tick, TiltMotor!NextMillis, TiltProofs!NextMillis,
         TiltMotor!motor, TiltProofs!motor, TiltMotor!Update, TiltProofs!Update,
         TiltMotor!TooSoon, TiltProofs!TooSoon, TiltMotor!OnTarget, TiltProofs!OnTarget,
         TiltMotor!Step, TiltProofs!Step, TiltMotor!NotYet, TiltProofs!NotYet,
         TiltMotor!Deadline, TiltProofs!Deadline, TiltMotor!Quot, TiltProofs!Quot,
         TiltMotor!Magnitude, TiltProofs!Magnitude
<1> QED BY <1>1, <1>2 DEF TiltMotor!vars, TiltProofs!vars

LEMMA PanMotorSound == PanProofs!MotorAssumption
<1>1. PanTargets \subseteq MinLoc..MaxLoc
  BY MountSound, OneMount, Aimed!PanTargetRange DEF PanTargets
<1>2. CenterLoc \in MinLoc..MaxLoc
  BY SketchAssumption
<1> QED BY <1>1, <1>2, SketchAssumption DEF PanProofs!MotorAssumption

LEMMA TiltMotorSound ==
  ASSUME \A alt \in Altitudes : -Fraction < alt
  PROVE  TiltProofs!MotorAssumption
<1>1. TiltTargets \subseteq MinLoc..MaxLoc
  <2> SUFFICES ASSUME NEW dir \in Directions, NEW alt \in Altitudes
               PROVE  Aim!TiltTarget(dir, alt) \in MinLoc..MaxLoc
    BY DEF TiltTargets
  <2>1. dir \in Int
    BY TargetTypes
  <2> QED BY <2>1, MountSound, OneMount, Aimed!TiltTargetRange
<1>2. CenterLoc \in MinLoc..MaxLoc /\ StartTilt \in MinLoc..MaxLoc
  BY SketchAssumption
<1> QED BY <1>1, <1>2, SketchAssumption DEF TiltProofs!MotorAssumption

(* The pan servo is never driven out of the pulses it is attached with.     *)
THEOREM PanInRange == Spec => [](panLocation \in MinLoc..MaxLoc)
<1>1. Init => PanProofs!MotorInv
  BY PanSame, PanMotorSound, PanProofs!MotorInvInit DEF Init
<1>2. PanProofs!MotorInv /\ [Next]_vars => PanProofs!MotorInv'
  BY PanStep, PanSame, PanMotorSound, PanProofs!MotorInvStep
<1>3. PanProofs!MotorInv => panLocation \in MinLoc..MaxLoc
  BY DEF PanProofs!MotorInv, PanProofs!WithinRange
<1> QED BY <1>1, <1>2, <1>3, PTL DEF Spec

(* Nor is the tilt servo, as long as no plane is a degree or more below the *)
(* horizon: map() would go on below its range.                              *)
THEOREM TiltInRange ==
  ASSUME \A alt \in Altitudes : -Fraction < alt
  PROVE  Spec => [](tiltLocation \in MinLoc..MaxLoc)
<1>1. Init => TiltProofs!MotorInv
  BY TiltSame, TiltMotorSound, TiltProofs!MotorInvInit DEF Init
<1>2. TiltProofs!MotorInv /\ [Next]_vars => TiltProofs!MotorInv'
  BY TiltStep, TiltSame, TiltMotorSound, TiltProofs!MotorInvStep
<1>3. TiltProofs!MotorInv => tiltLocation \in MinLoc..MaxLoc
  BY DEF TiltProofs!MotorInv, TiltProofs!WithinRange
<1> QED BY <1>1, <1>2, <1>3, PTL DEF Spec

-----------------------------------------------------------------------------
(* What is inductive: the types, and that the targets are those of the last *)
(* aim.  A poll that fails leaves both targets, and a handler cannot come   *)
(* between the two assignments, so that they are always of one aim.         *)
SketchInv ==
  /\ TypeOK
  /\ pc = "setup" => ~aimed
  /\ aimed => /\ direction \in Directions /\ altitude \in Altitudes
              /\ panTarget = Aim!PanTarget(direction)
              /\ tiltTarget = Aim!TiltTarget(direction, altitude)

LEMMA QuotIsInt ==
  ASSUME NEW a \in Int
  PROVE  PanMotor!Quot(a, Divisor) \in Int /\ TiltMotor!Quot(a, Divisor) \in Int
<1>1. Aimed!Quot(a, Divisor) \in Int
  BY Aimed!QuotLeaves, MountSound, SketchAssumption
<1>2. /\ PanMotor!Quot(a, Divisor) = Aimed!Quot(a, Divisor)
      /\ TiltMotor!Quot(a, Divisor) = Aimed!Quot(a, Divisor)
  BY Zenon DEF PanMotor!Quot, TiltMotor!Quot, Aimed!Quot,
               PanMotor!Magnitude, TiltMotor!Magnitude, Aimed!Magnitude
<1> QED BY <1>1, <1>2

LEMMA PanUpdateTypes ==
  ASSUME PanMotor!TypeOK, PanMotor!Update
  PROVE  PanMotor!TypeOK' /\ panTarget' = panTarget
<1> USE SketchAssumption DEF PanMotor!TypeOK
<1>1. CASE PanMotor!TooSoon \/ PanMotor!OnTarget
  BY <1>1 DEF PanMotor!Update, PanMotor!TooSoon, PanMotor!OnTarget, PanMotor!motor
<1>2. CASE PanMotor!Step
  <2>1. panTarget - panLocation \in Int
    OBVIOUS
  <2>2. PanMotor!Quot(panTarget - panLocation, Divisor) \in Int
    BY <2>1, QuotIsInt
  <2> QED BY <1>2, <2>2 DEF PanMotor!Update, PanMotor!Step
<1> QED BY <1>1, <1>2 DEF PanMotor!Update

LEMMA TiltUpdateTypes ==
  ASSUME TiltMotor!TypeOK, TiltMotor!Update
  PROVE  TiltMotor!TypeOK' /\ tiltTarget' = tiltTarget
<1> USE SketchAssumption DEF TiltMotor!TypeOK
<1>1. CASE TiltMotor!TooSoon \/ TiltMotor!OnTarget
  BY <1>1 DEF TiltMotor!Update, TiltMotor!TooSoon, TiltMotor!OnTarget, TiltMotor!motor
<1>2. CASE TiltMotor!Step
  <2>1. tiltTarget - tiltLocation \in Int
    OBVIOUS
  <2>2. TiltMotor!Quot(tiltTarget - tiltLocation, Divisor) \in Int
    BY <2>1, QuotIsInt
  <2> QED BY <1>2, <2>2 DEF TiltMotor!Update, TiltMotor!Step
<1> QED BY <1>1, <1>2 DEF TiltMotor!Update

LEMMA SketchInvInit == Init => SketchInv
<1> SUFFICES ASSUME Init PROVE SketchInv
  OBVIOUS
<1>1. PanMotor!TypeOK
  BY SketchAssumption DEF Init, PanMotor!Init, PanMotor!TypeOK
<1>2. TiltMotor!TypeOK
  BY SketchAssumption DEF Init, TiltMotor!Init, TiltMotor!TypeOK
<1>3. pc = "setup" /\ aimed = FALSE /\ direction = 0 /\ altitude = 0 /\ objectFront = FALSE
  BY DEF Init
<1>4. TypeOK
  <2>1. 0 \in Int /\ FALSE \in BOOLEAN
    OBVIOUS
  <2> QED BY <2>1, <1>1, <1>2, <1>3, Zenon DEF TypeOK
<1> QED BY <1>3, <1>4 DEF SketchInv

LEMMA SketchInvStep == SketchInv /\ [Next]_vars => SketchInv'
<1> SUFFICES ASSUME SketchInv, [Next]_vars PROVE SketchInv'
  OBVIOUS
<1> USE SketchAssumption DEF SketchInv, TypeOK
<1>1. CASE FinishSetup
  BY <1>1 DEF FinishSetup, TiltMotor!SetTarget, aim, pan, PanMotor!TypeOK, TiltMotor!TypeOK
<1>2. CASE PlaneAims
  <2>1. PICK dir \in Directions, alt \in Altitudes : Aim!SetDirectionAltitude(dir, alt) /\ aimed'
    BY <1>2 DEF PlaneAims, Aims
  <2>2. /\ direction' = dir /\ altitude' = alt /\ objectFront' \in BOOLEAN
        /\ panTarget' = Aim!PanTarget(dir) /\ tiltTarget' = Aim!TiltTarget(dir, alt)
    BY <2>1 DEF Aim!SetDirectionAltitude, Aim!InFront
  <2>3. /\ dir \in Int /\ alt \in Int /\ panTarget' \in Int /\ tiltTarget' \in Int
    BY <2>2, TargetTypes
  <2>4. /\ panTarget' = Aim!PanTarget(direction')
        /\ tiltTarget' = Aim!TiltTarget(direction', altitude')
    BY <2>2
  <2>5. PanMotor!TypeOK' /\ TiltMotor!TypeOK'
    BY <1>2, <2>3 DEF PlaneAims, Motionless, PanMotor!TypeOK, TiltMotor!TypeOK
  <2>6. panTarget' = Aim!PanTarget(direction)' /\ tiltTarget' = Aim!TiltTarget(direction, altitude)'
    BY <2>4 DEF Aim!PanTarget, Aim!TiltTarget
  <2>7. pc' = "tilt" /\ aimed' = TRUE
    BY <1>2 DEF PlaneAims, Aims
  <2> QED BY <2>2, <2>3, <2>5, <2>6, <2>7
<1>3. CASE PlanePolls \/ PollFails
  BY <1>3 DEF PlanePolls, PollFails, aim, pan, tilt, PanMotor!TypeOK, TiltMotor!TypeOK
<1>4. CASE MoveTilt
  <2>1. TiltMotor!TypeOK' /\ tiltTarget' = tiltTarget /\ UNCHANGED millis
    BY <1>4, TiltUpdateTypes DEF MoveTilt, TiltMotor!Update
  <2>2. UNCHANGED <<aim, pan>> /\ pc' = "pan" /\ pc = "tilt"
    BY <1>4 DEF MoveTilt
  <2>3. PanMotor!TypeOK'
    BY <2>1, <2>2 DEF pan, PanMotor!TypeOK
  <2> QED BY <2>1, <2>2, <2>3 DEF aim, pan
<1>5. CASE MovePan
  <2>1. PanMotor!TypeOK' /\ panTarget' = panTarget /\ UNCHANGED millis
    BY <1>5, PanUpdateTypes DEF MovePan, PanMotor!Update
  <2>2. UNCHANGED <<aim, tilt>> /\ pc' = "plane" /\ pc = "pan"
    BY <1>5 DEF MovePan
  <2>3. TiltMotor!TypeOK'
    BY <2>1, <2>2 DEF tilt, TiltMotor!TypeOK
  <2> QED BY <2>1, <2>2, <2>3 DEF aim, tilt
<1>6. CASE Tick
  <2>1. PanMotor!TypeOK' /\ TiltMotor!TypeOK'
    BY <1>6 DEF Tick, PanMotor!Tick, TiltMotor!Tick, PanMotor!motor, TiltMotor!motor,
                PanMotor!NextMillis, TiltMotor!NextMillis, PanMotor!TypeOK, TiltMotor!TypeOK
  <2>2. UNCHANGED <<pc, aim, panTarget, tiltTarget>>
    BY <1>6 DEF Tick, PanMotor!Tick, TiltMotor!Tick, PanMotor!motor, TiltMotor!motor
  <2> QED BY <2>1, <2>2 DEF aim
<1>7. CASE UNCHANGED vars
  BY <1>7 DEF vars, PanMotor!TypeOK, TiltMotor!TypeOK
<1> QED BY <1>1, <1>2, <1>3, <1>4, <1>5, <1>6, <1>7 DEF Next, Loop

(* The invariant from which the rest follows holds of every behaviour of    *)
(* the sketch.                                                             *)
THEOREM SketchInvariant == Spec => []SketchInv
  BY SketchInvInit, SketchInvStep, PTL DEF Spec

(* Every variable of the sketch keeps its type.                             *)
THEOREM SketchTypes == Spec => []TypeOK
<1>1. SketchInv => TypeOK
  BY DEF SketchInv
<1> QED BY <1>1, SketchInvariant, PTL

(* When both servos have come to rest they point at the plane, for every    *)
(* mount, divisor, clock and set of planes: what update() leaves of the way *)
(* and what map() leaves of the angle never add up to more.                 *)
THEOREM RestPointsAtPlane == Spec => []RestingServosPointAtPlane
<1>1. ASSUME SketchInv, aimed, AtRest PROVE Aimed!PointsWithin(Divisor - 1)
  <2>1. /\ direction \in Directions /\ altitude \in Altitudes
        /\ panLocation \in Int /\ tiltLocation \in Int
        /\ panTarget = Aimed!PanTarget(direction)
        /\ tiltTarget = Aimed!TiltTarget(direction, altitude)
    BY <1>1, OneMount DEF SketchInv, TypeOK, PanMotor!TypeOK, TiltMotor!TypeOK
  <2>2. direction \in Int /\ panTarget \in Int /\ tiltTarget \in Int
    BY <2>1, <1>1 DEF SketchInv, TypeOK, PanMotor!TypeOK, TiltMotor!TypeOK
  <2>3. Divisor - 1 \in Nat
    BY SketchAssumption
  <2>4. /\ Aimed!Magnitude(panLocation - panTarget) <= Divisor - 1
        /\ Aimed!Magnitude(tiltLocation - tiltTarget) <= Divisor - 1
    BY <1>1, <2>1, <2>2, SketchAssumption DEF AtRest, Near, Magnitude, Aimed!Magnitude
  <2> QED BY <2>1, <2>2, <2>3, <2>4, MountSound, Aimed!Pointing
<1>2. Aimed!PointsWithin(Divisor - 1) => Mount!PointsWithin(Divisor - 1)
  BY Zenon
     DEF Aimed!PointsWithin, Mount!PointsWithin, Aimed!Magnitude, Mount!Magnitude,
         Aimed!PointedHeight, Mount!PointedHeight, Aimed!BentBack, Mount!BentBack,
         Aimed!TiltAngle, Mount!TiltAngle, Aimed!PanAngle, Mount!PanAngle,
         Aimed!HalfCircle, Mount!HalfCircle, Aimed!Travel, Mount!Travel,
         Aimed!Tolerance, Mount!Tolerance, Aimed!Apart, Mount!Apart,
         Aimed!PointedHeading, Mount!PointedHeading
<1>3. SketchInv => RestingServosPointAtPlane
  BY <1>1, <1>2 DEF RestingServosPointAtPlane
<1> QED BY <1>3, SketchInvariant, PTL
=============================================================================
