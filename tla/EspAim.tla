------------------------------- MODULE EspAim -------------------------------
(***************************************************************************)
(* The sketch: loop() lets the plane object aim the two servos and then    *)
(* lets each servo make its step, tilt first.  plane.update() either aims  *)
(* (from a fresh report or by dead reckoning), or blocks in a poll that    *)
(* then aims or fails; PlaneInformation says when it does which.           *)
(***************************************************************************)
EXTENDS Arduino

CONSTANTS
  Width, MillisPerStep, Divisor,         \* see TrackingMotors
  MinLoc, MaxLoc, CenterLoc,             \* the pulses of both servos
  HalfTurn, QuarterTurn, Fraction,       \* see Aiming
  Directions, Altitudes,
  StartTilt                              \* 1995, stored at the end of setup()

ASSUME SketchAssumption ==
  /\ Width \in Nat /\ MillisPerStep \in Nat /\ 0 < MillisPerStep /\ MillisPerStep < Width
  /\ Divisor \in Nat /\ 1 < Divisor
  /\ MinLoc \in Int /\ MaxLoc \in Int /\ CenterLoc \in Int
  /\ MinLoc < MaxLoc /\ 2 * CenterLoc = MinLoc + MaxLoc
  /\ HalfTurn \in Nat /\ QuarterTurn \in Nat /\ HalfTurn = 2 * QuarterTurn
  /\ QuarterTurn > 0 /\ Fraction \in Nat /\ Fraction > 0
  /\ Directions \subseteq (-HalfTurn * Fraction)..(HalfTurn * Fraction)
  /\ Altitudes \subseteq (-QuarterTurn * Fraction)..(QuarterTurn * Fraction)
  /\ StartTilt \in MinLoc..MaxLoc

VARIABLES
  pc,                   \* the call loop() makes next, or "polling" inside one
  aimed,                \* setDirectionAltitude() has been called
  direction, altitude,  \* the angles it was given last
  objectFront,
  panLocation, panTarget, panTime,     \* trackingDirection
  tiltLocation, tiltTarget, tiltTime,  \* trackingAltitude
  millis,
  panSince, tiltSince   \* history: true time since the servo's last step

aim  == <<aimed, direction, altitude, objectFront>>
pan  == <<panLocation, panTarget, panTime, panSince>>
tilt == <<tiltLocation, tiltTarget, tiltTime, tiltSince>>
vars == <<pc, aimed, direction, altitude, objectFront,
          panLocation, panTarget, panTime, tiltLocation, tiltTarget, tiltTime,
          millis, panSince, tiltSince>>

Aim == INSTANCE Aiming
  WITH pan <- panTarget, tilt <- tiltTarget,
       Stride <- 2 * HalfTurn * Fraction

(* The targets setDirectionAltitude() can compute, and that of setup(). *)
PanTargets  == {Aim!PanTarget(d) : d \in Directions}
TiltTargets == {Aim!TiltTarget(d, a) : d \in Directions, a \in Altitudes}

(* Where the servos point, as opposed to where they are to go. *)
Mount == INSTANCE Aiming
  WITH pan <- panLocation, tilt <- tiltLocation,
       Stride <- 2 * HalfTurn * Fraction

PanMotor == INSTANCE TrackingMotors
  WITH Location <- panLocation, NewLocation <- panTarget, servoTime <- panTime,
       sinceStep <- panSince, Targets <- PanTargets

TiltMotor == INSTANCE TrackingMotors
  WITH Location <- tiltLocation, NewLocation <- tiltTarget, servoTime <- tiltTime,
       sinceStep <- tiltSince, Targets <- TiltTargets \cup {StartTilt}

-----------------------------------------------------------------------------
(* setup() has initialised the servos (the second that lies between the two *)
(* is left out); it now waits for the network and starts the server.        *)
Init ==
  /\ pc = "setup"
  /\ aimed = FALSE
  /\ direction = 0 /\ altitude = 0 /\ objectFront = FALSE
  /\ PanMotor!Init
  /\ TiltMotor!Init

(* The last thing setup() does is to tilt the arm, line 338. *)
FinishSetup ==
  /\ pc = "setup"
  /\ TiltMotor!SetTarget(StartTilt)
  /\ pc' = "plane"
  /\ UNCHANGED <<aim, pan>>

Aims ==
  \E dir \in Directions, alt \in Altitudes :
    /\ aimed' = TRUE
    /\ Aim!SetDirectionAltitude(dir, alt)

Motionless == UNCHANGED <<panLocation, panTime, panSince,
                          tiltLocation, tiltTime, tiltSince, millis>>

(* plane.update() interpolates, or its poll has succeeded. *)
PlaneAims ==
  /\ pc \in {"plane", "polling"}
  /\ Aims
  /\ pc' = "tilt"
  /\ Motionless

PlanePolls ==
  /\ pc = "plane"
  /\ pc' = "polling"
  /\ UNCHANGED <<aim, pan, tilt, millis>>

(* The poll fails: nothing is aimed and the servos go on to the old target. *)
PollFails ==
  /\ pc = "polling"
  /\ pc' = "tilt"
  /\ UNCHANGED <<aim, pan, tilt, millis>>

MoveTilt ==
  /\ pc = "tilt"
  /\ TiltMotor!Update
  /\ pc' = "pan"
  /\ UNCHANGED <<aim, pan>>

(* Mutant: the pan servo is not updated. *)
MovePanForgotten ==
  /\ pc = "pan"
  /\ pc' = "plane"
  /\ UNCHANGED <<aim, pan, tilt, millis>>

(* The serial port, read last, changes only plane.identifier. *)
MovePan ==
  /\ pc = "pan"
  /\ PanMotor!Update
  /\ pc' = "plane"
  /\ UNCHANGED <<aim, tilt>>

Tick ==
  /\ PanMotor!Tick
  /\ TiltMotor!Tick
  /\ UNCHANGED <<pc, aim>>

Loop == PlaneAims \/ PlanePolls \/ PollFails \/ MoveTilt \/ MovePan

Next == FinishSetup \/ Loop \/ Tick

Spec == Init /\ [][Next]_vars

-----------------------------------------------------------------------------
TypeOK ==
  /\ pc \in {"setup", "plane", "polling", "tilt", "pan"}
  /\ aimed \in BOOLEAN
  /\ direction \in Int /\ altitude \in Int /\ objectFront \in BOOLEAN
  /\ PanMotor!TypeOK
  /\ TiltMotor!TypeOK

Near(location, target) == Magnitude(target - location) < Divisor

AtRest == Near(panLocation, panTarget) /\ Near(tiltLocation, tiltTarget)

(* When both servos have come to rest they point at the plane, to within    *)
(* the degree that map() loses and the pulses that their last steps leave.  *)
RestingServosPointAtPlane ==
  aimed /\ AtRest => Mount!PointsWithin(Divisor - 1)
=============================================================================
