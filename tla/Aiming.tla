------------------------------- MODULE Aiming -------------------------------
(***************************************************************************)
(* setDirectionAltitude(): from the direction of the plane (degrees from   *)
(* north, east positive) and its altitude angle to the targets of the two  *)
(* servos.  The pan servo turns by half a turn only, so that planes in the *)
(* west are reached with the tilt servo bent backward over the zenith.     *)
(*                                                                         *)
(* The angles are floats and map() takes longs: angles come here in parts  *)
(* of 1/Fraction degree.  getHeading() and getAltitude(), which compute    *)
(* them, are represented by the angles they return.                        *)
(***************************************************************************)
EXTENDS Arduino

CONSTANTS
  MinLoc, MaxLoc, CenterLoc,  \* pulses of both servos: 500, 2500, 1500
  HalfTurn, QuarterTurn,      \* 180 and 90 degrees
  Fraction,                   \* parts of a degree that are told apart
  Directions, Altitudes,      \* bound: the angles the plane is seen at
  Stride                      \* bound: how far it moves between two aims

ASSUME AimingAssumption ==
  /\ MinLoc \in Int /\ MaxLoc \in Int /\ CenterLoc \in Int
  /\ MinLoc < MaxLoc /\ 2 * CenterLoc = MinLoc + MaxLoc
  /\ HalfTurn \in Nat /\ QuarterTurn \in Nat /\ HalfTurn = 2 * QuarterTurn
  /\ QuarterTurn > 0 /\ Fraction \in Nat /\ Fraction > 0
  /\ Directions \subseteq (-HalfTurn * Fraction)..(HalfTurn * Fraction)
  /\ Altitudes \subseteq (-QuarterTurn * Fraction)..(QuarterTurn * Fraction)

VARIABLES
  direction, altitude,  \* where the plane is
  pan, tilt,            \* trackingDirection.NewLocation, trackingAltitude.NewLocation
  objectFront           \* trackingAltitude.objectFront

vars == <<direction, altitude, pan, tilt, objectFront>>

-----------------------------------------------------------------------------
(* The float is converted to the long that map() takes. *)
Degrees(angle) == Quot(angle, Fraction)

InFront(dir) == dir > 0

(* Mutants: both branches turn the same way; the servo takes half a turn    *)
(* for a quarter.                                                           *)
PanTargetOneWay(dir) ==
  LinearMap(Magnitude(Degrees(dir)), 0, HalfTurn, MaxLoc, MinLoc)

PanTargetQuarter(dir) ==
  IF InFront(dir)
  THEN LinearMap(Degrees(dir), 0, QuarterTurn, MaxLoc, MinLoc)
  ELSE LinearMap(Degrees(dir), 0, -QuarterTurn, MinLoc, MaxLoc)

PanTarget(dir) ==
  IF InFront(dir)
  THEN LinearMap(Degrees(dir), 0, HalfTurn, MaxLoc, MinLoc)
  ELSE LinearMap(Degrees(dir), 0, -HalfTurn, MinLoc, MaxLoc)

(* Mutant: the arm is never bent back. *)
TiltTargetUpright(dir, alt) ==
  LinearMap(Degrees(alt), 0, QuarterTurn, MinLoc, CenterLoc)

TiltTarget(dir, alt) ==
  IF InFront(dir)
  THEN LinearMap(Degrees(alt), 0, QuarterTurn, MinLoc, CenterLoc)
  ELSE LinearMap(Degrees(alt), 0, QuarterTurn, MaxLoc, CenterLoc)

SetDirectionAltitude(dir, alt) ==
  /\ direction' = dir
  /\ altitude' = alt
  /\ pan' = PanTarget(dir)
  /\ tilt' = TiltTarget(dir, alt)
  /\ objectFront' = InFront(dir)

Init ==
  /\ direction \in Directions
  /\ altitude \in Altitudes
  /\ pan = PanTarget(direction)
  /\ tilt = TiltTarget(direction, altitude)
  /\ objectFront = InFront(direction)

(* The plane has moved a little, or the user tracks another one. *)
Near(a, b) == Magnitude(a - b) <= Stride

Next ==
  \E dir \in Directions, alt \in Altitudes :
    /\ Near(dir, direction)
    /\ Near(alt, altitude)
    /\ SetDirectionAltitude(dir, alt)

Spec == Init /\ [][Next]_vars

-----------------------------------------------------------------------------
(* Where a pair of servo positions points, from the geometry of the mount   *)
(* and not from the code: the pan servo turns from north at MaxLoc over     *)
(* east to south at MinLoc; the tilt servo rises from that horizon at       *)
(* MinLoc to the zenith at CenterLoc and sinks to the opposite horizon at   *)
(* MaxLoc.  All in units of 1/Travel of a part of a degree.                 *)
Travel == MaxLoc - MinLoc
PanAngle(p)  == (MaxLoc - p) * HalfTurn * Fraction
TiltAngle(t) == (t - MinLoc) * HalfTurn * Fraction
HalfCircle   == HalfTurn * Fraction * Travel

BentBack(t)       == TiltAngle(t) * 2 > HalfCircle
PointedHeading(p, t) == IF BentBack(t) THEN PanAngle(p) - HalfCircle ELSE PanAngle(p)
PointedHeight(t)     == IF BentBack(t) THEN HalfCircle - TiltAngle(t) ELSE TiltAngle(t)

(* The angle between two headings, north of one being north of the other. *)
Apart(a, b) ==
  IF Magnitude(a - b) > HalfCircle
  THEN 2 * HalfCircle - Magnitude(a - b) ELSE Magnitude(a - b)

(* Servos at pan and tilt point at the plane to within slack pulses and a   *)
(* degree; at the zenith every heading will do.                             *)
Tolerance(slack) == (slack + 1) * HalfTurn * Fraction + Fraction * Travel

PointsWithin(slack) ==
  /\ Magnitude(PointedHeight(tilt) - altitude * Travel) <= Tolerance(slack)
  /\ \/ Apart(PointedHeading(pan, tilt), direction * Travel) <= Tolerance(slack)
     \/ altitude * Travel + Tolerance(slack) >= HalfCircle \div 2

TypeOK ==
  /\ direction \in Directions /\ altitude \in Altitudes
  /\ pan \in Int /\ tilt \in Int /\ objectFront \in BOOLEAN

(* Both branches of setDirectionAltitude(), with their opposite ranges and  *)
(* signs, describe one mount: the servos point at the plane to within a     *)
(* degree, wherever it is (espAim.ino:441-452).                             *)
AimsAtPlane == PointsWithin(0)

(* A plane that moves a little moves the servos a little -- but for one     *)
(* that crosses the meridian, north or south, when both servos swing to the *)
(* other end although the plane is next to where it was.                    *)
Pulses(angle) ==
  (((Magnitude(angle) \div Fraction) + 1) * Travel) \div HalfTurn + 1

SwingsOnlyAtMeridian ==
  [][objectFront' = objectFront =>
       /\ Magnitude(pan' - pan) <= Pulses(direction' - direction)
       /\ Magnitude(tilt' - tilt) <= Pulses(altitude' - altitude)]_vars
=============================================================================
