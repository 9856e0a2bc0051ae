---------------------------- MODULE AimingProofs -----------------------------
(***************************************************************************)
(* Proofs about setDirectionAltitude(), for every mount whose pan servo    *)
(* turns by half a turn and whose tilt servo has the zenith at its centre: *)
(* what map() and the truncation to whole degrees lose is never more than  *)
(* a degree and a pulse.                                                   *)
(***************************************************************************)
EXTENDS Aiming, TLAPS

-----------------------------------------------------------------------------
(* Products of numbers that the provers do not multiply out by themselves.  *)

LEMMA ProductGrows ==
  ASSUME NEW a \in Nat, NEW b \in Nat, NEW c \in Nat, a <= b
  PROVE  a * c <= b * c /\ a * c \in Nat
<1>1. PICK d \in Nat : b = a + d
  <2>1. b - a \in Nat /\ b = a + (b - a)
    OBVIOUS
  <2> QED BY <2>1
<1>2. b * c = a * c + d * c /\ a * c \in Nat /\ d * c \in Nat
  BY <1>1
<1> QED BY <1>2

(* What cancels: a multiple that is not larger has a factor that is not.    *)
LEMMA ProductCancels ==
  ASSUME NEW a \in Int, NEW b \in Int, NEW c \in Nat, c > 0, a * c <= b * c
  PROVE  a <= b
<1>1. CASE a > b
  <2>1. PICK d \in Nat : a = b + d /\ d > 0
    <3>1. a - b \in Nat /\ a = b + (a - b) /\ a - b > 0
      BY <1>1
    <3> QED BY <3>1
  <2>2. a * c = b * c + d * c /\ d * c > 0
    BY <2>1
  <2> QED BY <2>2
<1> QED BY <1>1

(* Quot() leaves a remainder smaller than the divisor, of the dividend's    *)
(* sign.                                                                    *)
LEMMA DivLeaves ==
  ASSUME NEW a \in Nat, NEW b \in Nat, b > 0
  PROVE  a \div b \in Nat /\ a - (a \div b) * b \in 0..(b - 1)
<1> DEFINE q == a \div b
<1>1. q \in Int /\ b * q <= a /\ a < b * q + b
  OBVIOUS
<1> HIDE DEF q
<1>2. q >= 0
  <2>1. CASE q < 0
    <3>1. b * (q + 1) <= 0
      BY <1>1, <2>1
    <3> QED BY <3>1, <1>1
  <2> QED BY <2>1, <1>1
<1>3. a - q * b \in 0..(b - 1)
  BY <1>1
<1> QED BY <1>2, <1>1, <1>3 DEF q

LEMMA QuotLeaves ==
  ASSUME NEW a \in Int, NEW b \in Nat, b > 0
  PROVE  /\ Quot(a, b) \in Int /\ Quot(a, b) * b \in Int
         /\ a >= 0 => Quot(a, b) >= 0 /\ a - Quot(a, b) * b \in 0..(b - 1)
         /\ a <= 0 => Quot(a, b) <= 0 /\ Quot(a, b) * b - a \in 0..(b - 1)
<1> DEFINE q == Quot(a, b)
<1>1. CASE a > 0
  <2>1. q = a \div b
    BY <1>1 DEF Quot, Magnitude
  <2>2. a \div b \in Nat /\ a - (a \div b) * b \in 0..(b - 1)
    BY <1>1, DivLeaves
  <2> QED BY <2>1, <2>2, <1>1
<1>2. CASE a = 0
  <2>1. q = 0 \div b
    BY <1>2 DEF Quot, Magnitude
  <2>2. 0 \div b \in Nat /\ 0 - (0 \div b) * b \in 0..(b - 1)
    BY DivLeaves
  <2>3. q \in Nat /\ q * b <= 0 * b
    BY <2>1, <2>2
  <2> HIDE DEF q
  <2>4. q = 0
    BY <2>3, ProductCancels
  <2>5. q * b = 0
    BY <2>4
  <2> QED BY <2>4, <2>5, <1>2 DEF q
<1>3. CASE a < 0
  <2>1. q = -((-a) \div b)
    BY <1>3 DEF Quot, Magnitude
  <2>2. (-a) \div b \in Nat /\ -a - ((-a) \div b) * b \in 0..(b - 1)
    BY <1>3, DivLeaves
  <2> DEFINE m == (-a) \div b
  <2>3. m \in Nat /\ q = -m /\ -a - m * b \in 0..(b - 1)
    BY <2>1, <2>2
  <2> HIDE DEF q, m
  <2>4. q * b = -(m * b) /\ m * b \in Int
    BY <2>3
  <2> QED BY <2>3, <2>4, <1>3 DEF q
<1> QED BY <1>1, <1>2, <1>3


LEMMA QuotNearly ==
  ASSUME NEW a \in Int, NEW b \in Nat, b > 0
  PROVE  /\ a - Quot(a, b) * b \in Int
         /\ -b <= a - Quot(a, b) * b /\ a - Quot(a, b) * b <= b
<1> DEFINE m == Quot(a, b) * b
<1>1. /\ m \in Int
      /\ a >= 0 => a - m \in 0..(b - 1)
      /\ a <= 0 => m - a \in 0..(b - 1)
  BY QuotLeaves
<1> HIDE DEF m
<1>2. a - m \in Int /\ -b <= a - m /\ a - m <= b
  BY <1>1
<1> QED BY <1>2 DEF m

LEMMA ProductWithin ==
  ASSUME NEW a \in Int, NEW b \in Nat, NEW c \in Nat, -b <= a, a <= b
  PROVE  a * c \in Int /\ -(b * c) <= a * c /\ a * c <= b * c /\ b * c \in Nat
<1>1. CASE a >= 0
  <2>1. a * c <= b * c /\ a * c \in Nat /\ b * c \in Nat
    BY <1>1, ProductGrows
  <2> QED BY <2>1
<1>2. CASE a < 0
  <2>1. -a \in Nat /\ -a <= b /\ a * c = -((-a) * c)
    BY <1>2
  <2>2. (-a) * c <= b * c /\ (-a) * c \in Nat /\ b * c \in Nat
    BY <2>1, ProductGrows
  <2> QED BY <2>1, <2>2
<1> QED BY <1>1, <1>2

(* A sign taken out of a quotient.                                          *)
LEMMA QuotSigned ==
  ASSUME NEW a \in Int, NEW b \in Nat, b > 0
  PROVE  Quot(-a, b) = -Quot(a, b) /\ Quot(a, -b) = -Quot(a, b)
<1>1. Magnitude(b) = b /\ Magnitude(-b) = b /\ Magnitude(-a) = Magnitude(a)
      /\ ~(b < 0) /\ -b < 0
  BY DEF Magnitude
<1>2. CASE a > 0
  BY <1>1, <1>2 DEF Quot, Magnitude
<1>3. CASE a < 0
  BY <1>1, <1>3 DEF Quot, Magnitude
<1>4. CASE a = 0
  <2>1. Quot(a, b) = 0 /\ Quot(-a, b) = Quot(a, b)
    BY <1>4, QuotLeaves
  <2> DEFINE z == 0 \div b
  <2>2. Quot(a, b) = z /\ Quot(a, -b) = -z
    BY <1>1, <1>4 DEF Quot, Magnitude
  <2> QED BY <2>1, <2>2
<1> QED BY <1>2, <1>3, <1>4

-----------------------------------------------------------------------------
(* The pulses a servo turns through for an angle, where map() gives it     *)
(* travel pulses to a turn of so many degrees: all four calls of map() in  *)
(* setDirectionAltitude() come down to this.                               *)
Turned(angle, travel, turn) == Quot(Degrees(angle) * travel, turn)

(* What the truncations to degrees and to pulses lose.                      *)
LEMMA TurnedLoses ==
  ASSUME AimingAssumption, NEW a \in Int, NEW travel \in Nat, NEW turn \in Nat, turn > 0
  PROVE  /\ Turned(a, travel, turn) \in Int
         /\ Turned(a, travel, turn) * turn * Fraction - a * travel
              <= turn * Fraction + Fraction * travel
         /\ -(turn * Fraction + Fraction * travel)
              <= Turned(a, travel, turn) * turn * Fraction - a * travel
<1> DEFINE d == Degrees(a)
           q == Turned(a, travel, turn)
<1>1. Fraction \in Nat /\ Fraction > 0
  BY DEF AimingAssumption
<1>2. d \in Int
  BY <1>1, QuotLeaves DEF Degrees
<1>3. PICK s \in Int : s = a - d * Fraction /\ -Fraction <= s /\ s <= Fraction
  <2>1. a - d * Fraction \in Int /\ -Fraction <= a - d * Fraction /\ a - d * Fraction <= Fraction
    BY <1>1, QuotNearly DEF Degrees
  <2> QED BY <2>1
<1>4. d * travel \in Int /\ q = Quot(d * travel, turn)
  BY <1>2 DEF Turned
<1>5. q \in Int
  BY <1>4, QuotLeaves
<1>6. PICK r \in Int : r = d * travel - q * turn /\ -turn <= r /\ r <= turn
  <2>1. /\ d * travel - q * turn \in Int
        /\ -turn <= d * travel - q * turn /\ d * travel - q * turn <= turn
    BY <1>4, QuotNearly
  <2> QED BY <2>1
<1> HIDE DEF d, q
<1>7. /\ -(Fraction * travel) <= s * travel /\ s * travel <= Fraction * travel
      /\ s * travel \in Int /\ Fraction * travel \in Nat
  BY <1>1, <1>3, ProductWithin
<1>8. /\ -(turn * Fraction) <= r * Fraction /\ r * Fraction <= turn * Fraction
      /\ r * Fraction \in Int /\ turn * Fraction \in Nat
  BY <1>1, <1>6, ProductWithin
<1>9. q * turn * Fraction - a * travel = -(s * travel) - r * Fraction
  <2>1. q * turn = d * travel - r /\ a = d * Fraction + s
    BY <1>1, <1>2, <1>3, <1>5, <1>6
  <2>2. q * turn * Fraction = (d * travel - r) * Fraction /\ a * travel = (d * Fraction + s) * travel
    BY <2>1
  <2>3. (d * travel - r) * Fraction = d * travel * Fraction - r * Fraction
    BY <1>1, <1>2, <1>6
  <2>4. (d * Fraction + s) * travel = d * travel * Fraction + s * travel
    BY <1>1, <1>2, <1>3
  <2>5. d * travel * Fraction \in Int
    BY <1>1, <1>2
  <2> QED BY <2>2, <2>3, <2>4, <2>5, <1>7, <1>8
<1>10. /\ q * turn * Fraction - a * travel <= turn * Fraction + Fraction * travel
       /\ -(turn * Fraction + Fraction * travel) <= q * turn * Fraction - a * travel
  BY <1>7, <1>8, <1>9
<1> QED BY <1>5, <1>10 DEF q

LEMMA TurnedSigned ==
  ASSUME AimingAssumption, NEW a \in Int, NEW travel \in Nat, NEW turn \in Nat, turn > 0
  PROVE  /\ Quot(Degrees(a) * (-travel), turn) = -Turned(a, travel, turn)
         /\ Quot(Degrees(a) * travel, -turn) = -Turned(a, travel, turn)
<1> DEFINE n == Degrees(a) * travel
<1>1. Degrees(a) \in Int
  BY QuotLeaves DEF Degrees, AimingAssumption
<1>2. n \in Int /\ Degrees(a) * (-travel) = -n
  BY <1>1
<1> HIDE DEF n
<1>3. Quot(-n, turn) = -Quot(n, turn) /\ Quot(n, -turn) = -Quot(n, turn)
  BY <1>2, QuotSigned
<1> QED BY <1>2, <1>3 DEF n, Turned

(* Both branches turn the servos alike, from opposite ends.                 *)
LEMMA Targets ==
  ASSUME AimingAssumption, NEW dir \in Int, NEW alt \in Int
  PROVE  /\ PanTarget(dir) = (IF dir > 0 THEN MaxLoc ELSE MinLoc) - Turned(dir, Travel, HalfTurn)
         /\ TiltTarget(dir, alt) = IF dir > 0 THEN MinLoc + Turned(alt, CenterLoc - MinLoc, QuarterTurn)
                                              ELSE MaxLoc - Turned(alt, CenterLoc - MinLoc, QuarterTurn)
         /\ Travel \in Nat /\ CenterLoc - MinLoc \in Nat /\ Travel = 2 * (CenterLoc - MinLoc)
         /\ Turned(dir, Travel, HalfTurn) \in Int
         /\ Turned(alt, CenterLoc - MinLoc, QuarterTurn) \in Int
<1>1. /\ Travel \in Nat /\ CenterLoc - MinLoc \in Nat /\ Travel = 2 * (CenterLoc - MinLoc)
      /\ MinLoc - MaxLoc = -Travel /\ MaxLoc - MinLoc = Travel
      /\ CenterLoc - MaxLoc = -(CenterLoc - MinLoc)
      /\ HalfTurn \in Nat /\ HalfTurn > 0 /\ QuarterTurn \in Nat /\ QuarterTurn > 0
      /\ MinLoc \in Int /\ MaxLoc \in Int
  BY DEF AimingAssumption, Travel
<1>2. Degrees(dir) \in Int /\ Degrees(alt) \in Int
  BY QuotLeaves DEF Degrees, AimingAssumption
<1>3. /\ Turned(dir, Travel, HalfTurn) \in Int
      /\ Turned(alt, CenterLoc - MinLoc, QuarterTurn) \in Int
  BY <1>1, TurnedLoses
<1>4. /\ Quot(Degrees(dir) * (-Travel), HalfTurn) = -Turned(dir, Travel, HalfTurn)
      /\ Quot(Degrees(dir) * Travel, -HalfTurn) = -Turned(dir, Travel, HalfTurn)
      /\ Quot(Degrees(alt) * (-(CenterLoc - MinLoc)), QuarterTurn)
           = -Turned(alt, CenterLoc - MinLoc, QuarterTurn)
  BY <1>1, TurnedSigned
<1>5. /\ Degrees(dir) - 0 = Degrees(dir) /\ Degrees(alt) - 0 = Degrees(alt)
      /\ HalfTurn - 0 = HalfTurn /\ QuarterTurn - 0 = QuarterTurn /\ -HalfTurn - 0 = -HalfTurn
  BY <1>1, <1>2
<1>6. /\ LinearMap(Degrees(dir), 0, HalfTurn, MaxLoc, MinLoc) = -Turned(dir, Travel, HalfTurn) + MaxLoc
      /\ LinearMap(Degrees(dir), 0, -HalfTurn, MinLoc, MaxLoc) = -Turned(dir, Travel, HalfTurn) + MinLoc
      /\ LinearMap(Degrees(alt), 0, QuarterTurn, MinLoc, CenterLoc)
           = Turned(alt, CenterLoc - MinLoc, QuarterTurn) + MinLoc
      /\ LinearMap(Degrees(alt), 0, QuarterTurn, MaxLoc, CenterLoc)
           = -Turned(alt, CenterLoc - MinLoc, QuarterTurn) + MaxLoc
  <2>1. LinearMap(Degrees(dir), 0, HalfTurn, MaxLoc, MinLoc)
          = Quot(Degrees(dir) * (-Travel), HalfTurn) + MaxLoc
    BY <1>1, <1>5 DEF LinearMap
  <2>2. LinearMap(Degrees(dir), 0, -HalfTurn, MinLoc, MaxLoc)
          = Quot(Degrees(dir) * Travel, -HalfTurn) + MinLoc
    BY <1>1, <1>5 DEF LinearMap
  <2>3. LinearMap(Degrees(alt), 0, QuarterTurn, MinLoc, CenterLoc)
          = Turned(alt, CenterLoc - MinLoc, QuarterTurn) + MinLoc
    BY <1>5 DEF LinearMap, Turned
  <2>4. LinearMap(Degrees(alt), 0, QuarterTurn, MaxLoc, CenterLoc)
          = Quot(Degrees(alt) * (-(CenterLoc - MinLoc)), QuarterTurn) + MaxLoc
    BY <1>1, <1>5 DEF LinearMap
  <2> QED BY <2>1, <2>2, <2>3, <2>4, <1>4
<1> QED BY <1>1, <1>3, <1>6 DEF PanTarget, TiltTarget, InFront

-----------------------------------------------------------------------------
(* The servos near their targets: where each of them points, in the units  *)
(* of the geometry.                                                        *)

LEMMA Units ==
  ASSUME AimingAssumption, NEW slack \in Nat
  PROVE  /\ HalfTurn * Fraction \in Nat /\ Fraction * Travel \in Nat
         /\ HalfCircle = HalfTurn * Fraction * Travel /\ HalfCircle \in Nat
         /\ slack * (HalfTurn * Fraction) \in Nat
         /\ Tolerance(slack) = slack * (HalfTurn * Fraction) + HalfTurn * Fraction + Fraction * Travel
         /\ \A p \in Int : PanAngle(p) = (MaxLoc - p) * (HalfTurn * Fraction)
         /\ \A t \in Int : TiltAngle(t) = (t - MinLoc) * (HalfTurn * Fraction)
<1>1. HalfTurn \in Nat /\ Fraction \in Nat /\ Travel \in Nat /\ MaxLoc \in Int /\ MinLoc \in Int
  BY DEF AimingAssumption, Travel
<1>2. /\ HalfTurn * Fraction \in Nat /\ Fraction * Travel \in Nat /\ slack * (HalfTurn * Fraction) \in Nat
      /\ HalfTurn * Fraction * Travel \in Nat
  BY <1>1
<1>3. (slack + 1) * HalfTurn * Fraction = slack * (HalfTurn * Fraction) + HalfTurn * Fraction
  BY <1>1
<1>4. \A n \in Int : n * HalfTurn * Fraction = n * (HalfTurn * Fraction)
  BY <1>1
<1> QED BY <1>1, <1>2, <1>3, <1>4 DEF HalfCircle, Tolerance, PanAngle, TiltAngle

LEMMA PanPoints ==
  ASSUME AimingAssumption, NEW dir \in Int, NEW slack \in Nat, NEW p \in Int,
         -slack <= p - PanTarget(dir), p - PanTarget(dir) <= slack
  PROVE  LET heading == IF dir > 0 THEN PanAngle(p) ELSE PanAngle(p) - HalfCircle
         IN  /\ heading \in Int /\ dir * Travel \in Int
             /\ heading - dir * Travel <= Tolerance(slack)
             /\ -Tolerance(slack) <= heading - dir * Travel
<1> DEFINE u == HalfTurn * Fraction
           q == Turned(dir, Travel, HalfTurn)
           x == p - PanTarget(dir)
<1>1. /\ HalfTurn \in Nat /\ HalfTurn > 0 /\ Fraction \in Nat /\ MaxLoc \in Int /\ MinLoc \in Int
      /\ Travel \in Nat /\ MaxLoc - MinLoc = Travel
  BY DEF AimingAssumption, Travel
<1>2. /\ u \in Nat /\ HalfCircle = u * Travel /\ Fraction * Travel \in Nat /\ slack * u \in Nat
      /\ Tolerance(slack) = slack * u + u + Fraction * Travel
      /\ PanAngle(p) = (MaxLoc - p) * u
  BY Units
<1>3. /\ q \in Int /\ PanTarget(dir) = (IF dir > 0 THEN MaxLoc ELSE MinLoc) - q
      /\ q * HalfTurn * Fraction - dir * Travel <= u + Fraction * Travel
      /\ -(u + Fraction * Travel) <= q * HalfTurn * Fraction - dir * Travel
  BY <1>1, TurnedLoses, Targets, 0 \in Int
<1>4. x \in Int /\ -slack <= x /\ x <= slack /\ p = PanTarget(dir) + x
  BY <1>1, <1>3
<1> HIDE DEF u, q, x
<1>5. x * u \in Int /\ -(slack * u) <= x * u /\ x * u <= slack * u
  BY <1>2, <1>4, ProductWithin
<1>6. q * HalfTurn * Fraction = q * u /\ q * u \in Int
  BY <1>1, <1>3 DEF u
<1>7. dir * Travel \in Int
  BY <1>1
<1>8. CASE dir > 0
  <2>1. MaxLoc - p = q - x
    BY <1>1, <1>3, <1>4, <1>8
  <2>2. PanAngle(p) = q * u - x * u
    BY <2>1, <1>2, <1>3, <1>4
  <2> QED BY <2>2, <1>2, <1>3, <1>5, <1>6, <1>7, <1>8
<1>9. CASE ~(dir > 0)
  <2>1. MaxLoc - p = Travel + q - x
    BY <1>1, <1>3, <1>4, <1>9
  <2>2. PanAngle(p) = HalfCircle + q * u - x * u
    BY <2>1, <1>1, <1>2, <1>3, <1>4
  <2>3. PanAngle(p) - HalfCircle = q * u - x * u
    BY <2>2, <1>1, <1>2, <1>5, <1>6
  <2> QED BY <2>3, <1>2, <1>3, <1>5, <1>6, <1>7, <1>9
<1> QED BY <1>8, <1>9

LEMMA TiltPoints ==
  ASSUME AimingAssumption, NEW dir \in Int, NEW alt \in Int, NEW slack \in Nat, NEW t \in Int,
         -slack <= t - TiltTarget(dir, alt), t - TiltTarget(dir, alt) <= slack
  PROVE  LET height == IF dir > 0 THEN TiltAngle(t) ELSE HalfCircle - TiltAngle(t)
         IN  /\ TiltAngle(t) \in Int /\ alt * Travel \in Int
             /\ height - alt * Travel <= Tolerance(slack)
             /\ -Tolerance(slack) <= height - alt * Travel
<1> DEFINE u == HalfTurn * Fraction
           c == CenterLoc - MinLoc
           q == Turned(alt, c, QuarterTurn)
           y == t - TiltTarget(dir, alt)
<1>1. /\ QuarterTurn \in Nat /\ QuarterTurn > 0 /\ HalfTurn = 2 * QuarterTurn
      /\ Fraction \in Nat /\ MaxLoc \in Int /\ MinLoc \in Int
      /\ Travel \in Nat /\ MaxLoc - MinLoc = Travel /\ c \in Nat /\ Travel = 2 * c
  BY Targets, 0 \in Int DEF AimingAssumption, Travel
<1>2. /\ u \in Nat /\ HalfCircle = u * Travel /\ Fraction * Travel \in Nat /\ slack * u \in Nat
      /\ Tolerance(slack) = slack * u + u + Fraction * Travel
      /\ TiltAngle(t) = (t - MinLoc) * u
  BY Units
<1>3. q \in Int /\ TiltTarget(dir, alt) = IF dir > 0 THEN MinLoc + q ELSE MaxLoc - q
  BY Targets
<1>4. /\ q * QuarterTurn * Fraction - alt * c <= QuarterTurn * Fraction + Fraction * c
      /\ -(QuarterTurn * Fraction + Fraction * c) <= q * QuarterTurn * Fraction - alt * c
  BY <1>1, TurnedLoses
<1>5. y \in Int /\ -slack <= y /\ y <= slack /\ t = TiltTarget(dir, alt) + y
  BY <1>1, <1>3
<1> HIDE DEF u, c, q, y
<1>6. y * u \in Int /\ -(slack * u) <= y * u /\ y * u <= slack * u
  BY <1>2, <1>5, ProductWithin
<1>7. /\ u = 2 * (QuarterTurn * Fraction) /\ Fraction * Travel = 2 * (Fraction * c)
      /\ q * u = 2 * (q * QuarterTurn * Fraction) /\ alt * Travel = 2 * (alt * c)
      /\ QuarterTurn * Fraction \in Nat /\ Fraction * c \in Nat /\ alt * c \in Int
      /\ q * QuarterTurn * Fraction \in Int
  BY <1>1, <1>3 DEF u
<1>8. /\ q * u \in Int /\ alt * Travel \in Int
      /\ q * u - alt * Travel <= u + Fraction * Travel
      /\ -(u + Fraction * Travel) <= q * u - alt * Travel
  BY <1>4, <1>7
<1>9. CASE dir > 0
  <2>1. TiltAngle(t) = q * u + y * u
    <3>1. t - MinLoc = q + y
      BY <1>1, <1>3, <1>5, <1>9
    <3> QED BY <3>1, <1>2, <1>3, <1>5
  <2> QED BY <2>1, <1>2, <1>6, <1>8, <1>9
<1>10. CASE ~(dir > 0)
  <2>1. TiltAngle(t) = HalfCircle - q * u + y * u
    <3>1. t - MinLoc = Travel - q + y
      BY <1>1, <1>3, <1>5, <1>10
    <3> QED BY <3>1, <1>1, <1>2, <1>3, <1>5
  <2>2. HalfCircle \in Int
    BY Units
  <2>3. HalfCircle - TiltAngle(t) = q * u - y * u
    BY <2>1, <2>2, <1>6, <1>8
  <2>4. TiltAngle(t) \in Int
    BY <2>1, <2>2, <1>6, <1>8
  <2> QED BY <2>3, <2>4, <1>2, <1>6, <1>8, <1>10
<1> QED BY <1>9, <1>10

LEMMA TargetsAreInts ==
  ASSUME AimingAssumption, NEW dir \in Int, NEW alt \in Int
  PROVE  PanTarget(dir) \in Int /\ TiltTarget(dir, alt) \in Int
<1> DEFINE p == Turned(dir, Travel, HalfTurn)
           q == Turned(alt, CenterLoc - MinLoc, QuarterTurn)
<1>1. /\ PanTarget(dir) = (IF dir > 0 THEN MaxLoc ELSE MinLoc) - p
      /\ TiltTarget(dir, alt) = IF dir > 0 THEN MinLoc + q ELSE MaxLoc - q
      /\ p \in Int /\ q \in Int
  BY Targets
<1>2. MinLoc \in Int /\ MaxLoc \in Int
  BY DEF AimingAssumption
<1> HIDE DEF p, q
<1> QED BY <1>1, <1>2

(* No plane is higher than the zenith.                                      *)
LEMMA ZenithHighest ==
  ASSUME AimingAssumption, NEW alt \in Altitudes
  PROVE  alt \in Int /\ alt * Travel \in Int /\ 2 * (alt * Travel) <= HalfCircle
         /\ HalfCircle \in Nat /\ 2 * (HalfCircle \div 2) = HalfCircle
<1>1. /\ QuarterTurn \in Nat /\ HalfTurn = 2 * QuarterTurn /\ Fraction \in Nat /\ Travel \in Nat
      /\ QuarterTurn * Fraction \in Nat /\ alt \in -(QuarterTurn * Fraction)..(QuarterTurn * Fraction)
  <2>1. QuarterTurn \in Nat /\ HalfTurn = 2 * QuarterTurn /\ Fraction \in Nat /\ Travel \in Nat
    BY DEF AimingAssumption, Travel
  <2>2. QuarterTurn * Fraction \in Nat /\ (-QuarterTurn) * Fraction = -(QuarterTurn * Fraction)
    BY <2>1
  <2>3. Altitudes \subseteq ((-QuarterTurn) * Fraction)..(QuarterTurn * Fraction)
    BY DEF AimingAssumption
  <2> QED BY <2>1, <2>2, <2>3
<1>2. alt * Travel \in Int /\ alt * Travel <= QuarterTurn * Fraction * Travel
  BY <1>1, ProductWithin
<1>3. QuarterTurn * Fraction * Travel \in Nat /\ HalfCircle = 2 * (QuarterTurn * Fraction * Travel)
  BY <1>1 DEF HalfCircle
<1> DEFINE n == QuarterTurn * Fraction * Travel
<1>4. n \in Nat /\ HalfCircle = 2 * n
  BY <1>3
<1> HIDE DEF n
<1>5. (2 * n) \div 2 = n
  BY <1>4
<1> QED BY <1>1, <1>2, <1>4, <1>5 DEF n

(* Servos near their targets point at the plane.  If they are so near the  *)
(* zenith that the arm seems to be bent the other way, the plane is there  *)
(* too.                                                                    *)
LEMMA Pointing ==
  ASSUME AimingAssumption, direction \in Int, altitude \in Altitudes, pan \in Int, tilt \in Int,
         NEW slack \in Nat,
         Magnitude(pan - PanTarget(direction)) <= slack,
         Magnitude(tilt - TiltTarget(direction, altitude)) <= slack
  PROVE  PointsWithin(slack)
<1> DEFINE tol == Tolerance(slack)
           ta == TiltAngle(tilt)
           pa == PanAngle(pan)
           at == altitude * Travel
           dt == direction * Travel
<1>1. /\ altitude \in Int /\ at \in Int /\ 2 * at <= HalfCircle
      /\ HalfCircle \in Nat /\ 2 * (HalfCircle \div 2) = HalfCircle /\ HalfCircle \div 2 \in Int
  <2>1. HalfCircle \in Nat => HalfCircle \div 2 \in Int
    OBVIOUS
  <2> QED BY <2>1, ZenithHighest
<1>2. tol \in Nat
  <2>1. /\ HalfTurn * Fraction \in Nat /\ Fraction * Travel \in Nat /\ slack * (HalfTurn * Fraction) \in Nat
        /\ tol = slack * (HalfTurn * Fraction) + HalfTurn * Fraction + Fraction * Travel
    BY Units
  <2> QED BY <2>1
<1>3. /\ PanTarget(direction) \in Int /\ TiltTarget(direction, altitude) \in Int
  BY <1>1, TargetsAreInts
<1>4. /\ -slack <= pan - PanTarget(direction) /\ pan - PanTarget(direction) <= slack
      /\ -slack <= tilt - TiltTarget(direction, altitude)
      /\ tilt - TiltTarget(direction, altitude) <= slack
  BY <1>3 DEF Magnitude
<1>5. LET heading == IF direction > 0 THEN pa ELSE pa - HalfCircle
      IN  heading \in Int /\ dt \in Int /\ heading - dt <= tol /\ -tol <= heading - dt
  BY <1>4, PanPoints
<1>6. LET height == IF direction > 0 THEN ta ELSE HalfCircle - ta
      IN  ta \in Int /\ height - at <= tol /\ -tol <= height - at
  BY <1>1, <1>4, TiltPoints
<1> HIDE DEF tol, ta, pa, at, dt
<1>7. BentBack(tilt) <=> 2 * ta > HalfCircle
  BY <1>6 DEF BentBack, ta
<1>8. Magnitude(PointedHeight(tilt) - at) <= tol
  <2>1. PointedHeight(tilt) = IF BentBack(tilt) THEN HalfCircle - ta ELSE ta
    BY DEF PointedHeight, ta
  <2>2. CASE direction > 0
    BY <2>1, <2>2, <1>1, <1>2, <1>6, <1>7 DEF Magnitude
  <2>3. CASE ~(direction > 0)
    BY <2>1, <2>3, <1>1, <1>2, <1>6, <1>7 DEF Magnitude
  <2> QED BY <2>2, <2>3
<1>9. Apart(PointedHeading(pan, tilt), dt) <= tol \/ at + tol >= HalfCircle \div 2
  <2>1. PointedHeading(pan, tilt) = IF BentBack(tilt) THEN pa - HalfCircle ELSE pa
    BY DEF PointedHeading, pa
  <2>2. ASSUME NEW h \in Int, h - dt <= tol, -tol <= h - dt
        PROVE  Apart(h, dt) <= tol
    BY <2>2, <1>1, <1>2, <1>5 DEF Apart, Magnitude
  <2>3. CASE direction > 0 /\ ~BentBack(tilt)
    BY <2>1, <2>2, <2>3, <1>5
  <2>4. CASE direction > 0 /\ BentBack(tilt)
    BY <2>4, <1>1, <1>2, <1>6, <1>7
  <2>5. CASE ~(direction > 0) /\ BentBack(tilt)
    BY <2>1, <2>2, <2>5, <1>5
  <2>6. CASE ~(direction > 0) /\ ~BentBack(tilt)
    BY <2>6, <1>1, <1>2, <1>6, <1>7
  <2> QED BY <2>3, <2>4, <2>5, <2>6
<1> QED BY <1>8, <1>9 DEF PointsWithin, tol, at, dt

-----------------------------------------------------------------------------
(* What is inductive: the targets are those of where the plane is.          *)
AimingInv ==
  /\ TypeOK
  /\ pan = PanTarget(direction) /\ tilt = TiltTarget(direction, altitude)
  /\ objectFront = InFront(direction)

LEMMA Angles ==
  ASSUME AimingAssumption, NEW dir \in Directions, NEW alt \in Altitudes
  PROVE  /\ dir \in Int /\ alt \in Int
         /\ PanTarget(dir) \in Int /\ TiltTarget(dir, alt) \in Int /\ InFront(dir) \in BOOLEAN
<1>1. dir \in Int
  <2>1. Directions \subseteq ((-HalfTurn) * Fraction)..(HalfTurn * Fraction)
    BY DEF AimingAssumption
  <2>2. (-HalfTurn) * Fraction \in Int /\ HalfTurn * Fraction \in Int
    BY DEF AimingAssumption
  <2> QED BY <2>1, <2>2
<1>2. alt \in Int
  BY ZenithHighest
<1> QED BY <1>1, <1>2, TargetsAreInts DEF InFront

LEMMA AimingInvInit == Init => AimingInv
  BY AimingAssumption, Angles DEF Init, AimingInv, TypeOK

LEMMA AimingInvStep == AimingInv /\ [Next]_vars => AimingInv'
<1> SUFFICES ASSUME AimingInv, [Next]_vars PROVE AimingInv'
  OBVIOUS
<1>1. CASE Next
  <2>1. PICK dir \in Directions, alt \in Altitudes : SetDirectionAltitude(dir, alt)
    BY <1>1 DEF Next
  <2> QED BY <2>1, AimingAssumption, Angles DEF SetDirectionAltitude, AimingInv, TypeOK
<1>2. CASE UNCHANGED vars
  BY <1>2 DEF AimingInv, TypeOK, vars
<1> QED BY <1>1, <1>2

(* What is aimed is what setDirectionAltitude() makes of the last plane, for *)
(* every call of it.                                                       *)
THEOREM AimingInvariant == Spec => []AimingInv
  BY AimingInvInit, AimingInvStep, PTL DEF Spec

(* Wherever the plane is, and whatever the pulses of the mount and the      *)
(* fraction of a degree that is told apart, the two branches of             *)
(* setDirectionAltitude() aim at it to within a degree and a pulse.         *)
THEOREM AimedAtPlane == Spec => []AimsAtPlane
<1>1. ASSUME AimingInv PROVE AimsAtPlane
  <2>1. /\ direction \in Directions /\ altitude \in Altitudes /\ pan \in Int /\ tilt \in Int
        /\ pan - PanTarget(direction) = 0 /\ tilt - TiltTarget(direction, altitude) = 0
    BY <1>1 DEF AimingInv, TypeOK
  <2>2. direction \in Int /\ Magnitude(0) <= 0 /\ 0 \in Nat
    BY <2>1, AimingAssumption, Angles DEF Magnitude
  <2> QED BY <2>1, <2>2, AimingAssumption, Pointing DEF AimsAtPlane
<1> QED BY <1>1, AimingInvariant, PTL

-----------------------------------------------------------------------------
(* How far a servo is sent when the plane moves.                            *)

LEMMA ProductCancelsStrictly ==
  ASSUME NEW a \in Int, NEW b \in Int, NEW c \in Nat, c > 0, a * c < b * c
  PROVE  a < b
<1>1. CASE b <= a
  <2>1. a - b \in Nat /\ (a - b) * c \in Nat
    BY <1>1
  <2>2. a * c = b * c + (a - b) * c
    OBVIOUS
  <2> QED BY <2>1, <2>2
<1> QED BY <1>1

LEMMA DivGrows ==
  ASSUME NEW a \in Nat, NEW b \in Nat, NEW k \in Nat, k > 0, a <= b
  PROVE  a \div k <= b \div k
<1> DEFINE p == a \div k
           q == b \div k
<1>1. /\ p \in Nat /\ a - p * k \in 0..(k - 1)
      /\ q \in Nat /\ b - q * k \in 0..(k - 1)
  BY DivLeaves
<1> HIDE DEF p, q
<1>2. p * k \in Int /\ q * k \in Int /\ (q + 1) * k = q * k + k
  BY <1>1
<1>3. p * k < (q + 1) * k
  BY <1>1, <1>2
<1>4. p < q + 1
  BY <1>1, <1>3, ProductCancelsStrictly
<1> QED BY <1>1, <1>4 DEF p, q

(* Truncation toward zero keeps the order, and near is near.                *)
LEMMA QuotClose ==
  ASSUME NEW a \in Int, NEW b \in Int, NEW k \in Nat, k > 0, b <= a
  PROVE  /\ Quot(a, k) \in Int /\ Quot(b, k) \in Int
         /\ 0 <= Quot(a, k) - Quot(b, k)
         /\ Quot(a, k) - Quot(b, k) <= (a - b) \div k + 1
<1> DEFINE p == Quot(a, k)
           q == Quot(b, k)
           m == (a - b) \div k
<1>1. /\ p \in Int /\ p * k \in Int /\ q \in Int /\ q * k \in Int
      /\ a >= 0 => a - p * k \in 0..(k - 1)
      /\ a <= 0 => p * k - a \in 0..(k - 1)
      /\ b >= 0 => b - q * k \in 0..(k - 1)
      /\ b <= 0 => q * k - b \in 0..(k - 1)
  BY QuotLeaves
<1>2. m \in Nat /\ (a - b) - m * k \in 0..(k - 1) /\ a - b \in Nat
  <2>1. a - b \in Nat
    OBVIOUS
  <2> QED BY <2>1, DivLeaves
<1> HIDE DEF p, q, m
<1>3. p * k - q * k <= (a - b) + k - 1 /\ -k < p * k - q * k
  <2>1. CASE b >= 0
    BY <2>1, <1>1
  <2>2. CASE a <= 0
    BY <2>2, <1>1
  <2>3. CASE b < 0 /\ a > 0
    BY <2>3, <1>1
  <2> QED BY <2>1, <2>2, <2>3
<1>4. /\ (p - q) * k = p * k - q * k /\ (-1) * k = -k
      /\ (m + 2) * k = m * k + 2 * k /\ m * k \in Int
  BY <1>1, <1>2
<1>5. (p - q) * k < (m + 2) * k /\ (-1) * k < (p - q) * k
  <2> DEFINE pk == p * k
             qk == q * k
             mk == m * k
  <2>1. pk \in Int /\ qk \in Int /\ mk \in Int /\ a - b \in Nat /\ (a - b) - mk \in 0..(k - 1)
    BY <1>1, <1>2, <1>4
  <2>2. pk - qk <= (a - b) + k - 1 /\ -k < pk - qk
    BY <1>3
  <2>3. (p - q) * k = pk - qk /\ (-1) * k = -k /\ (m + 2) * k = mk + 2 * k
    BY <1>4
  <2> HIDE DEF pk, qk, mk
  <2>4. pk - qk < mk + 2 * k
    BY <2>1, <2>2
  <2> QED BY <2>2, <2>3, <2>4
<1>6. p - q \in Int /\ m + 2 \in Int /\ -1 \in Int
  BY <1>1, <1>2
<1>7. p - q < m + 2 /\ -1 < p - q
  BY <1>5, <1>6, ProductCancelsStrictly
<1>8. 0 <= p - q /\ p - q <= m + 1
  BY <1>1, <1>2, <1>7
<1> QED BY <1>1, <1>8 DEF p, q, m

LEMMA TurnedClose ==
  ASSUME AimingAssumption, NEW a \in Int, NEW b \in Int, NEW travel \in Nat, NEW turn \in Nat, turn > 0
  PROVE  Magnitude(Turned(a, travel, turn) - Turned(b, travel, turn))
           <= ((Magnitude(a - b) \div Fraction + 1) * travel) \div turn + 1
<1>1. ASSUME NEW x \in Int, NEW y \in Int, y <= x
      PROVE  /\ Turned(x, travel, turn) - Turned(y, travel, turn) \in Nat
             /\ Turned(x, travel, turn) - Turned(y, travel, turn)
                  <= (((x - y) \div Fraction + 1) * travel) \div turn + 1
             /\ x - y \in Nat
  <2> DEFINE d == Degrees(x)
             e == Degrees(y)
             n == (x - y) \div Fraction + 1
  <2>1. /\ Fraction \in Nat /\ Fraction > 0 /\ x - y \in Nat
    BY <1>1 DEF AimingAssumption
  <2>2. n \in Nat
    <3>1. (x - y) \div Fraction \in Nat
      BY <2>1, DivLeaves
    <3> QED BY <3>1
  <2>3. d \in Int /\ e \in Int /\ 0 <= d - e /\ d - e <= n
    BY <1>1, <2>1, QuotClose DEF Degrees
  <2> HIDE DEF d, e, n
  <2>4. /\ d * travel \in Int /\ e * travel \in Int /\ d - e \in Nat
        /\ d * travel - e * travel = (d - e) * travel
    BY <2>3
  <2>5. (d - e) * travel <= n * travel /\ (d - e) * travel \in Nat /\ n * travel \in Nat
    <3>1. (d - e) * travel <= n * travel /\ (d - e) * travel \in Nat
      BY <2>2, <2>3, <2>4, ProductGrows
    <3> QED BY <3>1, <2>2
  <2>6. e * travel <= d * travel
    BY <2>4, <2>5
  <2> DEFINE s == Quot(d * travel, turn)
             t == Quot(e * travel, turn)
  <2>7. s \in Int /\ t \in Int /\ 0 <= s - t /\ s - t <= (d * travel - e * travel) \div turn + 1
    BY <2>4, <2>6, QuotClose
  <2>8. (d * travel - e * travel) \div turn <= (n * travel) \div turn
    BY <2>4, <2>5, DivGrows
  <2>9. (d * travel - e * travel) \div turn \in Nat /\ (n * travel) \div turn \in Nat
    BY <2>4, <2>5, DivLeaves
  <2> HIDE DEF s, t
  <2>10. s - t \in Nat /\ s - t <= (n * travel) \div turn + 1
    <3> DEFINE v == (d * travel - e * travel) \div turn
               w == (n * travel) \div turn
    <3>1. v \in Nat /\ w \in Nat /\ v <= w /\ s \in Int /\ t \in Int /\ 0 <= s - t /\ s - t <= v + 1
      BY <2>7, <2>8, <2>9
    <3> HIDE DEF v, w
    <3>2. s - t \in Nat /\ s - t <= w + 1
      BY <3>1
    <3> QED BY <3>2 DEF w
  <2> QED BY <2>1, <2>10 DEF s, t, d, e, n, Turned
<1>2. Turned(a, travel, turn) \in Int /\ Turned(b, travel, turn) \in Int
  BY TurnedLoses
<1> DEFINE p == Turned(a, travel, turn)
           q == Turned(b, travel, turn)
<1>3. CASE b <= a
  <2>1. Magnitude(a - b) = a - b /\ Magnitude(p - q) = p - q
    BY <1>1, <1>2, <1>3 DEF Magnitude
  <2> QED BY <2>1, <1>1, <1>3
<1>4. CASE a <= b
  <2>1. b - a \in Nat /\ q - p \in Nat /\ p \in Int /\ q \in Int
    BY <1>1, <1>2, <1>4
  <2> HIDE DEF p, q
  <2>2. Magnitude(a - b) = b - a /\ Magnitude(p - q) = q - p
    BY <2>1 DEF Magnitude
  <2> USE DEF p, q
  <2> QED BY <2>2, <1>1, <1>4
<1> QED BY <1>3, <1>4

(* The tilt servo has half the turn and half the travel.                    *)
LEMMA HalfOfBoth ==
  ASSUME NEW n \in Nat, NEW k \in Nat, k > 0
  PROVE  (2 * n) \div (2 * k) = n \div k
<1> DEFINE q == n \div k
           p == (2 * n) \div (2 * k)
<1>1. q \in Nat /\ n - q * k \in 0..(k - 1)
  BY DivLeaves
<1>2. p \in Nat /\ 2 * n - p * (2 * k) \in 0..(2 * k - 1)
  <2>1. 2 * n \in Nat /\ 2 * k \in Nat /\ 2 * k > 0
    OBVIOUS
  <2> QED BY <2>1, DivLeaves
<1> HIDE DEF p, q
<1>3. /\ p * (2 * k) = 2 * (p * k) /\ p * k \in Int /\ q * k \in Int
      /\ (q + 1) * k = q * k + k /\ (p + 1) * k = p * k + k
  BY <1>1, <1>2
<1>4. p * k < (q + 1) * k /\ q * k < (p + 1) * k
  BY <1>1, <1>2, <1>3
<1>5. p < q + 1 /\ q < p + 1
  BY <1>1, <1>2, <1>4, ProductCancelsStrictly
<1>6. p = q
  BY <1>1, <1>2, <1>5
<1> QED BY <1>6 DEF p, q

LEMMA PulsesEnough ==
  ASSUME AimingAssumption, NEW a \in Int, NEW b \in Int
  PROVE  /\ Magnitude(Turned(a, Travel, HalfTurn) - Turned(b, Travel, HalfTurn)) <= Pulses(a - b)
         /\ Magnitude(Turned(a, CenterLoc - MinLoc, QuarterTurn) - Turned(b, CenterLoc - MinLoc, QuarterTurn))
              <= Pulses(a - b)
<1> DEFINE n == Magnitude(a - b) \div Fraction + 1
           c == CenterLoc - MinLoc
<1>1. /\ Travel \in Nat /\ c \in Nat /\ Travel = 2 * c /\ HalfTurn \in Nat /\ HalfTurn > 0
      /\ QuarterTurn \in Nat /\ QuarterTurn > 0 /\ HalfTurn = 2 * QuarterTurn
      /\ Fraction \in Nat /\ Fraction > 0
  BY Targets, 0 \in Int DEF AimingAssumption
<1>2. n \in Nat
  <2>1. Magnitude(a - b) \in Nat
    BY DEF Magnitude
  <2>2. Magnitude(a - b) \div Fraction \in Nat
    BY <2>1, <1>1, DivLeaves
  <2> QED BY <2>2
<1>3. Pulses(a - b) = (n * Travel) \div HalfTurn + 1
  BY DEF Pulses
<1>4. (n * Travel) \div HalfTurn = (n * c) \div QuarterTurn
  <2> HIDE DEF n, c
  <2>1. n * c \in Nat /\ n * Travel = 2 * (n * c)
    BY <1>1, <1>2
  <2>2. (2 * (n * c)) \div (2 * QuarterTurn) = (n * c) \div QuarterTurn
    BY <1>1, <2>1, HalfOfBoth
  <2> QED BY <2>1, <2>2, <1>1
<1>5. /\ Magnitude(Turned(a, Travel, HalfTurn) - Turned(b, Travel, HalfTurn))
           <= (n * Travel) \div HalfTurn + 1
      /\ Magnitude(Turned(a, c, QuarterTurn) - Turned(b, c, QuarterTurn))
           <= (n * c) \div QuarterTurn + 1
  BY <1>1, TurnedClose
<1> QED BY <1>3, <1>4, <1>5

(* On one side of the meridian a plane that moves a little moves the servos *)
(* a little; nothing but crossing it makes them swing.                      *)
THEOREM SteadyOnOneSide == Spec => SwingsOnlyAtMeridian
<1> DEFINE Steady == objectFront' = objectFront =>
             /\ Magnitude(pan' - pan) <= Pulses(direction' - direction)
             /\ Magnitude(tilt' - tilt) <= Pulses(altitude' - altitude)
<1>1. ASSUME AimingInv, AimingInv', Next PROVE Steady
  <2> SUFFICES ASSUME objectFront' = objectFront
               PROVE  /\ Magnitude(pan' - pan) <= Pulses(direction' - direction)
                      /\ Magnitude(tilt' - tilt) <= Pulses(altitude' - altitude)
    OBVIOUS
  <2> DEFINE c == CenterLoc - MinLoc
             p == Turned(direction, Travel, HalfTurn)
             q == Turned(altitude, c, QuarterTurn)
             ps == Turned(direction', Travel, HalfTurn)
             qs == Turned(altitude', c, QuarterTurn)
  <2>1. direction \in Int /\ altitude \in Int /\ direction' \in Int /\ altitude' \in Int
    BY <1>1, AimingAssumption, Angles DEF AimingInv, TypeOK
  <2>2. /\ pan = (IF direction > 0 THEN MaxLoc ELSE MinLoc) - p
        /\ tilt = IF direction > 0 THEN MinLoc + q ELSE MaxLoc - q
        /\ p \in Int /\ q \in Int
    BY <1>1, <2>1, AimingAssumption, Targets DEF AimingInv
  <2>3. /\ pan' = (IF direction' > 0 THEN MaxLoc ELSE MinLoc) - ps
        /\ tilt' = IF direction' > 0 THEN MinLoc + qs ELSE MaxLoc - qs
        /\ ps \in Int /\ qs \in Int
    <3>1. pan' = PanTarget(direction') /\ tilt' = TiltTarget(direction', altitude')
      BY <1>1 DEF AimingInv, PanTarget, TiltTarget
    <3> QED BY <3>1, <2>1, AimingAssumption, Targets
  <2>4. direction' > 0 <=> direction > 0
    BY <1>1, <2>1 DEF AimingInv, InFront
  <2>5. /\ Magnitude(ps - p) <= Pulses(direction' - direction)
        /\ Magnitude(qs - q) <= Pulses(altitude' - altitude)
    BY <2>1, AimingAssumption, PulsesEnough
  <2>6. MaxLoc \in Int /\ MinLoc \in Int
    BY AimingAssumption DEF AimingAssumption
  <2> HIDE DEF p, q, ps, qs, c
  <2>7. Magnitude(pan' - pan) = Magnitude(ps - p)
    BY <2>2, <2>3, <2>4, <2>6 DEF Magnitude
  <2>8. Magnitude(tilt' - tilt) = Magnitude(qs - q)
    BY <2>2, <2>3, <2>4, <2>6 DEF Magnitude
  <2> QED BY <2>5, <2>7, <2>8
<1>2. AimingInv /\ AimingInv' /\ [Next]_vars => [Steady]_vars
  BY <1>1
<1> QED BY <1>2, AimingInvariant, PTL DEF Spec, SwingsOnlyAtMeridian

-----------------------------------------------------------------------------
(* The range of the targets.                                                *)

LEMMA QuotExact ==
  ASSUME NEW n \in Int, NEW k \in Nat, k > 0
  PROVE  Quot(n * k, k) = n
<1> DEFINE a == n * k
           q == Quot(a, k)
<1>1. a \in Int
  OBVIOUS
<1>2. q \in Int /\ q * k \in Int /\ -k < a - q * k /\ a - q * k < k
  <2> HIDE DEF a
  <2>1. /\ q \in Int /\ q * k \in Int
        /\ a >= 0 => a - q * k \in 0..(k - 1)
        /\ a <= 0 => q * k - a \in 0..(k - 1)
    BY <1>1, QuotLeaves
  <2> HIDE DEF q
  <2> QED BY <2>1, <1>1
<1> HIDE DEF q
<1>3. (n - q) * k = a - q * k /\ n - q \in Int /\ 1 * k = k /\ (-1) * k = -k
  BY <1>2
<1>4. n - q < 1 /\ -1 < n - q
  BY <1>2, <1>3, ProductCancelsStrictly
<1>5. q = n
  BY <1>2, <1>4
<1> QED BY <1>5 DEF q, a

LEMMA TurnedWithin ==
  ASSUME AimingAssumption, NEW a \in Int, NEW travel \in Nat, NEW turn \in Nat, turn > 0
  PROVE  /\ a <= turn * Fraction => Turned(a, travel, turn) <= travel
         /\ -(turn * Fraction) <= a => -travel <= Turned(a, travel, turn)
         /\ -Fraction < a => 0 <= Turned(a, travel, turn)
         /\ a <= 0 => Turned(a, travel, turn) <= 0
<1> DEFINE d == Degrees(a)
           q == Turned(a, travel, turn)
<1>1. Fraction \in Nat /\ Fraction > 0 /\ turn * Fraction \in Nat
  BY DEF AimingAssumption
<1>2. d \in Int
  BY <1>1, QuotLeaves DEF Degrees
<1>3. ASSUME NEW n \in Int
      PROVE  (d <= n => q <= Quot(n * travel, turn)) /\ (n <= d => Quot(n * travel, turn) <= q)
  <2>1. /\ n * travel \in Int /\ d * travel \in Int
        /\ d <= n => d * travel <= n * travel
        /\ n <= d => n * travel <= d * travel
    <3> HIDE DEF d
    <3>1. n * travel \in Int /\ d * travel \in Int
      BY <1>2
    <3>2. CASE d <= n
      <4>1. n - d \in Nat /\ (n - d) * travel \in Nat /\ n * travel = d * travel + (n - d) * travel
        BY <1>2, <3>2
      <4>2. d = n \/ ~(n <= d)
        BY <1>2, <3>2
      <4> QED BY <4>1, <4>2, <3>1
    <3>3. CASE n <= d
      <4>1. d - n \in Nat /\ (d - n) * travel \in Nat /\ d * travel = n * travel + (d - n) * travel
        BY <1>2, <3>3
      <4>2. d = n \/ ~(d <= n)
        BY <1>2, <3>3
      <4> QED BY <4>1, <4>2, <3>1
    <3> QED BY <1>2, <3>2, <3>3
  <2>2. d <= n => q <= Quot(n * travel, turn)
    <3> SUFFICES ASSUME d <= n PROVE q <= Quot(n * travel, turn)
      OBVIOUS
    <3>1. /\ Quot(n * travel, turn) \in Int /\ Quot(d * travel, turn) \in Int
          /\ 0 <= Quot(n * travel, turn) - Quot(d * travel, turn)
      BY <2>1, QuotClose
    <3> QED BY <3>1 DEF Turned
  <2>3. n <= d => Quot(n * travel, turn) <= q
    <3> SUFFICES ASSUME n <= d PROVE Quot(n * travel, turn) <= q
      OBVIOUS
    <3>1. /\ Quot(n * travel, turn) \in Int /\ Quot(d * travel, turn) \in Int
          /\ 0 <= Quot(d * travel, turn) - Quot(n * travel, turn)
      BY <2>1, QuotClose
    <3> QED BY <3>1 DEF Turned
  <2> QED BY <2>2, <2>3
<1>4. /\ Quot(turn * travel, turn) = travel /\ Quot((-turn) * travel, turn) = -travel
      /\ Quot(0 * travel, turn) = 0
  <2>1. turn * travel = travel * turn /\ (-turn) * travel = (-travel) * turn /\ 0 * travel = 0 * turn
    OBVIOUS
  <2>2. Quot(travel * turn, turn) = travel /\ Quot((-travel) * turn, turn) = -travel
        /\ Quot(0 * turn, turn) = 0
    <3>1. travel \in Int /\ -travel \in Int /\ 0 \in Int
      OBVIOUS
    <3> QED BY <3>1, QuotExact, Zenon
  <2> QED BY <2>1, <2>2, Zenon
<1>5. a <= turn * Fraction => d <= turn
  <2>1. a <= turn * Fraction => d <= Quot(turn * Fraction, Fraction)
    <3> SUFFICES ASSUME a <= turn * Fraction PROVE d <= Quot(turn * Fraction, Fraction)
      OBVIOUS
    <3>1. /\ Quot(turn * Fraction, Fraction) \in Int /\ Quot(a, Fraction) \in Int
          /\ 0 <= Quot(turn * Fraction, Fraction) - Quot(a, Fraction)
      BY <1>1, QuotClose
    <3> QED BY <3>1 DEF Degrees
  <2>2. Quot(turn * Fraction, Fraction) = turn
    BY <1>1, QuotExact
  <2> QED BY <2>1, <2>2
<1>6. -(turn * Fraction) <= a => -turn <= d
  <2>1. (-turn) * Fraction = -(turn * Fraction) /\ -turn \in Int
    BY <1>1
  <2>2. -(turn * Fraction) <= a => Quot((-turn) * Fraction, Fraction) <= d
    <3> SUFFICES ASSUME -(turn * Fraction) <= a PROVE Quot((-turn) * Fraction, Fraction) <= d
      OBVIOUS
    <3>1. (-turn) * Fraction \in Int /\ (-turn) * Fraction <= a
      BY <2>1, <1>1
    <3>2. /\ Quot((-turn) * Fraction, Fraction) \in Int /\ Quot(a, Fraction) \in Int
          /\ 0 <= Quot(a, Fraction) - Quot((-turn) * Fraction, Fraction)
      BY <1>1, <3>1, QuotClose
    <3> QED BY <3>2 DEF Degrees
  <2>3. Quot((-turn) * Fraction, Fraction) = -turn
    BY <1>1, <2>1, QuotExact
  <2> QED BY <2>2, <2>3
<1>7. -Fraction < a => 0 <= d
  <2> SUFFICES ASSUME -Fraction < a PROVE 0 <= d
    OBVIOUS
  <2>1. CASE a >= 0
    BY <2>1, <1>1, QuotLeaves DEF Degrees
  <2>2. CASE a < 0
    <3>1. d <= 0 /\ d * Fraction - a \in 0..(Fraction - 1) /\ d * Fraction \in Int
      BY <2>2, <1>1, QuotLeaves DEF Degrees
    <3> HIDE DEF d
    <3>2. (-1) * Fraction < d * Fraction
      BY <3>1, <2>2, <1>1
    <3>3. -1 < d
      BY <3>2, <1>1, <1>2, ProductCancelsStrictly
    <3> QED BY <3>3, <1>2
  <2> QED BY <2>1, <2>2
<1>8. a <= 0 => d <= 0
  BY <1>1, QuotLeaves DEF Degrees
<1>9. q \in Int
  BY TurnedLoses
<1> HIDE DEF d, q
<1>10. /\ d <= turn => q <= travel
       /\ -turn <= d => -travel <= q
       /\ 0 <= d => 0 <= q
       /\ d <= 0 => q <= 0
  <2>1. turn \in Int /\ -turn \in Int /\ 0 \in Int
    OBVIOUS
  <2> QED BY <2>1, <1>3, <1>4
<1> QED BY <1>5, <1>6, <1>7, <1>8, <1>10 DEF q

(* map() does not clamp, but the pan servo is aimed within its range, and   *)
(* so is the tilt servo unless the plane is a degree below the horizon.     *)
LEMMA PanTargetRange ==
  ASSUME AimingAssumption, NEW dir \in Directions
  PROVE  PanTarget(dir) \in MinLoc..MaxLoc
<1> DEFINE p == Turned(dir, Travel, HalfTurn)
<1>1. /\ HalfTurn \in Nat /\ HalfTurn > 0 /\ Fraction \in Nat /\ Fraction > 0
      /\ MinLoc \in Int /\ MaxLoc \in Int /\ MaxLoc - MinLoc = Travel
  BY DEF AimingAssumption, Travel
<1>2. dir \in Int /\ -(HalfTurn * Fraction) <= dir /\ dir <= HalfTurn * Fraction
  <2>1. HalfTurn * Fraction \in Nat /\ (-HalfTurn) * Fraction = -(HalfTurn * Fraction)
    BY <1>1
  <2>2. Directions \subseteq ((-HalfTurn) * Fraction)..(HalfTurn * Fraction)
    BY DEF AimingAssumption
  <2> QED BY <2>1, <2>2
<1>3. /\ PanTarget(dir) = (IF dir > 0 THEN MaxLoc ELSE MinLoc) - p
      /\ p \in Int /\ Travel \in Nat
  BY <1>2, Targets
<1>4. p <= Travel /\ -Travel <= p /\ (dir <= 0 => p <= 0) /\ (dir > 0 => 0 <= p)
  <2>1. dir > 0 => -Fraction < dir
    BY <1>1, <1>2
  <2> QED BY <2>1, <1>1, <1>2, <1>3, TurnedWithin
<1> HIDE DEF p
<1> QED BY <1>1, <1>2, <1>3, <1>4

LEMMA TiltTargetRange ==
  ASSUME AimingAssumption, NEW dir \in Int, NEW alt \in Altitudes, -Fraction < alt
  PROVE  TiltTarget(dir, alt) \in MinLoc..MaxLoc
<1> DEFINE c == CenterLoc - MinLoc
           q == Turned(alt, c, QuarterTurn)
<1>1. /\ QuarterTurn \in Nat /\ QuarterTurn > 0 /\ Fraction \in Nat
      /\ MinLoc \in Int /\ MaxLoc \in Int /\ MaxLoc - MinLoc = Travel
  BY DEF AimingAssumption, Travel
<1>2. alt \in Int /\ alt <= QuarterTurn * Fraction
  <2>1. QuarterTurn * Fraction \in Nat /\ (-QuarterTurn) * Fraction = -(QuarterTurn * Fraction)
    BY <1>1
  <2>2. Altitudes \subseteq ((-QuarterTurn) * Fraction)..(QuarterTurn * Fraction)
    BY DEF AimingAssumption
  <2> QED BY <2>1, <2>2
<1>3. /\ TiltTarget(dir, alt) = IF dir > 0 THEN MinLoc + q ELSE MaxLoc - q
      /\ q \in Int /\ Travel \in Nat /\ c \in Nat /\ Travel = 2 * c
  BY <1>2, Targets
<1>4. q <= c /\ 0 <= q
  BY <1>1, <1>2, <1>3, TurnedWithin
<1> HIDE DEF q, c
<1> QED BY <1>1, <1>3, <1>4
=============================================================================
