SPECIFICATION PacedSpec
CONSTANTS
  Width = 3
  MillisPerStep = 1
  Divisor = 2
  MinLoc = 0
  MaxLoc = 24
  CenterLoc = 12
  HalfTurn = 12
  QuarterTurn = 6
  Fraction = 2
  Directions <- MCDirections
  Altitudes <- MCAltitudes
  StartTilt = 18
INVARIANTS
  RestingServosPointAtPlane
PROPERTIES
  ServosComeToRest
