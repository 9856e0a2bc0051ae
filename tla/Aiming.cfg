SPECIFICATION Spec
CONSTANTS
  MinLoc = 500
  MaxLoc = 2500
  CenterLoc = 1500
  HalfTurn = 180
  QuarterTurn = 90
  Fraction = 10
  Directions <- MCDirections
  Altitudes <- MCAltitudes
  Stride = 40
INVARIANTS
  AimsAtPlane
PROPERTIES
  SwingsOnlyAtMeridian
