SPECIFICATION PlaneSpec
CONSTANTS
  p1 = p1
  p2 = p2
  Planes <- MCPlanes
  Garbage = Garbage
  Zero = Zero
  Default = Default
  Nobody = Nobody
  Fields <- FewFields
  Width = 3
  UpdateMillis = 1
  MaxGap = 1
  MaxRenames = 1
  Second = 3
  EpochWidth = 64
  Boot = 10
  MaxSkew = 1
  MaxAge = 2
  NtpWait = 2
  Horizon = 15
INVARIANTS
  NoMixedPlanes
  NoAimWhileFailing
  ExtrapolationLags
PROPERTIES
  SwitchTakesEffect
  NeverBackward
