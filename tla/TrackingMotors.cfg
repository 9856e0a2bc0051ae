\* A servo with pulses 0..40 at rest at 20, on a clock of 12 values
SPECIFICATION PacedSpec
CONSTANTS
  Width = 12
  MillisPerStep = 5
  Divisor = 5
  MinLoc = 0
  MaxLoc = 40
  CenterLoc = 20
  Targets = {0, 17, 40}
  MaxGap = 1
INVARIANTS
  HeldBackOnlyByWrap
PROPERTIES
  NoOvershoot
  Converges
