SPECIFICATION MotionSpec
CONSTANTS
  ms_increment = 2
  max_step = 0
  is_inverted = FALSE
  Standstill = 2
  SgWords = {0}
  MaxTravel = 4
PROPERTY
  DedgeStepsOnEachChange
