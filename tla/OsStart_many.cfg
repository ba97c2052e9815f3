SPECIFICATION Spec
CONSTANTS
  Starts = {r1, r2, r3}
  None = None
  Slow = TRUE
SYMMETRY StartSymmetry
CHECK_DEADLOCK FALSE
INVARIANTS UnitStands OneLaunch ApartAlone
