SPECIFICATION Spec
CONSTANTS
  c1 = c1
  c2 = c2
  Callers <- TwoCallers
  PhaseOf <- RefreshThenHop
  MaxRuns = 2
INVARIANTS NeverCutShort
