CONSTANTS
  Turns = {a, b}
  Drainers = {d1, d2}
  JudgeEnabled = FALSE
  Dead = Dead
  None = None
SPECIFICATION Spec
SYMMETRY MCSymmetry
INVARIANT PendingNotDrained
