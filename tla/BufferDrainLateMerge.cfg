CONSTANTS
  Turns = {a, b}
  Drainers = {d1}
  JudgeEnabled = TRUE
  Dead = Dead
  None = None
SPECIFICATION Spec
SYMMETRY MCSymmetry
PROPERTY LateMergeStaysPending
