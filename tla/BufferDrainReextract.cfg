CONSTANTS
  Turns = {a, b}
  Drainers = {d1}
  JudgeEnabled = FALSE
  Dead = Dead
  None = None
SPECIFICATION Spec
SYMMETRY MCSymmetry
PROPERTY NeverReextracted
