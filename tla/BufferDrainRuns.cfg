CONSTANTS
  Turns = {a}
  Drainers = {d1, d2}
  JudgeEnabled = TRUE
  Dead = Dead
  None = None
SPECIFICATION Spec
SYMMETRY MCSymmetry
INVARIANTS
  TypeOK
  ProgressIsFenced
  ProgressBaseIsCurrent
