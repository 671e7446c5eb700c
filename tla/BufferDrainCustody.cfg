CONSTANTS
  Turns = {a, b}
  Drainers = {d1}
  JudgeEnabled = FALSE
  Dead = Dead
  None = None
SPECIFICATION FairSpec
INVARIANTS
  DurableNeverLost
  DrainedWasExtracted
PROPERTIES
  ImplementsCustody
  ClaimedTurnsAreDrained
