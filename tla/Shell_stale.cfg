SPECIFICATION Spec
CONSTANTS
  s1 = s1
  s2 = s2
  Datasets <- TablePath
  Detected <- InTable
  Modes <- DatasetOnly
  Extras <- NoExtras
  Overrides <- NoOverride
  Remapped <- NoRemapping
  Tickable <- SomeTicks
  Slots <- OneSlot
  MaxEdits = 3
  MaxRuns = 1
PROPERTY RunsAsConfirmed
CHECK_DEADLOCK FALSE
