SPECIFICATION Spec
CONSTANTS
  s1 = s1
  s2 = s2
  Datasets <- TwoPaths
  Detected <- InTwo
  Modes <- BothModes
  Extras <- OnlyModel
  Overrides <- OtherFormat
  Remapped <- TimeOnly
  Tickable <- SomeTicks
  Slots <- TwoSlots
  MaxEdits = 3
  MaxRuns = 2
SYMMETRY SlotsInterchangeable
INVARIANTS IInv NoStepSkipped
CHECK_DEADLOCK FALSE
