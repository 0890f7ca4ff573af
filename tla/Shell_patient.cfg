SPECIFICATION PatientSpec
CONSTANTS
  s1 = s1
  s2 = s2
  Datasets <- Paths
  Detected <- InPaths
  Modes <- BothModes
  Extras <- AllExtras
  Overrides <- OtherFormat
  Remapped <- Labels
  Tickable <- LabelTicks
  Slots <- OneSlot
  MaxEdits = 5
  MaxRuns = 1
INVARIANT OfferJudged
PROPERTY ImplementsGuide
CHECK_DEADLOCK FALSE
