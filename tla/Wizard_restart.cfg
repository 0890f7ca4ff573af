SPECIFICATION Spec
CONSTANTS
  r1 = r1
  r2 = r2
  Runs <- OneRun
  Formats <- Tabular
  Faults <- AnyFault
INVARIANT CompletedSurvives
