SPECIFICATION FairSpec
CONSTANTS
  r1 = r1
  r2 = r2
  Runs <- TwoRuns
  Formats <- AnyFormat
  Faults <- AnyFault
INVARIANTS CompletedHasOutputs IInv
PROPERTIES FailedStaysFailed LostOnlyUnsaved ImplementsRunLifecycle PageSettles
