SPECIFICATION FairSpec
CONSTANTS
    r1 = r1  r2 = r2  k1 = k1  k2 = k2  f1 = f1  f2 = f2  g1 = g1  g2 = g2  o1 = o1  o2 = o2  c1 = c1  c2 = c2
    Runs <- TwoRuns
    Loops <- TwoLoops
    Files <- TwoFiles
    Items <- TwoItems
    Loads <- TwoLoads
    Clicks <- TwoClicks
    Recipes <- FullRecipe
    Tours <- AuditTour
    Backlogs <- EmptyList
    NoRun = NoRun
    NoFile = NoFile
    NoItem = NoItem
    MaxPolls = 2
    MaxWaits = 2
INVARIANTS
    IInv
    PageFollowsItsRun
    BlankOnlyIfLost
    OneRunsDocuments
    VerdictOfSelected
    ListCurrentAtRest
    DoneIsComplete
PROPERTIES
    RunningEnds
