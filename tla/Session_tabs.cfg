SPECIFICATION FairSpec
CONSTANTS
    t1 = t1  t2 = t2  ann = ann  bob = bob  s1 = s1  s2 = s2
    Tabs <- TwoTabs
    Users <- TwoUsers
    Tokens <- TwoTokens
    Watched <- OneUser
    None = None

    
    
PROPERTIES
    SpinnerEnds
    
