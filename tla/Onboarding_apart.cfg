SPECIFICATION ApartSpec
CONSTANTS
  e1 = e1
  e2 = e2
  t1 = t1
  t2 = t2
  t3 = t3
  w1 = w1
  w2 = w2
  Nobody = Nobody
  Emails <- TwoApplicants
  Tokens <- ThreeTokens
  Place <- SomePlace
  Workers <- TwoWorkers
PROPERTY ImplementsAtomic
SYMMETRY Interchangeable
