CONSTANTS
  Visits = {v1}
  Domain = {a, b}
  Target = {t1, t2}
  None = None
  Other = Other
SPECIFICATION FairSpec
INVARIANT TypeOK
PROPERTIES ForwardedAsOne CalmVisitServed EveryVisitEnds SelfCheckRight
