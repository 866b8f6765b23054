CONSTANTS
  Domain = {a, b}
  None = None
  MaxActs = 4
SPECIFICATION FairSpec
INVARIANT TypeOK
PROPERTIES EditOutlivesPolls PageCatchesUp
