CONSTANTS
  Instance = {i1, i2}
  Domain = {a}
  Nobody = Nobody
  Other = Other
  Absent = Absent
  Torn = Torn
  Starters = {"task", "shell", "hand", "install", "uninstall"}
  OldTasks = {"legacy"}
  MaxStarts = 2
  MaxKills = 1
  MaxFaults = 1
  MaxChanges = 1
SPECIFICATION FairSpec
INVARIANTS TypeOK LoneServerInStep
PROPERTY SomeoneServes
CHECK_DEADLOCK FALSE
