CONSTANTS
  Instance = {i1}
  Domain = {a}
  Nobody = Nobody
  Other = Other
  Absent = Absent
  Torn = Torn
  Starters = {"task", "shell"}
  OldTasks = {"legacy"}
  MaxStarts = 2
  MaxKills = 1
  MaxFaults = 0
  MaxChanges = 1
SPECIFICATION Spec
INVARIANT LastChangeServed
CHECK_DEADLOCK FALSE
