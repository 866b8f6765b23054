CONSTANTS
  Handlers = {h1}
  Conns = {}
  Main = Main
  Nobody = Nobody
  Domain = {a}
  Absent = Absent
  Bad = Bad
  Faults = {"kill", "reset"}
  MaxCA = 4
  MaxRequests = 2
  MaxFaults = 2
SPECIFICATION Spec
PROPERTY EnableTrustsCA
CHECK_DEADLOCK FALSE
