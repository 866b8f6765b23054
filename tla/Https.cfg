CONSTANTS
  Handlers = {h1, h2}
  Conns = {c1}
  Main = Main
  Nobody = Nobody
  Domain = {a}
  Absent = Absent
  Bad = Bad
  Faults = {"kill", "certutil", "disk", "port", "reset"}
  MaxCA = 5
  MaxRequests = 3
  MaxFaults = 2
SPECIFICATION FairSpec
INVARIANTS TypeOK OffMeansNotServing ServingHasCerts OnIsRestartable
PROPERTIES RequestsEnd IsHttpsSwitch
CHECK_DEADLOCK FALSE
