CONSTANTS
  Handlers = {h1, h2}
  Janitor = Janitor
  Main = Main
  Nobody = Nobody
  Torn = Torn
  User = {alice}
  Domain = {a}
  Faults = {"registry", "mappings"}
  Outside = {"wipe", "during"}
  MaxChanges = 2
  MaxOutside = 1
  MaxFaults = 1
  MaxLogons = 0
SPECIFICATION FairSpec
INVARIANT NoOrphans
PROPERTIES OffAckMeansOff EventuallyCovered RequestsEnd
