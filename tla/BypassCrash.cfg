CONSTANTS
  Handlers = {h1}
  Janitor = Janitor
  Main = Main
  Nobody = Nobody
  Torn = Torn
  User = {alice}
  Domain = {a}
  Faults = {"registry", "kill", "save", "mappings"}
  Outside = {"add", "remove", "wipe"}
  MaxChanges = 3
  MaxOutside = 2
  MaxFaults = 2
  MaxLogons = 1
SPECIFICATION Spec
INVARIANTS TypeOK ToggleNotUndone
PROPERTIES QuietWhenOff UserEntriesUnclaimed
