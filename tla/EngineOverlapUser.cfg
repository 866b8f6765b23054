CONSTANTS
  Handlers = {h1, h2}
  Main = Main
  Nobody = Nobody
  Domain = {a, b}
  Target = {t}
  Lost = Lost
  UserText = {u}
  Faults = {}
  MaxChanges = 3
SPECIFICATION Spec
INVARIANT UserLinesKept
CHECK_DEADLOCK FALSE
