CONSTANTS
  Handlers = {h1, h2}
  Main = Main
  Nobody = Nobody
  Domain = {a, b}
  Target = {t}
  Lost = Lost
  UserText = {u}
  Faults = {"disk", "kill", "hosts"}
  MaxChanges = 4
SPECIFICATION Spec
INVARIANTS TypeOK HostsFollowTable
PROPERTY SoloRewriteKeepsLines
CHECK_DEADLOCK FALSE
