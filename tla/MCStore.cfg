CONSTANTS
  Names = {a, b}
  BadNames = {bad}
  Targets = {t1, t2}
  BadTargets = {badTarget}
  MaxTail = 1
  NoFile = NoFile
  Torn = Torn
  Faults = {"disk", "kill"}
SPECIFICATION Spec
SYMMETRY Symmetry
INVARIANTS TypeOK UniqueDomains AckedChangeSaved
PROPERTIES IsMappingTable
CHECK_DEADLOCK FALSE
