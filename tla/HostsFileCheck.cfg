CONSTANTS
  Domain = {a, b}
  UserText = {u, v}
  MaxLines = 4
SPECIFICATION Spec
INVARIANTS SplitMeetsReference RewriteIsStable
PROPERTY RewriteKeepsUserLines
