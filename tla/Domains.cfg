SPECIFICATION Spec
CONSTANTS
  DomainNames = {d, e}
  Selectors = {"dkim", "s2"}
  DefaultSelector = "dkim"
  Workers = {w, v}
  MaxKeys = 2
  MaxTrouble = 2
SYMMETRY RequestSymmetry
INVARIANTS MapAgrees PairsMatch
PROPERTIES CreateKeepsKey
