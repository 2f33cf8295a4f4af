SPECIFICATION Spec
CONSTANTS
  Domain = {"d"}
  User <- Users
  Address <- Addresses
  DomainOf <- InOneDomain
  Gotos <- OneGoto
  Rows <- SomeRows
  Limits <- TightLimits
  Workers = {w1, w2}
  u = u
  v = v
  a = a
SYMMETRY WorkersAndUsers
PROPERTIES LimitsKept OrphansOnlyByRace ViewClean ViewComplete
