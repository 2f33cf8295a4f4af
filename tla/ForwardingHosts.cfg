SPECIFICATION ForwardingSpec
CONSTANTS
  Names = {"x", "y", "z"}
  IPv6 = {"c"}
  MaxStack = 7
  Zones <- ManyZones
  Followed <- TwoZones
  Literals <- OneLiteral
  Hosts <- TheHosts
  Threads = {v, w}
SYMMETRY ThreadSymmetry
INVARIANTS HashesAgree SpfIsReachability
