SPECIFICATION Spec
CONSTANTS
  Hosts = {"mx", "MX", "ip"}
  IPs = {"ip"}
  Fold <- FoldedHosts
  Ports = {"none", "587"}
  NoPort = "none"
  Requests <- AskedRows
  Accepted <- AcceptedDestinations
  Usernames = {"", "u"}
  Passwords = {"", "p", "q"}
  Empty = ""
  Workers = {w, v}
  MaxTransports = 3
SYMMETRY WorkerSymmetry
INVARIANTS TypeOK SameCredentials DuplicatesBounded
PROPERTIES OthersKeepUsername
