SPECIFICATION Spec
CONSTANTS
  Domains = {"d"}
  Users = {"u"}
  Workers = {"w"}
  MaxRelayHosts = 1
  Clients = {"smtpd1", "smtpd2"}
  PoolSize = 1
INVARIANTS TypeOK
PROPERTIES NoneLeftDangling Answered ChangeIsSeen
