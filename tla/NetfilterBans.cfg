SPECIFICATION Spec
CONSTANTS
  net1 = net1
  net2 = net2
  host = host
  Nets <- TwoNets
  V6 = {net2}
  Addrs <- OneNet
  Private = {}
  Overlap <- SelfOverlap
  Hosts = {host}
  Answer <- HostAnswers
  MaxAttempts = 2
  RetryWindow = 1
  BanTime = 2
  MaxBanTime = 3
  BlackEntries = {net1, host}
  WhiteEntries = {host}
  QueueNets = {net1}
  Faults = {"nft", "crash", "reboot"}
  MaxTime = 4
  MaxRules = 2
  MaxCounter = 1
INVARIANTS TypeOK ExpiryAgrees NoOrphanRule ListedBansAreOurs CleanExit
PROPERTIES NoEarlyLift
