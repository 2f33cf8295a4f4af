SPECIFICATION FairSpec
CONSTANTS
  net1 = net1
  net2 = net2
  host = host
  Nets <- TwoNets
  V6 = {net2}
  Addrs <- OneNet
  Private = {}
  Overlap <- SelfOverlap
  Hosts = {}
  Answer <- HostAnswers
  MaxAttempts = 2
  RetryWindow = 1
  BanTime = 2
  MaxBanTime = 3
  BlackEntries = {}
  WhiteEntries = {}
  QueueNets = {}
  Faults = {}
  MaxTime = 6
  MaxRules = 3
  MaxCounter = 1
PROPERTIES BansExpire
