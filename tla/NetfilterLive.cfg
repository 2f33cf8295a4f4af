SPECIFICATION FairSpec
CONSTANTS
  net1 = net1
  net2 = net2
  host = host
  Nets <- TwoNets
  V6 = {net2}
  Addrs <- OneNet
  Private = {}
  Overlap <- SelfOverlap
  Hosts = {host}
  Answer <- HostAnswers
  MaxAttempts = 2
  RetryWindow = 1
  BanTime = 2
  MaxBanTime = 3
  BlackEntries = {net1, host}
  WhiteEntries = {}
  QueueNets = {}
  Faults = {"redis", "displace"}
  MaxTime = 3
  MaxRules = 1
  MaxCounter = 1
PROPERTIES OverdueBanLifted ChainRepaired BlacklistTakesHold
