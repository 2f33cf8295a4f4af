SPECIFICATION FairSpec
CONSTANTS
  Names <- TwoNames
  Priorities = {0, 1}
  Targets <- OneTarget
  MaxChains = 2
  MaxForeign = 3
INVARIANTS OneJump SetUp CleanStop LowestPriority
PROPERTIES OrderRestored
