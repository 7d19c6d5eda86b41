SPECIFICATION HSpec
CONSTANTS
  Configs <- MCConfigs
  RawPercents = {10, 25, 50, 97, 255}
  Rates <- MCRates
  FullCaps = {0, 100}
  Lateness = {0, 1}
  MaxAge = 2
INVARIANTS TypeOK LatchInv CriticalTold
PROPERTIES LadderSpec NoRepeat EstimateFollowsCharge StopEndsRun
