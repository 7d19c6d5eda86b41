SPECIFICATION HSpec
CONSTANTS
  Configs <- MCConfigs
  RawPercents = {10, 50, 255}
  Rates <- MCRates
  FullCaps = {100}
  Lateness = {0}
  MaxAge = 2
PROPERTY UnplugNotified
