SPECIFICATION Spec
CONSTANTS
  Powers = {3}
  Voltages = {12}
  Charges = {40}
  Unknown = 99
  Designs = {0, 50}
  TTL = 2
  MaxClock = 3
INVARIANTS TypeOK CapacityFresh RateOfFirst NothingOverlooked SentinelOnlyFills
