SPECIFICATION Spec
CONSTANTS
  Percents <- MCPercents
  Capacities <- MCCapacities
  Batches <- MCBatches
  DayLen = 2
  HourLen = 1
  Offset = 1
  PerHour = 2
  MaxPoints = 2
  Spans = {1, 2, 3}
  MaxRows = 3
  MaxNow = 4
INVARIANTS TypeOK ExportComplete ReportsAgree PowerSampled
