SPECIFICATION FairSpec
CONSTANTS
  Requests = {r1, r2}
  Procs = {chrome, code}
  NumColumns = 2
  MaxPolls = 2
INVARIANTS TypeOK SnapshotsWhole SchemaComplete
PROPERTIES ReportsAnswered StopCloses
