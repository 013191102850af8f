SPECIFICATION AnalyticsSpec
CONSTANTS
  Facts = {"f1", "f2"}
  Malformed = {"f2"}
  Exporters = {"x1", "x2"}
  PerRound = 2
  MaxLapses = 1
  MaxSent = 2
CHECK_DEADLOCK FALSE
INVARIANTS
  RefusedRowsStay
