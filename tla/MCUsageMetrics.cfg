CONSTANTS
  l1 = l1  l2 = l2
  m1 = m1  m2 = m2
  Logs <- MCLogs
  Months <- MCMonths
  Bad = Bad
  Absent = Absent
  Torn = Torn
  MaxLines = 2
  MaxMats = 2
  MaxRewrites = 1
  MaxClock = 1
SPECIFICATION MetricsSpec
INVARIANTS CountedOnce
PROPERTIES HistoryKept
