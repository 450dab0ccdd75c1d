--------------------------- MODULE MCUsageMetrics ---------------------------
(* Two logs, two lines, two months, two materializations of which any may be killed.  *)
EXTENDS UsageMetrics

CONSTANTS l1, l2, m1, m2

MCLogs == <<l1, l2>>
MCMonths == <<m1, m2>>
=============================================================================
