CONSTANTS
  s1 = s1  s2 = s2  s3 = s3
  c1 = c1  c2 = c2
  o1 = o1  o2 = o2  o3 = o3  o4 = o4  o5 = o5
  Others = {o1, o2, o3, o4, o5}
  Plan <- MCPlan
  Settled <- MCSettled
  Undeclared = Undeclared
  Callers = {p1}
  Steps = {s1, s2, s3}
  Cases = {c1, c2}
  CaseOf <- MCCaseOf
  Partial = {c2}
  NoStep = NoStep
  Unreadable = Unreadable
  Absent = Absent
  MaxRuns = 2
  MaxFaults = 2
SPECIFICATION FairSpec
INVARIANTS TotalsAddUp EvidenceBacksVerdict RecordedVerdictStays
PROPERTIES KeepsVerdicts EveryCaseSettles
