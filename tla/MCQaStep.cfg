SPECIFICATION StepSpec
CONSTANTS
  s1 = s1
  s2 = s2
  None = None
  Scopes = {s1, s2}
  Targets = {1, 2}
  Pages <- MCPages
  Steps <- MCSteps
  Requests <- MCRequests
  MaxChanges = 2
  MaxReads = 3
  MaxRequests = 2
INVARIANTS   SubmitIsWatched
PROPERTIES StepEnds
