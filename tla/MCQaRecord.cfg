SPECIFICATION RecordSpec
CONSTANTS
  a = a
  b = b
  la = la
  twin = twin
  lb = lb
  x = x
  y = y
  s = s
  Null = Null
  Files = {a, b}
  Locs = {la, twin, lb}
  Titles = {x, y}
  Sources = {s}
  Cites <- MCCites
  Imports <- MCImports
  Artefact <- MCArtefact
  Fields <- MCFields
  Outputs <- MCOutputs
  Slots = {1, 2}
  Second = 2
  Slack = 1
  MaxTime = 3
  MaxRuns = 2
INVARIANTS
  PassRestsOnAllCited
  StaleIsTold
