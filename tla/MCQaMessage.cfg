SPECIFICATION Spec
CONSTANTS
  Code = {c1}
  Short = Short
  NoMatch = NoMatch
  Other = Other
  Sendable = {c1, Short, NoMatch, Other}
  Declared = {"mailpit", "file", "outside"}
  Skew <- Behind
  Wait = 2
  Poll = 1
  Request = 1
  Reads = 2
  MaxClock = 7
  MaxStart = 1
  MaxMessages = 2
  MaxLosses = 1
INVARIANTS MailIsOfTheCase NewestIsRead SmsIsOfTheCase
