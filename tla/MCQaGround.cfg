SPECIFICATION GroundSpec
CONSTANTS
  Roles = {"anonymous", "admin"}
  Routes <- MCRoutes
  PathOf <- MCPathOf
  Slug <- MCSlug
  Digest <- MCDigest
  PrefixChoices <- MCPrefixes
  Cands <- MCCands
  Carries <- MCCarries
  Named = {"ab"}
  Holds <- MCHolds
  Declared = {"alice"}
  Clears = {"localhost"}
  Public = {"localhost"}
  Short = {"ab"}
  Views <- MCPages
  Away = "away"
  Edits <- MCEdits
  Overlays = {"banner"}
  Writes = {"banner"}
  Dedicated = {"admin"}
  Nothing = Nothing
  MaxCalls = 2
  MaxPolls = 3
  MaxTurns = 1
INVARIANTS AnswersItsOwn SecretsWithheld
PROPERTIES KindsApart LeftIsNotWritten
