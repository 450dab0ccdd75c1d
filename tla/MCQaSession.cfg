CONSTANTS
  l1 = l1  l2 = l2  l3 = l3
  Id <- Logins
  None = None  Never = Never
  Lifetime = {2}
  MaxAge = 1
  Floor = 0
  MintTimeout = 1
  LoginTimeout = 1
  Margin = 2
  MaxRetries = 1
  Config <- EveryKind
SPECIFICATION FairSpec
PROPERTIES HandedWasProven SavesOnlyProven MintSavesTogether RunwayAtHandOver EveryCallIsAnswered
