SPECIFICATION Spec
CONSTANTS
  user = user
  admin = admin
  guest = guest
  t1 = t1
  t2 = t2
  code = code
  v = v
  w = w
  s = s
  api = api
  db = db
  mail = mail
  far = far
  none = none
  N = 2
  Menu <- MCMenu
  Roles = {user, admin, guest, far}
  Declared = {user, admin, guest}
  Dedicated = {user}
  PreAuth = {admin, guest}
  Alternative <- MCAlternative
  Texts = {t1, t2}
  Confirmed = {t1}
  LocalSeeds = {t1}
  Captures <- MCCaptures
  Redacted <- MCCaptures
  Names = {code}
  Values = {v, w, s}
  Short = {s}
  Leaving = {w}
  Places = {api, db, mail, far}
  Local = {api, db, mail}
  Headers = {api}
  None = none
INVARIANTS RefusedIsUntouched ProvesItsSession SeededNamesAreTheirs
PROPERTIES KnownSecretsAreMasked
