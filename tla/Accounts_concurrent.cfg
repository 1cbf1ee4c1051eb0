SPECIFICATION Spec
CONSTANTS
  MaxId = 3
  Bases = {b1}
  MaxSuffix = 2
  Subjects = {s1, s2}
  Emails = {e1}
  r1 = r1
  r2 = r2
  Requests = {r1, r2}
  May <- Everything
  AdminGroup = TRUE
  AllowSignup = TRUE
  LinkByEmail = TRUE
  LinkByUsername = TRUE
  NoUser = NoUser
  NoSubject = NoSubject
  NoEmail = NoEmail
  NoCall = NoCall
SYMMETRY Identities
INVARIANTS TypeOK TaskOwnerExists IdentityUnique
