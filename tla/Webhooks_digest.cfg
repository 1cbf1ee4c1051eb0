SPECIFICATION FairSpec
CONSTANTS
  h1 = h1
  h2 = h2
  u1 = u1
  u2 = u2
  completed = completed
  Hooks = {h1, h2}
  Users = {u1, u2}
  Owner <- OwnerOf
  Subs <- SubsOf
  Events = {completed}
  Digest = Digest
  Changes = {c1}
  MaxAttempts = 3
  MaxDigest = 1
  MaxTime = 6
  Nobody = Nobody
  NoFire = NoFire
CONSTRAINT Few
INVARIANTS TypeOK AnsweredIsOver DigestNotMissed
PROPERTIES DigestOnce DigestGoesOut
CHECK_DEADLOCK FALSE
