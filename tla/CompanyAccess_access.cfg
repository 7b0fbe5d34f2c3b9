\* One company; decisions, password writes and logins are kept apart.
CONSTANTS
  Companies = {c1}
  Inns = {i1}
  Logins = {l1}
  Lower <- LowerCase
  Hashes = {h1, h2, h3}
  Tokens = {t1, t2}
  Requests = {r1, r2}
  NoInn = NoInn
  NoToken = NoToken
  NoHash = NoHash
  Overlaps = {}
SPECIFICATION Spec
SYMMETRY Symmetry
INVARIANTS
  TypeOK
  AccountFollowsStatus
  TemporaryPasswordMustChange
  SessionsAreCurrent
PROPERTIES
  DecisionsFollowStatus
  KeepsAccess
