\* A password reset overlaps the client's change of password.
CONSTANTS
  Companies = {c1}
  Inns = {i1}
  Logins = {l1}
  Lower <- LowerCase
  Hashes = {h1, h2, h3}
  Tokens = {t1}
  Requests = {r1, r2}
  NoInn = NoInn
  NoToken = NoToken
  NoHash = NoHash
  Overlaps = {"passwords"}
SPECIFICATION Spec
SYMMETRY Symmetry
INVARIANTS
  TemporaryPasswordMustChange
