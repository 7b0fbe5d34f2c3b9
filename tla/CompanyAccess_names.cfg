\* Two companies that compete for one tax number and two spellings of a login. Inserts and
\* edits always overlap: Overlaps only concerns operations on one company.
CONSTANTS
  Companies = {c1, c2}
  Inns = {i1}
  Logins = {l1, l2}
  Lower <- LowerCase
  Hashes = {h1, h2, h3}
  Tokens = {}
  Requests = {r1, r2}
  NoInn = NoInn
  NoToken = NoToken
  NoHash = NoHash
  Overlaps = {}
SPECIFICATION Spec
SYMMETRY Symmetry
INVARIANTS
  FieldsAreUnique
