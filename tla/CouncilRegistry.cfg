\* Two councils compete for a user; everything overlaps.
SPECIFICATION Spec
CONSTANTS
  Councils = {c1, c2}
  Admins = {a1, a2}
  Providers = {p1, p2}
  Users = {u1}
  Handlers = {h1, h2}
  MaxRoots = 2
SYMMETRY RegistrySymmetry
INVARIANTS RegistryTypeOK KeysRecoverable ServedAsRegistered
PROPERTIES CouncilsStayTheirs UsersStayPut
