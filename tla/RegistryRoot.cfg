\* Two first puts of a council overlap.
SPECIFICATION Spec
CONSTANTS
  Councils = {c1}
  Admins = {a1}
  Providers = {p1}
  Users = {u1}
  Handlers = {h1, h2}
  MaxRoots = 2
SYMMETRY RegistrySymmetry
PROPERTIES RootNeverOverwritten
