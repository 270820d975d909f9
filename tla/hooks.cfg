\* Two hooks of either schema, two pulls, failures and crashes.
SPECIFICATION Spec
CONSTANTS
  h1 = h1 h2 = h2 p1 = p1 p2 = p2
  Hooks = {h1, h2}
  Pulls = {p1, p2}
SYMMETRY Symmetry
INVARIANTS
  TypeOK
  DeletedWasCalled
  CalledTwiceHasACause
  DueHooksAreCalled
