\* Three calls for two sockets, with failures and crashes.
SPECIFICATION Spec
CONSTANTS
  s1 = s1 s2 = s2
  NULL = NULL GONE = GONE
  Subs = {s1, s2}
  Tasks = {1, 2, 3}
SYMMETRY Symmetry
INVARIANTS
  TypeOK
  OrderlySocketsAgree
  DuplicatesHaveACause
  GhostsHaveACause
  ListenersAsked
  KeysExpire
