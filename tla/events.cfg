\* Two instances, two sockets, two events and a message of a client; the client of
\* an instance tries again once, one connection or instance breaks.
SPECIFICATION Spec
CONSTANTS
  i1 = i1 i2 = i2 s1 = s1 s2 = s2 e1 = e1 e2 = e2 n1 = n1
  Instances = {i1, i2}
  Sockets = {s1, s2}
  Events = {e1, e2}
  Notes = {n1}
  Attempts = 1
  MaxBreaks = 1
SYMMETRY Symmetry
INVARIANTS
  TypeOK
  HeardInOrder
  UnheardHasACause
