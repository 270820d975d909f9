\* The same calls when every query succeeds.
SPECIFICATION HealthySpec
CONSTANTS
  s1 = s1 s2 = s2
  NULL = NULL GONE = GONE
  Subs = {s1, s2}
  Tasks = {1, 2, 3}
INVARIANT ListIsComplete
