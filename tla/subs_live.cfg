\* Three calls for one socket when every query succeeds.
SPECIFICATION FairSpec
CONSTANTS
  s1 = s1 s2 = s2
  NULL = NULL GONE = GONE
  Subs = {s1}
  Tasks = {1, 2, 3}
PROPERTY ClosedSocketsForgotten
