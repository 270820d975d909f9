\* Two overlapping closes, one socket beside the process's own.
SPECIFICATION FairSpec
CONSTANTS
  c1 = c1 c2 = c2 s1 = s1
  Closes = {c1, c2}
  Sockets = {s1}
INVARIANTS
  TypeOK
  ServersStopFirst
  TornDownAtExit
  OpenAtExitHasACause
  StoresKickOnlyAtClose
PROPERTY CloseEnds
