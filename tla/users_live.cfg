\* Two requests, two themes (both writes of an update happen), every query settles.
SPECIFICATION FairSpec
CONSTANTS
  r1 = r1 r2 = r2 r3 = r3 seed = seed u1 = u1 u2 = u2
  e1 = e1 e2 = e2 dark = dark light = light
  NULL = NULL
  Seeded <- SeedOne
  SeedEmail <- SeedOneEmail
  SeedTheme = dark
  Ids = {seed, u1, u2}
  Emails = {e1, e2}
  Requests = {r1, r2}
  Themes = {dark, light}
PROPERTY ClosingEnds
