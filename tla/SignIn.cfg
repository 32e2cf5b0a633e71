SPECIFICATION SignInSpec
CONSTANTS
  Tabs = {t1, t2}
  Emails = {alice, bob}
  StateTTL = 1
  SessionTTL = 2
  MaxLogins = 3
  MaxTime = 4
  MaxBoots = 2
  None = None
SYMMETRY Symmetry
INVARIANTS
  RefusedOnlyIfMet
  OnlyNewestPasses
  SessionMeansSignIn
CHECK_DEADLOCK FALSE
