SPECIFICATION FairSpec
CONSTANTS
  t1 = t1
  t2 = t2
  Tabs = {t1, t2}
  MaxSessions = 1
  MaxIssues = 2
  MaxFaults = 1
INVARIANTS RevokedStaysRevoked CookieStaysGood
PROPERTIES EveryCallEnds
