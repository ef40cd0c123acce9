CONSTANTS
  Drivers = {d1}
  Workers = {w1, w2}
  MaxFailures = 1
  NoProfile = NoProfile
  NoSession = NoSession
SPECIFICATION FairSpec
PROPERTY StaleDriversLeaveThePool
