SPECIFICATION FairSpec
CONSTANTS
  Keys = {"k1"}
  Clients = {"c1", "c2"}
  Videos = {"v1"}
  Quota = 2
  Minute = 3
  MaxWindow = 2
INVARIANTS TypeOK QuotaInWindow DeletedNotQuoted ReferencesWhole
PROPERTIES EagerSpec KeyNotStarved
