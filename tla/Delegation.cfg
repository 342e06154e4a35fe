\* One API process and the scheduler, statements, ticks and a crash in any order.
SPECIFICATION FairSpec
CONSTANTS
  county = county
  town = town
  home = home
  away = away
  ann = ann
  bob = bob
  cyd = cyd
  None = None
  Workers = {w1}
  Runners = {w1, cron}
  Scheduler = cron
  Users = {ann, bob, cyd}
  Admins = {ann, bob, cyd}
  Areas = {county, town, home, away}
  Parent <- MCParent
  Own <- MCOwn
  Proposals <- MCProposals
  Expiries = {1, 2, 3}
  Lookups <- MCLookups
  MaxWindow = 1
  MaxTime = 2
  MaxRequests = 4
  MaxFaults = 1
INVARIANTS
  TypeOK
  AccessIsBacked
  AuditTruthful
PROPERTIES
  LapsedRevoked
  DecidedOnce
