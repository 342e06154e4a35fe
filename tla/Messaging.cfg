\* One API process and the scheduler, a crash, a retention period of any length.
SPECIFICATION FairSpec
CONSTANTS
  ann = ann
  bob = bob
  talk = talk
  hello = hello
  odd = odd
  scam = scam
  photo = photo
  None = None
  Workers = {w1}
  Runners = {w1, cron}
  Scheduler = cron
  Users = {ann, bob}
  Conversations = {talk}
  Members <- MCMembers
  Bodies = {hello, odd, scam}
  Rules <- MCRules
  Files = {photo}
  Posts <- MCPosts
  RecallWindow = 1
  Retentions = {0, 1}
  MaxTime = 3
  MaxRequests = 3
  MaxFaults = 1
INVARIANTS
  LostOnlyToTwin
PROPERTIES
  NoReadAfterRecall
  OldRemovedUnlessReported
