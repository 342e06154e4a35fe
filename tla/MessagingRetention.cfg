\* The scheduler, a fixed retention period, no fault: a message is reported.
SPECIFICATION FairSpec
CONSTANTS
  ann = ann
  bob = bob
  talk = talk
  hello = hello
  odd = odd
  scam = scam
  photo = photo
  None = None
  Workers = {w1}
  Runners = {cron}
  Scheduler = cron
  Users = {ann, bob}
  Conversations = {talk}
  Members <- MCMembers
  Bodies = {hello, odd, scam}
  Rules <- MCRules
  Files = {photo}
  Posts <- MCPosts
  RecallWindow = 1
  Retentions = {0}
  MaxTime = 3
  MaxRequests = 2
  MaxFaults = 0
PROPERTIES
  OldRemoved
