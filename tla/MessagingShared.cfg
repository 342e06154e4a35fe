\* Two messages with the same attachment, nothing concurrent, no fault.
SPECIFICATION Spec
CONSTANTS
  ann = ann
  bob = bob
  talk = talk
  hello = hello
  odd = odd
  scam = scam
  photo = photo
  None = None
  Workers = {w1}
  Runners = {cron}
  Scheduler = cron
  Users = {ann, bob}
  Conversations = {talk}
  Members <- MCMembers
  Bodies = {hello, odd, scam}
  Rules <- MCRules
  Files = {photo}
  Posts <- MCPosts
  RecallWindow = 1
  Retentions = {2}
  MaxTime = 3
  MaxRequests = 4
  MaxFaults = 0
INVARIANTS
  LiveHasFile
