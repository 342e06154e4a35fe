SPECIFICATION Spec
CONSTANTS
  Workers = {w1}
  Applicants = {ann}
  Reviewers = {root, lee}
  mill = mill
  rice = rice
  four = four
  nine = nine
  Names = {mill, rice}
  Digits = {four, nine}
  None = None
  Entries <- MCEntries
  Changes <- MCChanges
  Picks <- MCPicks
  MonthLengths <- MCMonthLengths
  Terms <- MCTerms
  MaxRequests = 4
  MaxFaults = 2
INVARIANTS
  DecisionsAgree
  DecidedIsRecorded
  OneOpenFlag
  WarnedUnlessMerged
  MergesTraceable
  ContractsComplete
