\* The same code behind two API processes.
SPECIFICATION FairSpec
CONSTANTS
  Workers = {w1, w2}
  Scheduler = cron
  Runners = {cron}
  Keys = {k1, k2}
  Invoices = {i1, i2}
  Visible = {i1}
  Amount <- MCAmount
  Due <- MCDue
  PayAmounts = {1, 2}
  RefundAmounts = {1}
  Window = 1
  DayLength = 1
  MaxTime = 1
  MaxRequests = 2
  MaxRefunds = 0
  MaxFaults = 0
  GraceDays = 0
  DailyRateBps = 5000
  CapCents = 2
  None = None
PROPERTIES
  PaysOnce
  EveryRequestEnds
