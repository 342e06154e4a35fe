\* One API process, and the scheduler of the shipped container, no fault.
SPECIFICATION Spec
CONSTANTS
  Workers = {w1}
  Scheduler = cron
  Runners = {cron}
  Keys = {k1}
  Invoices = {i1}
  Visible = {i1}
  Amount <- MCAmount
  Due <- MCDue
  PayAmounts = {2}
  RefundAmounts = {1}
  Window = 1
  DayLength = 1
  MaxTime = 1
  MaxRequests = 2
  MaxRefunds = 0
  MaxFaults = 0
  GraceDays = 0
  DailyRateBps = 5000
  CapCents = 2
  None = None
PROPERTIES
  LegalTransitions
