\* Liveness, of the job: scheduler and administrator runs, a payment, one crash.
SPECIFICATION FairSpec
CONSTANTS
  Workers = {w1}
  Scheduler = cron
  Runners = {cron, w1}
  Keys = {k1}
  Invoices = {i1}
  Visible = {i1}
  Amount <- MCAmount
  Due <- MCDue
  PayAmounts = {2}
  RefundAmounts = {1}
  Window = 1
  DayLength = 1
  MaxTime = 2
  MaxRequests = 2
  MaxRefunds = 0
  MaxFaults = 1
  GraceDays = 0
  DailyRateBps = 5000
  CapCents = 2
  None = None
PROPERTIES
  OverdueNoticed
  FeesSettle
