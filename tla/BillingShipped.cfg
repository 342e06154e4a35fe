\* The shipped container: one API process and the scheduler.
SPECIFICATION Spec
CONSTANTS
  Workers = {w1}
  Scheduler = cron
  Runners = {cron, w1}
  Keys = {k1, k2}
  Invoices = {i1}
  Visible = {i1}
  Amount <- MCAmount
  Due <- MCDue
  PayAmounts = {1, 2}
  RefundAmounts = {1}
  Window = 1
  DayLength = 1
  MaxTime = 3
  MaxRequests = 2
  MaxRefunds = 1
  MaxFaults = 1
  GraceDays = 1
  DailyRateBps = 5000
  CapCents = 2
  None = None
INVARIANTS
  TypeOK
  OneKeyOnePayment
  AnswersAgree
  SettledHasSnapshot
  FeeNeverAhead
PROPERTIES
  SettlingIsCovered
  NoPaymentOnSettled
SYMMETRY Symmetric
