SPECIFICATION Spec
CONSTANTS
  None = None
  Entities = {e1, e2}
  Types = {y1, y2}
  Convs = {c1, c2}
  Texts = {fine, foul}
  Forbidden = {foul}
  Invoices = {i1, i2}
  Areas = {"profiles", "merging", "verification", "messaging", "rules", "finance", "delegations", "system"}
  Spent <- MCSpent
  MaxClicks = 5
  MaxFaults = 1
INVARIANTS
  ListsAreTrue
  DoneOnceUnlessUntold
  ButtonsComeBack
  DialogsActAsShown
  FieldsFit
  SentAsChecked
CHECK_DEADLOCK FALSE
SYMMETRY Symmetric
