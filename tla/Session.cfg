\* Two tabs of one browser, an admin and a farmer.
SPECIFICATION Spec
CONSTANTS
  root = root
  ann = ann
  Users = {root, ann}
  RoleOf <- MCRoleOf
  Tabs = {t1, t2}
  None = None
  MaxClicks = 3
  MaxFaults = 1
INVARIANTS
  TokenMatchesUser
  CaptchaPaired
  ResentAfterSignup
  SignedOutEverywhere
PROPERTIES
  LiveSessionKept
CHECK_DEADLOCK FALSE
SYMMETRY Symmetric
