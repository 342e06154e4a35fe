\* The shipped container: one API process.
SPECIFICATION Spec
CONSTANTS
  Workers = {w1}
  Users = {root, ann}
  FirstAdmins = {root}
  Secrets = {s1, s2}
  None = None
  LOCKOUT_THRESHOLD = 2
  LOCKOUT_WINDOW = 1
  CAPTCHA_TTL = 1
  TOKEN_LIFETIME = 2
  MaxTime = 2
  MaxChallenges = 3
  MaxRequests = 4
  MaxFaults = 1
INVARIANTS
  CaptchaOnce
  LockoutHolds
  OneSession
  MfaProven
SYMMETRY Symmetric
