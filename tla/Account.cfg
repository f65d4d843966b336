SPECIFICATION Spec
CONSTANTS
  Users = {u1, u2}
  Emails = {e1, e2, e3}
  Snowflakes = {s1}
  Browsers = {b1, b2}
  Handlers = {h1, h2}
  None = None
  MAX_FAILED_ATTEMPTS = 2
  OTP_REQUEST_MAX = 3
  Menus <- Together
SYMMETRY Symmetric
INVARIANTS
  CodeWorksOnce
  EmailIsProved
  ChangesAreFunded
  DeletedStaysEmpty
CHECK_DEADLOCK FALSE
