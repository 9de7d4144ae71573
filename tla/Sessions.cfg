\* Two browsers, two overlapping requests, one password change.
CONSTANTS
  Browsers = {laptop, phone}
  Requests = {r1, r2}
  Tokens = {t1, t2}
  MaxSid = 3
  MaxChanges = 1
SPECIFICATION Spec
SYMMETRY Interchangeable
INVARIANTS OneBrowser OldPasswordOut
PROPERTIES DisplacedStaysOut SignedOutByItself
