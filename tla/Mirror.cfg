SPECIFICATION Spec
CONSTANTS
  t1 = t1
  t2 = t2
  u1 = u1
  None = None
  Tenants = {t1, t2}
  Slugs = {x, y}
  Users = {u1}
  Home <- HomeIsT1
  Rows = 3
  Handlers = 2
  Roles = {"none", "customer", "admin"}
  MaxEvents = 2
  MaxFaults = 1
  MaxLocal = 1
INVARIANTS MirrorInv MirrorUpToDate NoneIsRefusedForEver
PROPERTIES LinkIsStable
SYMMETRY SlugsAreAlike
CHECK_DEADLOCK FALSE
