SPECIFICATION Spec
CONSTANTS
  alice = alice
  root = root
  b1 = b1
  r1 = r1
  r2 = r2
  Accounts = {alice}
  Admin = root
  Plans <- MCPlans
  Requests = {r1, r2}
  Browsers = {b1}
  SessionTTL = 2
  AuditCap = 1
  MaxTime = 3
  MaxRequests = 3
SYMMETRY HandlerSymmetry
INVARIANTS
  TypeOK
  CalmStoreIsSerial
  PermissionsAreRecent
CHECK_DEADLOCK FALSE
