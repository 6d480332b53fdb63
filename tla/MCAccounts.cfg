SPECIFICATION Spec
CONSTANTS
  Logins = {l1, l2}
  CodexLogins = {l1}
  Accounts = {A, B}
  First = A
  Nobody = Nobody
  MaxVersion = 2
  Crashing = FALSE
INVARIANT SnapshotIsOwn
CHECK_DEADLOCK FALSE
