CONSTANTS
  f1 = f1
  l1 = l1
  e1 = e1
  v1 = v1
  z1 = z1
  None = None
  Refresh <- MCRefresh
  Login <- MCLogin
  Restore <- MCRestore
  Save <- MCSave
  Clear <- MCClear
  MaxRestarts = 1
SPECIFICATION Spec
CHECK_DEADLOCK FALSE
INVARIANTS
  StoredIsChecked
  SerialAgreement
