CONSTANTS
  s1 = s1
  c1 = c1
  x1 = x1
  i1 = i1
  Submit <- MCSubmit
  Cancel <- MCNone
  Replace <- MCNone
  IntentOf <- MCIntentOf
  MaxInbox = 1
SPECIFICATION Spec
CHECK_DEADLOCK FALSE
INVARIANTS
  ThrowsOnlyBeforeSending
