CONSTANTS
  s1 = s1
  c1 = c1
  x1 = x1
  i1 = i1
  Submit <- MCSubmit
  Cancel <- MCCancel
  Replace <- MCReplace
  IntentOf <- MCIntentOf
  MaxInbox = 1
SPECIFICATION FairSpec
CHECK_DEADLOCK FALSE
INVARIANTS
  OutcomeTruthful
  ReplacesCancelledOnly
  AtMostOneOrder
PROPERTIES
  DeliveryKept
  CallReturns
