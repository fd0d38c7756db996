SPECIFICATION Spec
CONSTANTS
  MaxText = 3
  MaxKeys = 2
  MaxPath = 3
  MaxBlock = 3
  FragmentPayload = 6
  MaxFragments = 5
INVARIANTS ArrivesAsSent StrictDecode
CHECK_DEADLOCK FALSE
