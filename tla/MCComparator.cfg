SPECIFICATION Spec
CONSTANTS
  nReaders = 2
  Failure = "fails"
  Visits <- MCVisits
INVARIANT AllBlocked
CHECK_DEADLOCK FALSE
