SPECIFICATION Spec
CONSTANTS
  Options <- Again
  MaxStarts = 2
  MaxChanges = 3
  MaxRequests = 0
  MaxMessages = 0
INVARIANT ServerHosts
CHECK_DEADLOCK FALSE
