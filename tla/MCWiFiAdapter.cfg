CONSTANTS
  Retries = 2
  RetryDelay = 2
  ConnectDelay = 1
  StatusDelay = 0
  MaxChanges = 3
SPECIFICATION Spec
INVARIANTS
  WiFiTypeOK
  AllJoinsTried
  StatusTruthful
  ReversionReported
PROPERTY EndsReachable
