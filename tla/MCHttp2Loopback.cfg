SPECIFICATION RetrySpec
CONSTANTS
  Workers = {"w1", "w2"}
  Streams = {"a", "b"}
  ConnOf <- MCConnOf
  Kinds = {"get"}
  MaxAttempts = 2
  IdleTurns = 2
  Resets = {}
  Torn = FALSE
  Failures = FALSE
PROPERTY RequestsAnswered
CHECK_DEADLOCK FALSE
