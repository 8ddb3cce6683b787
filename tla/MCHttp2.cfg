SPECIFICATION FairSpec
CONSTANTS
  Workers = {"w1", "w2"}
  Streams = {"a", "c"}
  ConnOf <- MCConnOf
  Kinds = {"get", "post", "body"}
  MaxAttempts = 2
  IdleTurns = 2
  Resets = {"a"}
  Torn = TRUE
  Failures = TRUE
INVARIANTS
  DescriptorsOwned
  PolledStreamsLive
  AnsweredOnce
  AnswerIsWhole
PROPERTIES
  ClientGoneFreesWorker
  IdleConnectionEnds
CHECK_DEADLOCK FALSE
