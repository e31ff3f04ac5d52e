SPECIFICATION LiveSpec
CONSTANTS
  Workers = {1, 2}
  Attempts = 1
  Clients = {c1, c2}
  Capacity = 1
  IdleTimeout = 1
  RetryDelay = 1
  Failures = 2
  Uses <- InferenceUses
INVARIANTS LeaseIsKept ContextsAreTended
PROPERTIES
  ClockIsLent
  ClockIsReturned
  Answers
CHECK_DEADLOCK FALSE
