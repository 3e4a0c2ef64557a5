\* A message of a task between the hello messages.
SPECIFICATION Spec
CONSTANTS
  Setups <- OneMessage
  Instant = {1}
INVARIANTS
  ExactlyOnce
CHECK_DEADLOCK FALSE
