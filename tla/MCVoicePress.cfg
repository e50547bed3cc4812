\* A button pressed while a teardown awaits close().
SPECIFICATION Spec
CONSTANTS
  NoCall = NoCall
  Metered = TRUE
  Calls = {c1, c2, c3}
  Teardowns = {t1}
CHECK_DEADLOCK FALSE
INVARIANT OneConnect
