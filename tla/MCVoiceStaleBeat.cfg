\* A heartbeat reply that arrives after its session was ended.
SPECIFICATION PatientSpec
CONSTANTS
  NoCall = NoCall
  Metered = TRUE
  Calls = {c1, c2}
  Teardowns = {t1, t2}
CHECK_DEADLOCK FALSE
PROPERTY LimitMeansSpent
