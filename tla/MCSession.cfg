\* Two tabs of one user racing for a session, over a budget of two chunks.
CONSTANTS
  Visits = {v1, v2}
  Metered = {v1, v2}
  Budget = 2
  Slots = 1
  QueueMax = 1
SPECIFICATION LiveSpec
INVARIANTS TypeOK WaitingIsFree GrantIsMetered OverspendBounded
PROPERTIES ReservationsSettle LineMoves
