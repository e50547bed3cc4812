\* The page as it is: any handler may run while a request is under way.
SPECIFICATION Spec
CONSTANTS
  Requests = {r1, r2, r3}
  NoStream = NoStream
SYMMETRY Symmetry
INVARIANTS TypeOK OneCamera CameraFollowsTool RevokeTurnsItOff OffersUsableSearch
