\* Two requests for the camera under way at once.
SPECIFICATION Spec
CONSTANTS
  Requests = {r1, r2, r3}
  NoStream = NoStream
PROPERTY ToggleStopsCamera
