\* Patient users and others, on every kind of deployment.
SPECIFICATION Spec
CONSTANTS
  Urls <- MCUrls
  Pins <- MCPins
  NoUrl = NoUrl
  Session = Session
  Devices = {usb}
  Default = Default
  Untouched = Untouched
  Angles = {300}
  Rungs = 2
INVARIANTS TypeOK DeployDecides CallHasSettings SnapshotFits
PROPERTY SavedAsEntered
