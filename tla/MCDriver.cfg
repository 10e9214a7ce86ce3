SPECIFICATION DriverSpec
CONSTANTS
  Caller = {h1, h2, h3}
INVARIANTS
  SingleRunner
  NoLostRequest
PROPERTIES
  ChangeIsSeen
