SPECIFICATION FairSpec
CONSTANTS
  MaxFrames = 2
  MaxFaults = 1
  MaxRequests = 2
INVARIANTS
  EndsWithTheReply
  OnePieceLate
PROPERTIES
  SpinnerStops
CHECK_DEADLOCK FALSE
