SPECIFICATION Spec
CONSTANTS
  listener = listener
  feed = feed
  NoSock = NoSock
  Senders <- TwoSenders
  MaxFrames = 2
  MaxCloses = 1
  MaxOutages = 1
INVARIANTS
  SerialFramesIntact
  SerialLossNeedsOutage
  SerialReconnects
SYMMETRY Symmetry
