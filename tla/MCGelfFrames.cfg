SPECIFICATION Spec
CONSTANTS
  listener = listener
  feed = feed
  NoSock = NoSock
  Senders <- TwoSenders
  MaxFrames = 1
  MaxCloses = 0
  MaxOutages = 0
INVARIANT
  FramesIntact
