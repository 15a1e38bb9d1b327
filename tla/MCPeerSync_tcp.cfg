\* Updates over TCP (RELIABLE_UPDATE), and either process may be killed.
SPECIFICATION Spec
CONSTANTS
  master = master
  slave = slave
  a = a
  b = b
  c = c
  d = d
  e = e
  Peers <- MCPeers
  Hash <- MCHash
  Libraries <- MCFewLibraries
  NameLength <- MCShortName
  UpdateMax = 2
  OfferMax = 2
  CharBit = 1
  Reliable = TRUE
  MaxCrashes = 1
INVARIANTS InStepUnlessMisread LossIsExplained
PROPERTY Termination
CHECK_DEADLOCK FALSE
