\* Updates over DCCP, lost and in any order; bytes of one bit.
SPECIFICATION Spec
CONSTANTS
  master = master
  slave = slave
  a = a
  b = b
  c = c
  d = d
  e = e
  Peers <- MCPeers
  Hash <- MCHash
  Libraries <- MCLibraries
  NameLength <- MCLongNames
  UpdateMax = 2
  OfferMax = 3
  CharBit = 2
  Reliable = FALSE
  MaxCrashes = 0
INVARIANTS TypeOK DownloaderNotStarved InStepUnlessMisread OffersAvoidUpdate
  LossIsExplained FallsOnlyAfterUpload
PROPERTIES ImplementsExchange Termination
