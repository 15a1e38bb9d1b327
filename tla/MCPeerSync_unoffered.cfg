\* What sample.py asserts at the end, where no offer can be misread.
SPECIFICATION Spec
CONSTANTS
  master = master
  slave = slave
  a = a
  b = b
  c = c
  d = d
  e = e
  Peers <- MCPeers
  Hash <- MCHash
  Libraries <- MCDisjoint
  NameLength <- MCLongNames
  UpdateMax = 2
  OfferMax = 2
  CharBit = 8
  Reliable = TRUE
  MaxCrashes = 0
INVARIANT AllTransferred
