\* Two runs, one of them cut short, one write on a full disk, one file of garbage.
SPECIFICATION Spec
CONSTANTS
  a = a
  b = b
  c = c
  x = x
  y = y
  z = z
  NoSuffix = NoSuffix
  Image <- MCImage
  Name <- MCName
  Libraries <- MCLibraries
  Directories <- MCDirectories
  OfferMax = 3
  CharBit = 2
  Garbage <- MCGarbage
  MaxRuns = 2
  MaxCrashes = 1
  MaxFull = 1
  MaxGarbage = 1
INVARIANTS TypeOK StatusTellsLoss GivenUpOverOwnStub
PROPERTY KeepsFiles
