\* Sync: batches of a fixed size, asked for in the same size (here 2).
SPECIFICATION Spec
CONSTANTS
  h1 = h1
  h2 = h2
  h3 = h3
  h4 = h4
  NoExif = NoExif
  Unreadable = Unreadable
  Hash <- MCHash
  Directories <- MCDirectories
  Threshold = 2
  Unique = TRUE
  Request = 2
INVARIANTS TypeOK CountedAreLinked EmptyBatchIsLast WaiterIsOwedNotify
PROPERTIES ImplementsStream StreamFlows
