\* Files of one to seventeen bytes where fifteen are the most, one change.
SPECIFICATION Spec
CONSTANTS
  ByteValues = 2
  Capacity = 3
  Offered <- MCOffered
  Versions <- MCVersions
  MaxChanges = 1
INVARIANTS TypeOK CrossInStep
PROPERTY DownloadIsOver
