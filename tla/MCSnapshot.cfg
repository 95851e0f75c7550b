SPECIFICATION SafetyStream
CONSTANTS
  Ids = {a, b}
  Clients = {c}
  MaxEvents = 2
  Usable = 5
  MaxRevision = 5
  MaxInserts = 6
PROPERTIES
  SnapshotIsComplete
