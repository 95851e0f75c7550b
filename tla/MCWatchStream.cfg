SPECIFICATION SpecStream
CONSTANTS
  Ids = {a, b}
  Clients = {c}
  MaxEvents = 2
  Usable = 5
  MaxRevision = 4
  MaxInserts = 6
INVARIANTS
  TableMatchesEvents
  StreamsHaveNoGap
  ClientKnowsInstances
PROPERTIES
  ClientConverges
