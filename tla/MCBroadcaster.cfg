SPECIFICATION Spec
CONSTANTS
  Watchers = {w1, w2}
  created = created
  deleted = deleted
  Payload <- MCPayload
  Since <- MCSince
  MaxEvents = 2
  MaxRevision = 3
INVARIANTS
  TypeOK
  BufferIsSuffix
  NoGapNoDuplicate
PROPERTIES
  EveryEventReachesEveryWatcher
  ImplementsWatchLog
