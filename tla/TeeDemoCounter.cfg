SPECIFICATION Spec
CONSTANTS
  Slots = 2
  MaxValue = 5
  OldValue = 2
  Start = {"absent", "old"}
  Empty = Empty
  Fault = {"error", "sync", "read"}
INVARIANTS TypeOK CacheMatchesLog
PROPERTIES Monotonic
