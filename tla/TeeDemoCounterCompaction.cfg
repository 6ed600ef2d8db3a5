SPECIFICATION Spec
CONSTANTS
  Slots = 2
  MaxValue = 5
  OldValue = 2
  Start = {"absent"}
  Empty = Empty
  Fault = {}
INVARIANTS CounterStaysReadable
