SPECIFICATION FairSpec
CONSTANTS
  Path = {log}
  Handle = {h}
  Absent = Absent
  Closed = Closed
  NoCall = NoCall
  Log = log
  H = h
  Slots = 2
  MaxValue = 5
  Empty = Empty
  HeadUnit = HeadUnit
  Fault = {"io", "space", "mem"}
PROPERTIES ImplementsCounter CommandsReturn
