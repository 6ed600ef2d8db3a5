SPECIFICATION FairSpec
CONSTANTS
  Session = {s1, s2}
  Browser = {s1}
  Name = {a, b}
  Sector = {b}
  Value = {v}
  Empty = Empty
  Absent = Absent
  Torn = Torn
  Room = 1
  Fault = {"error", "dir"}
INVARIANTS TypeOK ListComplete FormatEmpties
PROPERTIES AtomicStore CommandsAdvance CommandsReturn
