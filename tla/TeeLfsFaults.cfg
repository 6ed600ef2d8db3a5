SPECIFICATION Spec
CONSTANTS
  Path = {p1, p2}
  Handle = {h1}
  Byte = {0, 1}
  MaxLen = 1
  Payload <- OneByte
  Absent = Absent
  Closed = Closed
  NoCall = NoCall
  Fault = {"io", "space", "mem"}
  Maintenance = {"sector", "chip"}
  RenameOverwrite = {TRUE, FALSE}
SYMMETRY Symmetry
INVARIANTS TypeOK Accounted CachedSizeIsCurrent
PROPERTIES HandlersAdvance
