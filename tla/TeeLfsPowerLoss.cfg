SPECIFICATION Spec
CONSTANTS
  Path = {p1, p2}
  Handle = {h1, h2}
  Byte = {0, 1}
  MaxLen = 2
  Payload <- TwoBytes
  Absent = Absent
  Closed = Closed
  NoCall = NoCall
  Fault = {"mem"}
  Maintenance = {"sector", "chip"}
  RenameOverwrite = {TRUE, FALSE}
SYMMETRY Symmetry
INVARIANTS AckedSurvivesPowerLoss ReadsReturnTheObject ReadyMeansMounted CreateExclusive
