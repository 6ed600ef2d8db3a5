SPECIFICATION Spec
CONSTANTS
  Blocks = 3
  Units = 2
  MaxFresh = 2
  File = {f1, f2}
  Absent = Absent
  NoFile = NoFile
  Fault = {"io"}
INVARIANTS TypeOK OnlyFreedZeroed RemovedIsScrubbed
PROPERTIES HeldUntouched
