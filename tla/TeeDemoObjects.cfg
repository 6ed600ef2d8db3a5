SPECIFICATION Spec
CONSTANTS
  MaxObjects = 2
  MaxBumps = 1
  Password = {w1, w2}
  Absent = Absent
  Torn = Torn
  Zeroed = Zeroed
  Fault = {"error", "sync"}
INVARIANTS TypeOK CopySurvives SuccessIsComplete PasswordInForce
