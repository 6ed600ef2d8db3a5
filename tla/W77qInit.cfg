SPECIFICATION Spec
CONSTANT Fault = {"qlib", "config", "flash"}
INVARIANTS
  CleanBootIsSecure
  ConfiguresOnce
  ObjectsSurviveBoots
  SessionClosesPlain
