SPECIFICATION FairSpec
CONSTANTS
  WordMod = 16
  FlashSize = 8
  CmdSizes = {0, 1}
  AddrSizes = {0, 1}
  OutSizes = {0, 1}
  DummyCycles = {0, 1, 72}
  InSizes = {0, 2}
  Addresses = {0, 7, 15}
INVARIANTS TypeOK FramesNotShared SuccessIsOneFrame ManualMode ReadsAreFresh ReadsInsideWindow
PROPERTIES ModeSwitchedIdle TransactionAdvances CallsReturn
