SPECIFICATION Spec
CONSTANTS
  Overshift <- MCOvershift
  Data <- MCData
  Masks <- MCMasks
  Status = {1000, 1001}
  Behind <- MCBehind
  Others = {"client"}
  Pieces = {3}
  MaxFrames = 3
INVARIANTS TypeOK StepIsKept CloseAgreed NothingHeldBack
PROPERTIES ChannelToServer ChannelToClient
CHECK_DEADLOCK FALSE
