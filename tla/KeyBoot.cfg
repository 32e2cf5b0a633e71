SPECIFICATION FairSpec
CONSTANTS
  Vids = {v1}
  Models = {"campplus", "wide"}
  Dims = {1, 2}
  Dim <- MCDim
  MaxStops = 2
  None = None
INVARIANTS
  ServesWhatItReads
  NoKeyIsLost
  OneDimension
PROPERTY ComesBack
CHECK_DEADLOCK FALSE
