SPECIFICATION ExemplarsSpec
CONSTANTS
  Dim = 3
  Embeddings <- MCEmbeddings
  MAX_EXEMPLARS = 3
  MaxSteps = 7
  NoProfile = NoProfile
  NoCentroid = NoCentroid
  NoClip = NoClip
INVARIANTS
  CentroidIsDerived
  RetryAccepted
PROPERTY RestoreIsExact
CHECK_DEADLOCK FALSE
