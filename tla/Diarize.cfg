SPECIFICATION FairSpec
CONSTANTS
  Calls = {c1, c2, c3}
  Workers = 2
  MaxDecode = 1
  IdleLimit = 3
  Nobody = Nobody
INVARIANTS
  SessionIsOwn
  AnswerIsOwn
  SilenceBounded
PROPERTY EveryStreamEnds
CHECK_DEADLOCK FALSE
