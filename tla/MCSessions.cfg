SPECIFICATION SessionsSpec
CONSTANTS
  Sids = {"s1", "s2"}
  Posts = {"p1", "p2"}
  MaxPool = 1
  IdleTimeout = 0
  FailureTtl = 0
  FailureMax = 1
  NoSid = "nosid"
  MaxPosts = 2
INVARIANTS AnswerIsTrue
PROPERTIES SweepSparesActive AbandonedFreesSlot
CHECK_DEADLOCK FALSE
