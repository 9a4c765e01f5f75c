SPECIFICATION FairSpec
CONSTANTS
  v1 = v1
  v2 = v2
  w1 = w1
  w2 = w2
  alice = alice
  Worker = {w1, w2}
  Visitor = {v1, v2}
  Nobody = nobody
  Subject <- Subjects
  LIMIT = 1
  Places = 1
  Room = 1
  Junk = {2}
  OneInside = TRUE
  MaxSessions = 2
  MaxConnections = 2
INVARIANTS OnlyOwners Accounted TrueAnswers
PROPERTIES StagedEnds
