SPECIFICATION FairSpec
CONSTANTS
  w1 = w1
  w2 = w2
  j1 = j1
  j2 = j2
  Job = {j1, j2}
  Worker = {w1, w2}
  MaxAttempts = 3
  Lease = 2
  BaseRetry = 2
  MaxRetry = 3
  Ahead <- OneAhead
INVARIANTS
  TypeOK
  AttemptsWithinLimit
  SucceededMeansDeleted
  OneLeaseHolder
PROPERTIES
  TerminalIsFinal
  EveryJobEnds
