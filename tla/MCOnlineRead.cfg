SPECIFICATION FairSpec
CONSTANTS
  v1 = v1
  v2 = v2
  v3 = v3
  d = d
  e = e
  q1 = q1
  Version = {v1, v2, v3}
  Document = {d, e}
  DocumentOf <- TwoDocuments
  DocumentRank <- Alphabetical
  Question = {q1}
  Request <- Requests
  PoolCap = 2
  MaxFaults = 1
INVARIANTS
  TypeOK
  EvidenceStayedVisible
  
  
  ThreadsJoined
PROPERTIES
  QuestionEnds
CHECK_DEADLOCK FALSE
