SPECIFICATION Spec
CONSTANTS
  v1 = v1
  v2 = v2
  d = d
  e = e
  k1 = k1
  k2 = k2
  i1 = i1
  i2 = i2
  r1 = r1
  Version = {v1}
  Document = {d}
  DocumentOf <- OneVersion
  Key = {k1}
  Ingestor = {i1, i2}
  Remover = {}
  VersionOf <- ReplayedOnly
  KeyOf <- OneKey
  MaxRuns = 1
  MaxFaults = 0
  LostFinalizeReply = FALSE
INVARIANTS
  ReadyJobSucceeded
