SPECIFICATION Spec
CONSTANTS
  v1 = v1
  v2 = v2
  d = d
  e = e
  k1 = k1
  k2 = k2
  i1 = i1
  i2 = i2
  r1 = r1
  Version = {v1, v2}
  Document = {d}
  DocumentOf <- SuccessorDocument
  Key = {k1, k2}
  Ingestor = {i1, i2}
  Remover = {r1}
  VersionOf <- OneEach
  KeyOf <- OwnKeys
  MaxRuns = 2
  MaxFaults = 1
  LostFinalizeReply = FALSE
INVARIANTS
  TypeOK
  ReadyIsServable
  ReadyJobSucceeded
  CleanupOnlyOfInactive
PROPERTIES
  ImplementsVisibility
