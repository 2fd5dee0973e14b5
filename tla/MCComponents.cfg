SPECIFICATION ComponentsSpec
CONSTANTS
  d1 = d1
  d2 = d2
  d3 = d3
  e1 = e1
  Chunk = {d1, d2, d3, e1}
  ChunkOrder <- LexicographicOrder
  ChunkOf <- Documents
  RrfK = 60
  MaxRank = 3
  QuoteOf <- ChunkQuotes
  TopK = 3
  CandidateK = 4
  Threshold = 1
  HitScores = {0, 1, 2}
  Replies <- ModelReplies
  MaxClaims = 2
  AuditedClaims <- ClaimsSaid
  AuditedEvidence <- ChunksInARow
  ExpectedOwner = "me"
  ActiveIdentities <- OneVersion
  Document = {"d", "e"}
  Tenant = {"t", "u"}
  Library = {"lib"}
  Folder = {"f"}
  Corpora <- TwoChunks
  Scopes <- ScopesOfT
  Caller = {"w1", "w2", "w3", "w4"}
  Connection = {"k1", "k2", "k3", "k4"}
  MaxConnections = 2
  RunId = {"g", "c"}
  Scripts <- RunScripts
  Papers <- RunPapers
  MaxAttempts = 2
  MaxFaults = 2
  Builder = {"b1", "b2", "b3"}
  ChunkFile <- BuilderFiles
  SearchedFile = "ours"
  Migrator = {"m1", "m2", "m3"}
  Checksum <- Checksums
  Latest = 2
  Questions <- SmallCorpus
  Discount <- Discounts
  Rankings <- SmallRankings
  Evaluations <- SmallEvaluations
  Workloads <- SmallWorkloads
  Targets = 4
  EmptyCases = 2
  CanarySize <- SmallCanary
  Versions = 3
  Jobs = 9
  Measurements <- SmallMeasurements
  Token <- AllTokens
  Comparisons <- SmallComparisons
  TargetChars = 8
  MaxChars = 10
  OverlapTarget = 2
  ChunkSize = 8
  Overlap = 3
  BlockLimit = 9
  MinimumText = 6
  PaperTexts <- SmallPapers
INVARIANTS
  FusionKeepsAgreement
  CoverageDisplacesOne
  RerankingStaysWithin
  
  
  NobodyWaitsInVain
  ConnectionsAccounted
  ServesVerifiedAndCloses
  PassMeansErased
  
  
  MigrationsRunOnce
  
  AccessNeverWidens
  
  ComparisonKeepsSides
  EvaluationIsSound
CHECK_DEADLOCK FALSE
