SPECIFICATION ComponentsSpec
CONSTANTS
  w1 = w1  w2 = w2  closer1 = closer1  closer2 = closer2  k1 = k1  k2 = k2
  NoConn = NoConn
  Writers <- TwoWriters
  Closers <- TwoClosers
  Conns <- TwoConns
  MaxRetries = 2
  n1 = n1  n2 = n2  n3 = n3  END = END  NoNode = NoNode
  Names <- ThreeNames
  MaxRegistrations = 3
  p1 = p1  p2 = p2  a1 = a1  a2 = a2  code_type = code_type  doc_type = doc_type
  NoArtifact = NoArtifact
  Payloads <- TwoPayloads
  ArtifactIds <- TwoArtifacts
  Types <- TwoTypes
  Signals <- OnlyHalt
  max_iterations = 2
  max_tokens_per_execution = 1
  guard_iterations = 1
  guard_tokens = 1
  InputErrors <- SomeInputErrors
  OutputErrors <- SomeOutputErrors
  t1 = t1  t2 = t2  m1 = m1  m2 = m2
  NoFile = NoFile  NoTarget = NoTarget  NoClient = NoClient
  Tasks <- TwoTasks
  TargetNames <- TwoTargets
  Files <- ThreeFiles
  MaxClients = 3
  r1 = r1  r2 = r2  r3 = r3  d1 = d1  d2 = d2  NoRepo = NoRepo
  Repos <- ThreeRepos
  Dirs <- TwoDirs
  Dir <- DirOf
  max_concurrent = 2
INVARIANTS LossNeedsSecondConnection SchemaBeforeInsert UsableOnceInitialized
  CleanGraphsRun CompiledRoutesKnown PayloadsOnce ArtifactsFound RefusalHalts
  CallsShareTheCurrentClient SuccessMeansTree StraysHaveCause
PROPERTIES CallsEnd
CHECK_DEADLOCK FALSE
