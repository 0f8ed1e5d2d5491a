SPECIFICATION Spec
CONSTANTS
  data = data
  data1 = data1
  ext0 = ext0
  ext1 = ext1
  model0 = model0
  model1 = model1
  extDev = extDev
  master = master
  dev = dev
  features = features
  score = score
  Key <- MCKey
  Dataset <- MCDataset
  Api <- MCApi
  Branch <- MCBranch
  Pipeline <- RefusedPipeline
  FileName <- MCFileName
  FinalResults = score
  Writes <- RefusedWrites
  Stored <- StoredInPart
  CleanProcesses = FALSE
  MaxCommits = 3
  MaxCrashes = 2
CHECK_DEADLOCK FALSE
INVARIANT TypeOK
PROPERTIES
  NeverRetrains
  
