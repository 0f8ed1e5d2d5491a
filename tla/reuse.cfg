SPECIFICATION Spec
CONSTANTS
  data = data
  data1 = data1
  ext0 = ext0
  ext1 = ext1
  model0 = model0
  model1 = model1
  extDev = extDev
  master = master
  dev = dev
  features = features
  score = score
  Key <- MCKey
  Dataset <- MCDataset
  Api <- MCApi
  Branch <- MCBranch
  Pipeline <- MCPipeline
  FileName <- MCFileName
  FinalResults = score
  Writes <- MCWrites
  Stored <- MCStored
  CleanProcesses = TRUE
  MaxCommits = 4
  MaxCrashes = 1
CHECK_DEADLOCK FALSE
PROPERTIES
  RunsFromScratch
  SavesOnlyNewOutputs
