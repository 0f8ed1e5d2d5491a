SPECIFICATION Spec
CONSTANTS
  w1 = w1
  w2 = w2
  w3 = w3
  base = base
  numpy = numpy
  torch = torch
  foreign = foreign
  NoManifest = NoManifest
  Worker <- MCWorker
  Package <- MCPackage
  BasePackages <- MCBasePackages
  LibName <- MCLibName
  LibVersion <- MCLibVersion
  Component <- MCComponent
  Lib <- MCLib
  NumSlot = 2
  IOThreads = 2
  CheckOnCaching = TRUE
  CheckOnNewWorker = FALSE
  Singleton = FALSE
  DisableLevel3 = FALSE
  MaxTasks = 1
  MaxCrashes = 0
CHECK_DEADLOCK FALSE
INVARIANT NoneWaitsInVain
