SPECIFICATION Spec
CONSTANTS
  lib = lib
  data = data
  master = master
  dev = dev
  Library <- MCLibrary
  Dataset <- MCDataset
  Branch <- MCBranch
  Engines = {"filesystem", "rdbms", "forkbase"}
  EncFS = TRUE
  MaxCreates = 3
  MaxCrashes = 2
CHECK_DEADLOCK FALSE
SYMMETRY Symmetry
INVARIANTS
  TypeOK
  HeadsAreWhole
PROPERTY ImplementsCatalog
