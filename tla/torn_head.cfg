SPECIFICATION Spec
CONSTANTS
  lib = lib
  data = data
  master = master
  dev = dev
  Library <- MCLibrary
  Dataset <- MCDataset
  Branch <- MCBranch
  Engines = {"filesystem"}
  EncFS = TRUE
  MaxCreates = 1
  MaxCrashes = 1
CHECK_DEADLOCK FALSE
SYMMETRY Symmetry
INVARIANT BranchHeadReadable
