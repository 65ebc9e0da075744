SPECIFICATION Spec
CONSTANTS
  Client = {c1, c2}
  Name = {a, b}
  MaxInode = 4
  MaxSize = 2
  Workload <- Mixes
SYMMETRY Symmetry
INVARIANTS
  NoDangling
  FileLinks
  DirsFormTree
  DirLinksSuffice
  NoOrphanData
  SizeCoversData
  FreshInodes
  WalkStaysInTree
CHECK_DEADLOCK FALSE
