SPECIFICATION Spec
CONSTANTS
  Scbs = {b1, b2}
  Channels = {ch1}
  QueueDepth = 2
  DiskSize <- MCDiskSize
  Verifies <- MCVerifies
  Residues = {0, 1}
SYMMETRY ScbSymmetry
INVARIANT
  CompletionOnLastFragment
