SPECIFICATION Spec
CONSTANTS
  Scbs = {b1, b2, b3}
  Channels = {ch1}
  QueueDepth = 2
  DiskSize <- MCDiskSize
  Verifies <- MCVerifies
  Residues = {1}
SYMMETRY ScbSymmetry
INVARIANTS
  FragmentsInOrder
  OneOwner
  NothingCrossesReset
PROPERTIES
  SuccessIsComplete
