SPECIFICATION Spec
CONSTANTS
  Cmds = {c1, c2, c3}
  NoCmd = NoCmd
  Ports = {0, 1}
  HostTags = {0, 1, 2}
  DeviceTags = {0, 1}
  QueueLength = 4
  Modes = {"QUEUED", "NATIVE_QUEUING"}
  Faults = {"pio", "readlog", "softreset"}
SYMMETRY CmdSymmetry
INVARIANTS
  TypeOK
  QueueConsistent
  OwesWhatItHolds
  InEdmaIsPrefix
  PioExcludesEdma
  PioIsHeard
  ResponsesAreLive
  NoDmaAfterReturn
  NoLostCompletion
PROPERTIES
  ReadLogKeepsRing
