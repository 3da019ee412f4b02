SPECIFICATION PSSpec
CONSTANTS
  Cmds = {c1, c2}
  NoCmd = NoCmd
  Ports = {0}
  HostTags = {0, 1}
  DeviceTags = {0, 1}
  QueueLength = 3
  Modes = {"NOT_QUEUED", "QUEUED", "NATIVE_QUEUING"}
  Faults = {"pio", "spurious"}
  PowerManagementSupport = 1
INVARIANT
  DisabledMeansGivenUp
