\* All of DockerSandbox.run, daemon faults included.
SPECIFICATION Spec
CONSTANTS
  OutputCap = 3
  Chunk = 2
  PipeCap = 2
  Names = {"a", "b"}
  Stubborn = {"b"}
  ExitCodes = {0, 137}
  DaemonMayHang = TRUE
INVARIANTS
  TypeOK
  NoContainerOutlivesCall
  OutputIsHonest
  ExitCodeIsTheContainers
  CanaryDirIsRemoved
  NeverGivesUpOnContainer
PROPERTIES
  KeepsPromise
  CallEnds
