CONSTANTS
  NULL = NULL
  ChunkLen = 2
  BootFile = "/int/boot.cfg"
  Paths = {"/int/boot.cfg", "/ext/boot.cfg"}
  QueueLen = 3
  Prelude <- MCPrelude
  Lines <- MCLines
  MaxLines = 4
  Names = {"sub", "rc"}
  Types = {"FLOAT", "BOOL"}
  Sig <- MCSig
  Targets = {1, 2, 3, 4, 5, 6, 7, 8}
  Indices <- MCIndices
  IndexMod = 4
  Wild = Wild
  PpType <- MCPpType
  PpRscs <- MCPpRscs
  CountAvail <- MCCountAvail
  CountMod = 2
  Inf = Inf
  Kinds <- MCKinds
  PathVolume <- MCPathVolume
  MaxVolumes = 2
SPECIFICATION Spec
INVARIANTS ReadsAllWithinCapacity ResourcesAccounted LatestTemplate EnabledInterfacesFit PointersAreRequested
\* main_task ends suspended.
CHECK_DEADLOCK FALSE
