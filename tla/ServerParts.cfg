SPECIFICATION ServerSpec
CONSTANTS
  Builders = {v1, v2}
  Parts = {"kernel", "systemd"}
  Kernel = "kernel"
  Releases = {1, 2}
  Linked = {}
  Snapshots <- SomeSnapshots
  MaxStarts = 2
  MaxChanges = 1
  Builds = {b1}
  Editors = {e1, e2}
  Configs <- MCConfigs
  CustomFile <- MCCustom
  ArchDefconfig <- MCArch
  BoardDefconfig <- MCBoard
  KconfigDefaults <- MCDefaults
  Overlay <- MCOverlay
  MaxRuns = 2
  Packagers = {w1, w2}
  Loops = {l1, l2}
  MaxImages <- OneImageEach
  Formats = {"raw", "qcow2", "iso"}
  MayCancel = {w1}
  Addresses = {a1}
  AuthLimit = 1
  APILimit = 2
  Minute = 2
  LastMoment = 9

  Tables = {"users", "components", "upstream_sources", "user_sources", "build_jobs", "build_stages"}
  OldVersions = {3, 12, 20}
  MaxWrites = 2
  MaxBoots = 2

SYMMETRY Alike
INVARIANTS
  ServerTypeOK
  
  
  
  FileIsWhole
  
  
  
  
CHECK_DEADLOCK FALSE
