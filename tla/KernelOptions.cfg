SPECIFICATION KernelSpec
CONSTANTS
  Builds = {b1}
  Editors = {e1}
  Configs <- MCConfigs
  CustomFile <- MCCustom
  ArchDefconfig <- MCArch
  BoardDefconfig <- MCBoard
  KconfigDefaults <- MCDefaults
  Overlay <- MCOverlay
  MaxRuns = 2
INVARIANT DisabledOptionsApplied
CHECK_DEADLOCK FALSE
