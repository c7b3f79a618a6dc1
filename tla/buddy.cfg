\* Pages of eight units; a second page lies above or below the first.
SPECIFICATION Spec
CONSTANTS
  nlevel = 4
  align = 2
  AddrMod = 4096
  IntMod = 256
  InitialSize = 20
  Sizes = {3, 4, 9, 45}
  Bases = {40, 74, 130}
  MaxPages = 2
  MaxLive = 4
INVARIANTS
  HoldersApart
  PagesFilled
  CleanupSucceeds
  OwnerFound
