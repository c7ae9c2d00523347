SPECIFICATION Spec
CONSTANTS
  PageSize = 4
  BlockSize = 2
  FirstPage = 1
  Place <- Scattered
  CopySize = 6
  MemEnd = 32
  StackEnd = 272
  StackSize = 4
  Binaries <- SmallBinaries
  Devices <- SmallDevices
INVARIANTS
  ImageMappedOnce
  CopyArrives
  EveryHartHasAStack
