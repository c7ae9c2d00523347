SPECIFICATION FairSpec
CONSTANTS
  PageSize = 2
  BasePage = 2
  LastPage = 7
  Sizes = {1, 2, 3, 5}
  Others <- SegmentAndStack
INVARIANTS
  TypeOK
  BuffersBacked
  BuffersApart
  RetryFits
PROPERTIES
  AllocateReturns
CHECK_DEADLOCK FALSE
