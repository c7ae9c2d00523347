SPECIFICATION FairSpec
CONSTANTS
  PageSize = 2
  BasePage = 2
  LastPage = 5
  Sizes = {0, 1}
  Others <- SegmentAndStack
PROPERTIES
  AllocateReturns
CHECK_DEADLOCK FALSE
