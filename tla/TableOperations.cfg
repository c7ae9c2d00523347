SPECIFICATION FairSpec
CONSTANTS
  Thread = {t1, t2}
  NoThread = NoThread
  Fanout = 3
  PageSize = 4
  BaseFrame = 1
  LastFrame = 5
  Holes <- OnlyIoHole
  UserVpns = {2, 3}
  Ops = {"table", "pages", "identity", "translate", "ensure", "free"}
  MaxPages = 2
  MaxCalls = 4
INVARIANTS
  IInv
  WalkIsCurrent
  HolesStayReserved
PROPERTIES
  ImplementsVirtualSpaces
  CallsReturn
