SPECIFICATION Spec
CONSTANTS
  Thread = {t1, t2}
  NoThread = NoThread
  Fanout = 3
  PageSize = 4
  BaseFrame = 1
  LastFrame = 6
  Holes <- OnlyIoHole
  UserVpns = {2, 3}
  Ops = {"table", "pages", "free"}
  MaxPages = 2
  MaxCalls = 6
SYMMETRY Symmetry
INVARIANTS
  TypeOK
  TablesPrivate
  PagesPrivate
  ReachableInUse
  FreeReleasesOwnPages
  NoPageLost
