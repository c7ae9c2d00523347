SPECIFICATION Spec
CONSTANTS
  Thread = {t1, t2}
  NoThread = NoThread
  Fanout = 3
  PageSize = 4
  BaseFrame = 1
  LastFrame = 6
  Holes <- IoAndLmem
  UserVpns = {2, 3}
  Ops = {"table", "pages"}
  MaxPages = 2
  MaxCalls = 3
INVARIANTS
  HolesStayReserved
