SPECIFICATION Spec
CONSTANTS
  Base = 8
  Capacity = 16
  PageAlign = 8
  BlockAlign = 2
  Sizes = {0, 1, 4, 6, 12}
  Reservations <- NoReservations
INVARIANTS
  TypeOK
  PagesTiled
  FreeListsAgree
  Accounted
PROPERTIES
  BestFit
