SPECIFICATION Spec
CONSTANTS
  Base = 4
  Capacity = 24
  PageAlign = 4
  BlockAlign = 2
  Sizes = {4}
  Reservations <- NoReservations
PROPERTIES
  ImplementsFrameAllocator
