SPECIFICATION Spec
CONSTANTS
  Base = 8
  Capacity = 16
  PageAlign = 4
  BlockAlign = 2
  Sizes = {1, 4, 7}
  Reservations <- Inside
INVARIANTS
  PagesInOrder
  RefusedOnlyWhenFull
PROPERTIES
  ImplementsBlockAllocator
