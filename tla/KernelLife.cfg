SPECIFICATION Spec
CONSTANTS
  Thread = {t1, t2}
  Binary = {b1, b2}
  NoBinary = NoBinary
  Frame = {1, 2, 3, 4, 5, 6, 7}
  Fixed = {1, 2}
  Segment = {3}
  Layout <- OneOfEach
  HeapBase = 4
  HeapEnd = 6
  MaxKernels = 2
  MaxCalls = 6
INVARIANTS
  TypeOK
  KernelIdsNameOne
  TablesAccounted
  RunSeesItsKernel
  ResultsInPlace
SYMMETRY Symmetry
CHECK_DEADLOCK FALSE
