----------------------- MODULE MCAddressSpaceManager -----------------------
(***************************************************************************)
(* Instances of AddressSpaceManager for TLC.  As in the code, the IO hole  *)
(* starts inside page 0 (IO_BASE_ADDR is 0x40) and its size ends it at the *)
(* first address of the allocator (IO_END_ADDR = ALLOC_BASE_ADDR).         *)
(***************************************************************************)
EXTENDS AddressSpaceInvariant, TLC

IoHole   == [addr |-> 1, size |-> BaseFrame * PageSize - 1]
LmemHole == [addr |-> 3 * PageSize, size |-> PageSize]

OnlyIoHole   == {IoHole}
IoAndLmem    == {IoHole, LmemHole}

Symmetry == Permutations(Thread)
============================================================================
