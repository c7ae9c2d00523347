--------------------------- MODULE MCKernelLayout ---------------------------
(***************************************************************************)
(* Instances of KernelLayout for TLC: pages of four bytes and blocks of    *)
(* two.  A file of 0 to 9 bytes ends before, on and behind page bounds; its*)
(* run time image has up to two pages more.  The frames of neighbouring    *)
(* pages are apart and in no order, and one is the last of the memory.     *)
(***************************************************************************)
EXTENDS KernelLayout

SmallBinaries ==
  {b \in [size : 0 .. 9, runtime : 1 .. 14] : b.size <= b.runtime /\ b.runtime <= b.size + 8}

SmallDevices == [threads : {1, 3}, warps : {2, 3}, cores : {4}]

Scattered == [p \in 0 .. 6 |-> <<4, 7, 2, 5, 6, 0, 3>>[p + 1]]
=============================================================================
