---------------------- MODULE MCVortexMemoryAllocator ----------------------
(***************************************************************************)
(* Instances of VortexMemoryAllocator for TLC.  Sizes are in units small   *)
(* enough to enumerate; the base address is not 0, as in the code.         *)
(***************************************************************************)
EXTENDS VortexMemoryAllocator

NoReservations == {}

\* The second of two neighbouring regions, or a region with a hole before it
Inside == {[addr |-> 12, size |-> 4], [addr |-> 9, size |-> 1]}
============================================================================
