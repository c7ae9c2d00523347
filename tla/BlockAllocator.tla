--------------------------- MODULE BlockAllocator ---------------------------
(***************************************************************************)
(* What a memory allocator promises (MemoryAllocatorInterface): the blocks *)
(* handed out lie within the capacity and never overlap, a block stays as  *)
(* it is until it is released, and a release gives back one whole block.   *)
(***************************************************************************)
EXTENDS Integers

CONSTANTS
  Base, Capacity,   (* the memory is Base .. Base + Capacity - 1             *)
  Size              (* sizes a block may have                                *)

VARIABLE blocks     (* [addr, size] of each block handed out                 *)

Init == blocks = {}

Apart(b, c) == b.addr + b.size <= c.addr \/ c.addr + c.size <= b.addr

Alloc(b) ==
  /\ b.addr >= Base /\ b.addr + b.size <= Base + Capacity
  /\ \A c \in blocks : Apart(b, c)
  /\ blocks' = blocks \cup {b}

Free(b) ==
  /\ b \in blocks
  /\ blocks' = blocks \ {b}

Next ==
  \E a \in Base .. Base + Capacity, n \in Size :
    LET b == [addr |-> a, size |-> n] IN Alloc(b) \/ Free(b)

Spec == Init /\ [][Next]_blocks
=============================================================================
