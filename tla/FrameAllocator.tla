--------------------------- MODULE FrameAllocator ---------------------------
(***************************************************************************)
(* The page allocator as AddressSpaceManager uses it: every request is for *)
(* one page, and gets the lowest frame that nobody holds.  The allocator's *)
(* mutex makes atomic_allocate and atomic_release one step each.           *)
(* VortexMemoryAllocator implements this when all its requests are pages.  *)
(***************************************************************************)
EXTENDS Integers

CONSTANT Frame        (* frames between the base address and the capacity  *)
VARIABLE taken        (* frames handed out                                 *)

Init == taken = {}

Lowest(f) ==
  /\ f \in Frame \ taken
  /\ \A g \in Frame \ taken : f <= g

\* atomic_allocate(PAGE_SIZE)
Take(f) == Lowest(f) /\ taken' = taken \cup {f}

\* atomic_release; an address that was not handed out is ignored
Give(f) == taken' = taken \ {f}

Next == \E f \in Frame : Take(f) \/ Give(f)
Spec == Init /\ [][Next]_taken
=============================================================================
