---------------------------- MODULE HeapManager ----------------------------
(***************************************************************************)
(* The heap of one kernel: mm/heap_manager.hpp over the BumpAllocator of   *)
(* mm/allocator/bump_allocator.hpp.  A buffer is cut from the virtual      *)
(* addresses that are mapped already; when they do not suffice, pages are  *)
(* mapped one after the other behind them, the capacity grows, and the     *)
(* request is tried again.  A mapping may throw at any page, for lack of   *)
(* memory or because the page is mapped, and then the pages mapped so far  *)
(* stay.  One thread uses a heap; start_kernel maps other pages of the     *)
(* same table (segments, stack) between two allocations.                   *)
(*                                                                         *)
(* Addresses are bytes; pages are named by their number.                   *)
(***************************************************************************)
EXTENDS Integers

CONSTANTS
  PageSize,   (* PAGE_SIZE                                                 *)
  BasePage,   (* base_va / PAGE_SIZE: the first page behind the segments   *)
  LastPage,   (* bound: the last page the heap may reach                   *)
  Sizes,      (* sizes that the clients ask for                            *)
  Others      (* pages of the same table that start_kernel maps            *)

ASSUME HeapAssumption ==
  /\ PageSize \in Nat \ {0}
  /\ BasePage \in Nat /\ LastPage \in Nat /\ BasePage <= LastPage
  /\ Sizes \subseteq Nat
  /\ Others \subseteq 0 .. LastPage

VARIABLES
  capacity,   (* capacity_ of the bump allocator                           *)
  next,       (* nextAddress_                                              *)
  heap,       (* pages of the table that the heap mapped                   *)
  other,      (* pages of the table that start_kernel mapped               *)
  pc,         (* idle, try (vm_allocator_->allocate) or grow (the loop)    *)
  size,       (* argument of allocate                                      *)
  grown,      (* i: pages mapped by the loop                               *)
  retried,    (* allocate has called itself                                *)
  buffers     (* history: buffers returned                                 *)

vars == <<capacity, next, heap, other, pc, size, grown, retried, buffers>>

Base   == BasePage * PageSize
Limit  == Base + capacity
Pages  == 0 .. LastPage

Init ==
  /\ capacity = 0 /\ next = Base
  /\ heap = {} /\ other = {}
  /\ pc = "idle" /\ size = 0 /\ grown = 0 /\ retried = FALSE
  /\ buffers = {}

----------------------------------------------------------------------------
\* Mutant: a request may exceed the capacity by one byte.
FitsOneMore(n) == n > 0 /\ next + n <= Limit + 1

\* What BumpAllocator::allocate grants
Fits(n) == n > 0 /\ next + n <= Limit

\* Mutant: the last, partial page is left out.
PagesNeededDown(n) == n \div PageSize

PagesNeeded(n) == (n + PageSize - 1) \div PageSize

\* allocate is called; the bound keeps the heap below LastPage.
Allocate(n) ==
  /\ pc = "idle"
  /\ Limit + PagesNeeded(n) * PageSize <= (LastPage + 1) * PageSize
  /\ pc' = "try" /\ size' = n /\ retried' = FALSE
  /\ UNCHANGED <<capacity, next, heap, other, grown, buffers>>

\* Mutant: the next address is not advanced.
BumpInPlace ==
  /\ pc = "try" /\ Fits(size)
  /\ buffers' = buffers \cup {[addr |-> next, size |-> size]}
  /\ pc' = "idle"
  /\ UNCHANGED <<capacity, next, heap, other, size, grown, retried>>

Bump ==
  /\ pc = "try" /\ Fits(size)
  /\ buffers' = buffers \cup {[addr |-> next, size |-> size]}
  /\ next' = next + size
  /\ pc' = "idle"
  /\ UNCHANGED <<capacity, heap, other, size, grown, retried>>

Refused ==
  /\ pc = "try" /\ ~Fits(size)
  /\ pc' = "grow" /\ grown' = 0
  /\ UNCHANGED <<capacity, next, heap, other, size, retried, buffers>>

\* last_va + i * PAGE_SIZE
NextPage == (Limit + grown * PageSize) \div PageSize

\* allocate_one_vm_page
MapPage ==
  /\ pc = "grow" /\ grown < PagesNeeded(size)
  /\ NextPage \notin heap \cup other
  /\ heap' = heap \cup {NextPage}
  /\ grown' = grown + 1
  /\ UNCHANGED <<capacity, next, other, pc, size, retried, buffers>>

\* Mutant: the loop goes on after a page that could not be mapped.
MapThrowsIgnored ==
  /\ pc = "grow" /\ grown < PagesNeeded(size)
  /\ grown' = grown + 1
  /\ UNCHANGED <<capacity, next, heap, other, pc, size, retried, buffers>>

\* It throws: memory has run out, or the page is mapped already.
MapThrows ==
  /\ pc = "grow" /\ grown < PagesNeeded(size)
  /\ pc' = "idle"
  /\ UNCHANGED <<capacity, next, heap, other, size, grown, retried, buffers>>

\* grow_capacity, and the recursive call
Grow ==
  /\ pc = "grow" /\ grown = PagesNeeded(size)
  /\ capacity' = capacity + grown * PageSize
  /\ pc' = "try" /\ retried' = TRUE
  /\ UNCHANGED <<next, heap, other, size, grown, buffers>>

\* start_kernel maps a page of the same table, unless it is mapped already.
MapOther(p) ==
  /\ pc = "idle" /\ p \notin heap \cup other
  /\ other' = other \cup {p}
  /\ UNCHANGED <<capacity, next, heap, pc, size, grown, retried, buffers>>

Step == Bump \/ Refused \/ MapPage \/ MapThrows \/ Grow
Next == Step \/ (\E n \in Sizes : Allocate(n)) \/ (\E p \in Others : MapOther(p))

Spec     == Init /\ [][Next]_vars
FairSpec == Spec /\ WF_vars(Step)
----------------------------------------------------------------------------
(* Properties.                                                             *)

(***************************************************************************)
(* Types of the variables; the bump pointer stays within the capacity.     *)
(***************************************************************************)
TypeOK ==
  /\ capacity \in Nat /\ next \in Base .. Limit
  /\ heap \subseteq Pages /\ other \subseteq Others
  /\ pc \in {"idle", "try", "grow"}
  /\ size \in Nat /\ grown \in Nat /\ retried \in BOOLEAN
  /\ buffers \subseteq [addr : Nat, size : Nat \ {0}]

Overlap(p, b) == p * PageSize < b.addr + b.size /\ b.addr < (p + 1) * PageSize

(***************************************************************************)
(* Every page of every buffer the heap returned was mapped by the heap:    *)
(* a growth that throws half way, at whatever page, never leads to a       *)
(* buffer with an unmapped page or over the stack or the segments.         *)
(***************************************************************************)
BuffersBacked ==
  \A b \in buffers : \A p \in 0 .. LastPage + 1 : Overlap(p, b) => p \in heap \ other

(***************************************************************************)
(* Two buffers never share a byte.                                         *)
(***************************************************************************)
BuffersApart ==
  \A b, c \in buffers :
    b # c => b.addr + b.size <= c.addr \/ c.addr + c.size <= b.addr

(***************************************************************************)
(* One growth is enough: when allocate has called itself, the request      *)
(* fits, so it does not grow again.                                        *)
(***************************************************************************)
RetryFits == pc = "try" /\ retried /\ size > 0 => Fits(size)

(***************************************************************************)
(* allocate comes to an end: it returns or throws.                         *)
(***************************************************************************)
AllocateReturns == pc # "idle" ~> pc = "idle"

----------------------------------------------------------------------------
(* An inductive invariant: all that lies below the capacity is mapped, and *)
(* so are the pages that the loop has passed.                              *)

Top == Limit \div PageSize

Aligned == Top \in BasePage .. LastPage + 1 /\ Limit = Top * PageSize

HeapMapped ==
  /\ heap \cap other = {}
  /\ \A p \in BasePage .. Top - 1 : p \in heap
  /\ pc = "grow" => /\ grown <= PagesNeeded(size)
                    /\ \A i \in 0 .. grown - 1 : Top + i \in heap

\* The request in progress keeps the heap below the bound.
InBound ==
  pc = "grow" \/ (pc = "try" /\ ~retried) => Top + PagesNeeded(size) <= LastPage + 1

BuffersBelow == \A b \in buffers : Base <= b.addr /\ b.addr + b.size <= next

IInv ==
  /\ TypeOK /\ Aligned /\ HeapMapped /\ InBound
  /\ BuffersBelow /\ BuffersApart /\ RetryFits
============================================================================
