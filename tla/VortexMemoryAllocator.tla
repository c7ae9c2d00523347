----------------------- MODULE VortexMemoryAllocator -----------------------
(***************************************************************************)
(* mm/allocator/vortex_memory_allocator.hpp: the allocator of physical     *)
(* memory.  Memory is cut into pages, kept in order of their addresses,    *)
(* and each page into blocks.  A page keeps its free blocks in two linked  *)
(* lists, by decreasing size (S-list, to look a block up) and by address   *)
(* (M-list, to merge neighbours), and its used blocks in a third.          *)
(*                                                                         *)
(* A block is its address and size.  The free lists are sequences; the     *)
(* used list is a set, since it is only searched by address.  Callers hold *)
(* the allocator's mutex around each operation (atomic_allocate,           *)
(* atomic_release, reserve_atomic), so an operation is one step.           *)
(***************************************************************************)
EXTENDS Integers, Sequences, SequencesExt, FiniteSetsExt

CONSTANTS
  Base,         (* baseAddress_                                            *)
  Capacity,     (* capacity_                                               *)
  PageAlign,    (* pageAlign_                                              *)
  BlockAlign,   (* blockAlign_                                             *)
  Sizes,        (* sizes that the callers ask for                          *)
  Reservations  (* [addr, size] regions given to reserve                   *)

Powers2 == {2 ^ k : k \in 0 .. 30}

ASSUME AllocatorAssumption ==
  /\ Base \in Nat /\ Capacity \in Nat
  /\ PageAlign \in Powers2 /\ BlockAlign \in Powers2   \* alignSize's assertion
  /\ PageAlign \in Nat \ {0} /\ BlockAlign \in Nat \ {0}
  /\ PageAlign % BlockAlign = 0
  /\ Sizes \subseteq Nat
  /\ Reservations \subseteq [addr : Nat, size : Nat]

VARIABLES
  pages,        (* pages_, in list order                                   *)
  allocated,    (* allocated_                                              *)
  ret           (* the last call and what it returned                      *)

vars == <<pages, allocated, ret>>

None == -1      \* nullopt
NoBlock == [addr |-> None, size |-> 0]
Addrs == Base .. Base + Capacity - 1

Init ==
  /\ pages = <<>>
  /\ allocated = 0
  /\ ret = [op |-> "none", size |-> 0, addr |-> None, ok |-> TRUE]

Answer(op, size, addr, ok) ==
  ret' = [op |-> op, size |-> size, addr |-> addr, ok |-> ok]

----------------------------------------------------------------------------
(* Lists of free blocks.                                                   *)

AlignSize(n, a) == ((n + a - 1) \div a) * a

End(b) == b.addr + b.size

\* How many blocks at the head of the list pass a test
Leading(list, Test(_)) ==
  Max({n \in 0 .. Len(list) : \A i \in 1 .. n : Test(list[i])})

Below(list, b)  == Leading(list, LAMBDA c : c.addr < b.addr)
Others(list, b) == Leading(list, LAMBDA c : c.addr # b.addr)
Larger(list, b) == Leading(list, LAMBDA c : c.size > b.size)
Fitting(list, n) == Leading(list, LAMBDA c : c.size >= n)

\* removeFreeMList, removeFreeSList: b is unlinked, if it is in the list
Without(list, b) == RemoveAt(list, 1 + Others(list, b))

\* insertFreeMList: after the leading blocks that are below b
InsertM(list, b) == InsertAt(list, 1 + Below(list, b), b)

\* Mutant: the list is kept by increasing size.
InsertSUp(list, b) ==
  InsertAt(list, 1 + Leading(list, LAMBDA c : c.size < b.size), b)

\* insertFreeSList: after the leading blocks that are larger than b
InsertS(list, b) == InsertAt(list, 1 + Larger(list, b), b)

\* Mutant: the first block of the list is taken.
FindFreeBlockLargest(p, size) ==
  IF Fitting(p.freeS, size) = 0 THEN NoBlock ELSE p.freeS[1]

\* findFreeBlock: the last of the leading blocks of the S-list that fit
FindFreeBlock(p, size) ==
  LET n == Fitting(p.freeS, size)
  IN IF n = 0 THEN NoBlock ELSE p.freeS[n]

----------------------------------------------------------------------------
(* Operations of a page.                                                   *)

NewPage(addr, size) ==
  LET all == [addr |-> addr, size |-> size]
  IN [addr |-> addr, size |-> size, used |-> {}, freeS |-> <<all>>, freeM |-> <<all>>]

\* Mutant: a rest of no bytes is made a free block.
PageAllocateSplitsAlways(p, size, b) ==
  LET rest == [addr |-> b.addr + size, size |-> b.size - size]
  IN [p EXCEPT !.used  = @ \cup {[b EXCEPT !.size = size]},
               !.freeM = InsertM(Without(@, b), rest), !.freeS = InsertS(Without(@, b), rest)]

\* Mutant: a rest of just one unit is not split off.
PageAllocateKeepsUnit(p, size, b) ==
  IF b.size - size > BlockAlign THEN PageAllocateSplitsAlways(p, size, b)
  ELSE [p EXCEPT !.used  = @ \cup {b},
                 !.freeM = Without(@, b), !.freeS = Without(@, b)]

\* page_t::allocate: what is left of the block stays free, if it is enough
PageAllocate(p, size, b) ==
  LET M == Without(p.freeM, b)
      S == Without(p.freeS, b)
      rest == [addr |-> b.addr + size, size |-> b.size - size]
  IN IF rest.size >= BlockAlign
     THEN [p EXCEPT !.used  = @ \cup {[b EXCEPT !.size = size]},
                    !.freeM = InsertM(M, rest), !.freeS = InsertS(S, rest)]
     ELSE [p EXCEPT !.used  = @ \cup {b}, !.freeM = M, !.freeS = S]

\* Mutant: a block is not merged with its left neighbour.
LeftOfNever(M, b) == NoBlock

\* The block before b, and the one after it, in the M-list, if b touches it
LeftOf(M, b) ==
  LET n == Below(M, b)
  IN IF n > 0 /\ End(M[n]) = b.addr THEN M[n] ELSE NoBlock

RightOf(M, b) ==
  LET n == Below(M, b)
  IN IF n < Len(M) /\ M[n + 1].addr = End(b) THEN M[n + 1] ELSE NoBlock

\* page_t::release: the block and the neighbours it merges with become one
PageRelease(p, b) ==
  LET left   == LeftOf(p.freeM, b)
      right  == RightOf(p.freeM, b)
      merged == [addr |-> IF left = NoBlock THEN b.addr ELSE left.addr,
                 size |-> left.size + b.size + right.size]
      Keep(list) == Without(Without(list, left), right)
  IN [p EXCEPT !.used  = @ \ {b},
               !.freeM = InsertM(Keep(p.freeM), merged),
               !.freeS = InsertS(Keep(p.freeS), merged)]

----------------------------------------------------------------------------
(* The list of pages.                                                      *)

\* Mutant: a page is put at the end of the list.
CreatePageLast(list, p) == Append(list, p)

\* createPage: in order of the addresses
CreatePage(list, p) == InsertAt(list, 1 + Below(list, p), p)

\* Where the page before the i-th ends
EndBefore(i) == IF i = 1 THEN Base ELSE End(pages[i - 1])

\* Mutant: the last page of the list may not end at the capacity.
FindNextAddressShort(size) ==
  LET gaps == {i \in DOMAIN pages : EndBefore(i) + size <= pages[i].addr}
      end  == EndBefore(Len(pages) + 1)
  IN IF pages = <<>> THEN Base
     ELSE IF gaps # {} THEN EndBefore(Min(gaps))
     ELSE IF end + size < Base + Capacity THEN end ELSE None

\* Mutant: a gap need not be as large as the page.
FindNextAddressAnyGap(size) ==
  LET gaps == {i \in DOMAIN pages : EndBefore(i) < pages[i].addr}
      end  == EndBefore(Len(pages) + 1)
  IN IF gaps # {} THEN EndBefore(Min(gaps))
     ELSE IF end + size <= Base + Capacity THEN end ELSE None

\* Mutant: gaps between pages are not looked for.
FindNextAddressLast(size) ==
  LET end == EndBefore(Len(pages) + 1)
  IN IF end + size <= Base + Capacity THEN end ELSE None

\* findNextAddress: the first gap between pages, else after the last page
FindNextAddress(size) ==
  LET gaps == {i \in DOMAIN pages : EndBefore(i) + size <= pages[i].addr}
      end  == EndBefore(Len(pages) + 1)
  IN IF pages = <<>> THEN Base
     ELSE IF gaps # {} THEN EndBefore(Min(gaps))
     ELSE IF end + size <= Base + Capacity THEN end ELSE None

\* hasPageOverlap: both comparisons are inclusive
HasPageOverlap(addr, size) ==
  \E i \in DOMAIN pages : addr <= End(pages[i]) /\ addr + size >= pages[i].addr

----------------------------------------------------------------------------
(* Operations of the allocator.                                            *)

\* A request that some page has a free block for: the first such page.
AllocateBlock(size) ==
  LET n   == AlignSize(size, BlockAlign)
      fit == {i \in DOMAIN pages : FindFreeBlock(pages[i], n) # NoBlock}
      i   == Min(fit)
      b   == FindFreeBlock(pages[i], n)
  IN /\ size > 0 /\ fit # {}
     /\ pages' = [pages EXCEPT ![i] = PageAllocate(@, n, b)]
     /\ allocated' = allocated + n
     /\ Answer("allocate", size, b.addr, TRUE)

\* No page has one: a new page, if there is room for it.
AllocatePage(size) ==
  LET n == AlignSize(size, BlockAlign)
      m == AlignSize(n, PageAlign)
      a == FindNextAddress(m)
      p == NewPage(a, m)
  IN /\ size > 0
     /\ \A i \in DOMAIN pages : FindFreeBlock(pages[i], n) = NoBlock
     /\ a # None
     /\ pages' = CreatePage(pages, PageAllocate(p, n, FindFreeBlock(p, n)))
     /\ allocated' = allocated + n
     /\ Answer("allocate", size, a, TRUE)

AllocateFails(size) ==
  /\ \/ size = 0
     \/ LET n == AlignSize(size, BlockAlign) IN
          /\ \A i \in DOMAIN pages : FindFreeBlock(pages[i], n) = NoBlock
          /\ FindNextAddress(AlignSize(n, PageAlign)) = None
  /\ Answer("allocate", size, None, FALSE)
  /\ UNCHANGED <<pages, allocated>>

Release(addr) ==
  \E i \in DOMAIN pages : \E b \in pages[i].used :
    LET p == PageRelease(pages[i], b) IN
    /\ b.addr = addr
    /\ pages' = IF p.used = {} THEN RemoveAt(pages, i) ELSE [pages EXCEPT ![i] = p]
    /\ allocated' = allocated - b.size
    /\ Answer("release", 0, addr, TRUE)

ReleaseFails(addr) ==
  /\ \A i \in DOMAIN pages : \A b \in pages[i].used : b.addr # addr
  /\ Answer("release", 0, addr, FALSE)
  /\ UNCHANGED <<pages, allocated>>

Reserve(addr, size) ==
  LET n == AlignSize(size, PageAlign)
      p == NewPage(addr, n)
  IN /\ size > 0 /\ addr + n <= Base + Capacity
     /\ ~HasPageOverlap(addr, n)
     /\ pages' = CreatePage(pages, PageAllocate(p, n, FindFreeBlock(p, n)))
     /\ allocated' = allocated + n
     /\ Answer("reserve", size, addr, TRUE)

ReserveFails(addr, size) ==
  LET n == AlignSize(size, PageAlign) IN
  /\ size = 0 \/ addr + n > Base + Capacity \/ HasPageOverlap(addr, n)
  /\ Answer("reserve", size, addr, FALSE)
  /\ UNCHANGED <<pages, allocated>>

Next ==
  \/ \E size \in Sizes : AllocateBlock(size) \/ AllocatePage(size) \/ AllocateFails(size)
  \/ \E addr \in Addrs : Release(addr) \/ ReleaseFails(addr)
  \/ \E r \in Reservations : Reserve(r.addr, r.size) \/ ReserveFails(r.addr, r.size)

Spec == Init /\ [][Next]_vars
----------------------------------------------------------------------------
(* Properties.                                                             *)

Used       == UNION {pages[i].used : i \in DOMAIN pages}
Meet(b, c) == b.addr < End(c) /\ c.addr < End(b)

(***************************************************************************)
(* Types.  Every block is a whole, positive number of block units, the     *)
(* same on the used list and on the free lists.                            *)
(***************************************************************************)
Units == {n * BlockAlign : n \in 1 .. Capacity \div BlockAlign}
Block == [addr : Addrs, size : Units]

TypeOK ==
  /\ \A i \in DOMAIN pages : LET p == pages[i] IN
       /\ p.addr \in Addrs /\ p.size \in Units
       /\ p.used \subseteq Block
       /\ ToSet(p.freeS) \cup ToSet(p.freeM) \subseteq Block
  /\ allocated \in Nat
  /\ ret.op \in {"none", "allocate", "release", "reserve"} /\ ret.ok \in BOOLEAN
  /\ ret.size \in Nat /\ ret.addr \in Nat \cup {None}

(***************************************************************************)
(* Splits and merges lose and duplicate no byte: the used and the free     *)
(* blocks of a page cover it without overlap, two free blocks never touch  *)
(* (so that the last release of a page leaves it whole, which ~page_t      *)
(* asserts), and a page without a used block is not kept.                  *)
(***************************************************************************)
PagesTiled ==
  \A i \in DOMAIN pages : LET p == pages[i]  free == ToSet(p.freeM) IN
    /\ \A b, c \in p.used \cup free : b = c \/ ~Meet(b, c)
    /\ p.used \cap free = {}
    /\ \A b \in p.used \cup free : b.addr >= p.addr /\ End(b) <= End(p)
    /\ \A a \in p.addr .. End(p) - 1 :
         \E b \in p.used \cup free : b.addr <= a /\ a < End(b)
    /\ \A b, c \in free : End(b) # c.addr
    /\ p.used # {}

(***************************************************************************)
(* Each free block is once on both free lists with the same size, although *)
(* the lists are changed apart: the S-list is sorted by decreasing size    *)
(* and the M-list by address, as the comments at their heads say.          *)
(***************************************************************************)
FreeListsAgree ==
  \A i \in DOMAIN pages : LET p == pages[i] IN
    /\ ToSet(p.freeS) = ToSet(p.freeM)
    /\ Len(p.freeS) = Cardinality(ToSet(p.freeS)) /\ Len(p.freeM) = Len(p.freeS)
    /\ \A j, k \in DOMAIN p.freeS : j < k => /\ p.freeS[j].size >= p.freeS[k].size
                                           /\ p.freeM[j].addr < p.freeM[k].addr

(***************************************************************************)
(* The list of pages is sorted by address and no two pages overlap.        *)
(***************************************************************************)
PagesInOrder ==
  \A i, j \in DOMAIN pages : i < j => End(pages[i]) <= pages[j].addr

(***************************************************************************)
(* allocated_ is the number of bytes in used blocks: what a release takes  *)
(* off is what the allocation of that block added.                         *)
(***************************************************************************)
Accounted == allocated = MapThenSumSet(LAMBDA b : b.size, Used)

(***************************************************************************)
(* An allocation refused for want of room was one for which no page has a  *)
(* large enough free block and a new page would fit nowhere in the memory. *)
(***************************************************************************)
RefusedOnlyWhenFull ==
  ret.op = "allocate" /\ ~ret.ok /\ ret.size > 0 =>
    LET n == AlignSize(ret.size, BlockAlign)
        m == AlignSize(n, PageAlign)
    IN /\ \A i \in DOMAIN pages : \A b \in ToSet(pages[i].freeM) : b.size < n
       /\ \A a \in Base .. Base + Capacity - m :
            \E i \in DOMAIN pages : Meet([addr |-> a, size |-> m], pages[i])

(***************************************************************************)
(* An allocation takes the smallest free block that fits, of the first     *)
(* page that has one, and opens a new page only when none has.             *)
(***************************************************************************)
FreeFor(i, n) == {b \in ToSet(pages[i].freeM) : b.size >= n}

BestFitStep ==
  ret'.op = "allocate" /\ ret'.ok =>
    LET n == AlignSize(ret'.size, BlockAlign)
        fit == {i \in DOMAIN pages : FreeFor(i, n) # {}}
    IN fit # {} =>
         \E b \in FreeFor(Min(fit), n) :
           /\ b.addr = ret'.addr
           /\ \A c \in FreeFor(Min(fit), n) : b.size <= c.size

BestFit == [][BestFitStep]_vars

(***************************************************************************)
(* Pages, lists, splits and merges implement a plain allocator of disjoint *)
(* blocks within the capacity.                                             *)
(***************************************************************************)
BA == INSTANCE BlockAllocator WITH Size <- Units, blocks <- Used
ImplementsBlockAllocator == BA!Spec

(***************************************************************************)
(* When every request is one page, the allocator hands out the lowest free *)
(* frame: the allocator that AddressSpaceManager is built on.              *)
(***************************************************************************)
FA == INSTANCE FrameAllocator WITH
        Frame <- Base \div PageAlign .. (Base + Capacity) \div PageAlign - 1,
        taken <- {b.addr \div PageAlign : b \in Used}
ImplementsFrameAllocator == FA!Spec
============================================================================
