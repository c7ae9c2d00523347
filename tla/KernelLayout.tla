---------------------------- MODULE KernelLayout ----------------------------
(***************************************************************************)
(* Where Spinner puts a kernel, byte by byte: the pages that               *)
(* allocate_vxbin_segments_ maps, the heap behind them, the stacks of all  *)
(* harts, and the loop that copies the binary to the device through the    *)
(* page table (spinner.hpp).  A behaviour is one binary: its segments and  *)
(* stacks are mapped, then it, or a buffer, is copied chunk by chunk.      *)
(*                                                                         *)
(* Addresses are bytes.  The page at va lies in frame Place[va \div        *)
(* PageSize], whatever the allocator chose; frames are numbered in the     *)
(* device memory, which ends at MemEnd.                                    *)
(***************************************************************************)
EXTENDS Integers, FiniteSets, FiniteSetsExt

CONSTANTS
  PageSize,   (* PAGE_SIZE                                                 *)
  BlockSize,  (* CACHE_BLOCK_SIZE                                          *)
  FirstPage,  (* page of kernel_start_va                                   *)
  Place,      (* the frame of each page                                    *)
  CopySize,   (* bound: bytes of a buffer that is copied                   *)
  MemEnd,     (* GLOBAL_MEM_SIZE                                           *)
  StackEnd,   (* STACK_BASE_ADDR, where the stacks end                     *)
  StackSize,  (* 1 << STACK_LOG2_SIZE, for each hart                       *)
  Binaries,   (* [size, runtime]: bytes in the file, bytes at run time     *)
  Devices     (* [threads, warps, cores]: what get_caps reports            *)

\* A binary starts on a page and is no longer in the file than in memory; the
\* frames of its pages are in the device memory.
ASSUME LayoutAssumption ==
  /\ PageSize \in Nat \ {0} /\ BlockSize \in 1 .. PageSize
  /\ PageSize % BlockSize = 0
  /\ FirstPage \in Nat \ {0}
  /\ CopySize \in Nat
  /\ MemEnd \in Nat /\ MemEnd % PageSize = 0
  /\ StackEnd \in Nat /\ StackEnd % PageSize = 0
  /\ StackSize \in Nat \ {0} /\ StackSize % PageSize = 0
  /\ Binaries \subseteq [size : Nat, runtime : Nat \ {0}]
  /\ \A b \in Binaries :
       /\ b.size <= b.runtime
       /\ \A p \in FirstPage .. FirstPage + (b.runtime - 1) \div PageSize :
            Place[p] \in 0 .. MemEnd \div PageSize - 1
  /\ Devices \subseteq [threads : Nat \ {0}, warps : Nat \ {0}, cores : Nat \ {0}]

VARIABLES
  bin,      (* the vxbin being loaded                                      *)
  dev,      (* the device                                                  *)
  mapped,   (* times that each page of the table was asked for             *)
  pc,       (* code, boundary, data, stack, begin, copy; then done or threw*)
  job,      (* the copy: [va, size]                                        *)
  va,       (* va of the copy loop                                         *)
  offset,   (* bytes copied                                                *)
  moved     (* device byte and host byte that an accepted chunk copied     *)

vars == <<bin, dev, mapped, pc, job, va, offset, moved>>

Page(a)  == a \div PageSize
Align(a) == ((a + PageSize - 1) \div PageSize) * PageSize    \* to the next page
Floor(a) == Page(a) * PageSize

min_vma == FirstPage * PageSize
max_vma == min_vma + bin.runtime
Table   == 0 .. Page(StackEnd) - 1

----------------------------------------------------------------------------
(* allocate_vxbin_segments_                                                *)

code_end       == min_vma + bin.size
has_data       == max_vma > code_end
last_code_page == Floor(code_end - 1)

shared_boundary == has_data /\ last_code_page = Floor(code_end)

\* Mutant: the page behind the code is found by going a page further.
data_va_skips == (IF shared_boundary THEN last_code_page ELSE Align(code_end)) + PageSize

\* next_page, or data_va of the other branch
data_va == IF shared_boundary THEN last_code_page + PageSize
                              ELSE min_vma + Align(bin.size)

\* allocate_vm_pages: one page for each PAGE_SIZE of size, from va on
PagesOf(a, size) == {Page(a) + i : i \in 0 .. Align(size) \div PageSize - 1}

AllocateVmPages(a, size) ==
  mapped' = [p \in Table |-> mapped[p] + (IF p \in PagesOf(a, size) THEN 1 ELSE 0)]

Then(next) == pc' = next /\ UNCHANGED <<bin, dev, job, va, offset, moved>>

\* The pages of the code, but not the one that it shares with the data
MapCode ==
  /\ pc = "code"
  /\ IF shared_boundary
     THEN /\ Then("boundary")
          /\ IF last_code_page > min_vma
             THEN AllocateVmPages(min_vma, last_code_page - min_vma)
             ELSE UNCHANGED mapped
     ELSE /\ Then("data")
          /\ AllocateVmPages(min_vma, Align(bin.size))

MapBoundary ==
  /\ pc = "boundary"
  /\ AllocateVmPages(last_code_page, PageSize)
  /\ Then("data")

MapData ==
  /\ pc = "data"
  /\ IF has_data /\ max_vma > data_va
     THEN AllocateVmPages(data_va, max_vma - data_va)
     ELSE UNCHANGED mapped
  /\ Then("stack")

----------------------------------------------------------------------------
(* allocate_user_stack_: a slot for every hart id up to the highest.       *)

\* 1 << n
Pow2[n \in Nat] == IF n = 0 THEN 1 ELSE 2 * Pow2[n - 1]

\* ceil(log2(n))
Bits(n) == Min({b \in 0 .. n : Pow2[b] >= n})

\* num_cores is the constant 4, not what the device reports.
num_cores == 4

HartId(d, core, warp, thread) ==
  core * Pow2[Bits(d.warps) + Bits(d.threads)] + warp * Pow2[Bits(d.threads)] + thread

\* Mutant: one slot per hart, as if the ids had no gaps.
n_stack_slots_dense == num_cores * dev.warps * dev.threads

n_stack_slots == HartId(dev, num_cores - 1, dev.warps - 1, dev.threads - 1) + 1

\* stack_size bytes that end at STACK_BASE_ADDR
MapStack ==
  /\ pc = "stack"
  /\ AllocateVmPages(StackEnd - StackSize * n_stack_slots, StackSize * n_stack_slots)
  /\ Then("begin")

----------------------------------------------------------------------------
(* copy_host_to_dev_ and copy_dev_to_host_, the same loop in two           *)
(* directions, over upload and download of the device: the binary          *)
(* (upload_vxbin_) or a buffer anywhere in the image.                      *)

Copies == [va : min_vma .. max_vma, size : 1 .. CopySize]

BeginCopy ==
  /\ pc = "begin"
  /\ \/ job' = [va |-> min_vma, size |-> bin.size]
     \/ \E c \in Copies : c.va + c.size <= max_vma /\ job' = c
  /\ va' = job'.va
  /\ pc' = "copy"
  /\ UNCHANGED <<bin, dev, mapped, offset, moved>>

Smaller(a, b) == IF a <= b THEN a ELSE b

\* Mutant: a chunk takes no notice of where it starts in its page.
chunk_size_of_page == Smaller(PageSize, job.size - offset)

chunk_size == Smaller(PageSize - (va % PageSize), job.size - offset)

\* translate(a, top_pgtbl_pa)
Physical(a) == Place[Page(a)] * PageSize + (a % PageSize)

AlignedSize(n) == ((n + BlockSize - 1) \div BlockSize) * BlockSize

\* upload and download do not fail: addr + aligned_size(size) <= GLOBAL_MEM_SIZE
Accepted(a, n) == a + AlignedSize(n) <= MemEnd

\* One turn of the loop.  translate(va).value() throws on a page that is not
\* mapped; the answer of the device is not looked at.
CopyChunk ==
  /\ pc = "copy" /\ offset < job.size
  /\ IF mapped[Page(va)] = 0
     THEN pc' = "threw" /\ UNCHANGED <<va, offset, moved>>
     ELSE /\ moved' = IF Accepted(Physical(va), chunk_size)
                      THEN moved \cup {<<Physical(va) + i, offset + i>> : i \in 0 .. chunk_size - 1}
                      ELSE moved
          /\ va' = va + chunk_size /\ offset' = offset + chunk_size
          /\ UNCHANGED pc
  /\ UNCHANGED <<bin, dev, mapped, job>>

CopyEnds ==
  /\ pc = "copy" /\ offset = job.size
  /\ pc' = "done"
  /\ UNCHANGED <<bin, dev, mapped, job, va, offset, moved>>

----------------------------------------------------------------------------
(* HeapManager is made with base_va behind the run time image.             *)

heap_base == Align(max_vma)

----------------------------------------------------------------------------
Init ==
  /\ bin \in Binaries /\ dev \in Devices
  /\ mapped = [p \in Table |-> 0]
  /\ pc = "code"
  /\ job = [va |-> 0, size |-> 0]
  /\ va = 0 /\ offset = 0 /\ moved = {}

Finished == pc \in {"done", "threw"} /\ UNCHANGED vars

Next == MapCode \/ MapBoundary \/ MapData \/ MapStack \/ BeginCopy \/ CopyChunk \/ CopyEnds \/ Finished

Spec == Init /\ [][Next]_vars
----------------------------------------------------------------------------
(* Properties.                                                             *)

Laid == pc = "begin"

(***************************************************************************)
(* The branches of allocate_vxbin_segments_ together ask for every page of *)
(* the run time image once (a second time would throw "already mapped"),   *)
(* and for no page of the heap behind it.                                  *)
(***************************************************************************)
ImagePages == Page(min_vma) .. Page(max_vma - 1)
StackPages == Page(StackEnd - StackSize * n_stack_slots) .. Page(StackEnd) - 1

ImageMappedOnce ==
  Laid => /\ \A p \in Table : mapped[p] = IF p \in ImagePages \cup StackPages THEN 1 ELSE 0
          /\ \A p \in ImagePages : p * PageSize < heap_base

(***************************************************************************)
(* A copy finds every page mapped and moves each byte once, between its    *)
(* place in the host's buffer and where the page table has it.  (A first   *)
(* chunk that starts inside a block may be refused when its size, rounded  *)
(* up to blocks, passes the end of the memory; that is not noticed.)       *)
(***************************************************************************)
first_chunk == Smaller(PageSize - (job.va % PageSize), job.size)

RefusedAtTheEnd ==
  job.va % BlockSize # 0 /\ ~Accepted(Physical(job.va), first_chunk)

CopyArrives ==
  /\ pc # "threw"
  /\ pc = "done" /\ ~RefusedAtTheEnd =>
       moved = {<<Physical(job.va + i), i>> : i \in 0 .. job.size - 1}

(***************************************************************************)
(* "Size stack by max encoded hart ID to avoid under-mapping sparse IDs":  *)
(* the stacks of all harts, each below that of the hart id before, are     *)
(* mapped and no two harts share one (on a device of no more than 4 cores, *)
(* the number the code takes).                                             *)
(***************************************************************************)
Harts == (0 .. dev.cores - 1) \X (0 .. dev.warps - 1) \X (0 .. dev.threads - 1)
StackTop(h) == StackEnd - StackSize * HartId(dev, h[1], h[2], h[3])

EveryHartHasAStack ==
  Laid /\ dev.cores <= num_cores =>
    /\ \A h \in Harts : \A a \in StackTop(h) - StackSize .. StackTop(h) - 1 :
         a >= 0 /\ mapped[Page(a)] = 1
    /\ \A g, h \in Harts : StackTop(g) = StackTop(h) => g = h
=============================================================================
