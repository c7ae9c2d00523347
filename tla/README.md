# Espiral: specifications, model checking and proofs

Espiral is the host runtime of a Vortex GPU: it loads kernels, gives each one a
virtual address space with SV32 page tables built on the host, maps its
segments, stack, heap and IO pages, uploads everything to the device and starts
it. This directory holds TLA+ specifications of it, TLC configurations that
check them on small instances, and TLAPS proofs of the properties that matter
most for every size of the system.

Paths such as `mm/heap_manager.hpp` are relative to `src/`.

## The system

| Component | State | Operations | Interacts with |
|---|---|---|---|
| `AddressSpaceManager` (`mm/address_space_manager.hpp`) | none of its own but the hole list | `allocate_page_table`, `allocate_vm_pages`, `allocate_one_vm_page`, `unsafe_map_identity`, `translate`, `translate_or_else_allocate_page`, `free_page_table`, the dumps | takes frames from the page allocator, keeps tables in the scratchpad |
| `ScratchpadMemory` (`mm/scratchpad_memory.hpp`) | page contents by physical address, one mutex | `read`, `write`, their atomic forms, a transaction | `AddressSpaceManager` only |
| `HoleList` (`mm/hole_list.hpp`) | regions | `add_hole`, `addr_in_hole` | filled by the constructor of `AddressSpaceManager` |
| `VortexMemoryAllocator` (`mm/allocator/vortex_memory_allocator.hpp`) | list of pages, in each two free lists and a used list, one mutex | `allocate`, `release`, `reserve` and their atomic forms | hands out physical pages to `AddressSpaceManager` |
| `BumpAllocator` (`mm/allocator/bump_allocator.hpp`) | base, capacity, next address | `allocate`, `grow_capacity` | hands out virtual addresses to `HeapManager` |
| `HeapManager` (`mm/heap_manager.hpp`) | one bump allocator and one table | `allocate` | maps pages through `AddressSpaceManager` |
| `Spinner` (`spinner.hpp`) | kernel control blocks, one mutex | `allocate_kernel`, `allocate_heap`, `upload`, `download`, `upload_args`, `start_kernel`, `wait_kernel`, `free_kernel` | everything above and the accelerator |
| `SimXDevice`, `RtlSimDevice` (`accelerator/`) | device memory, DCRs, the future of the run, a cache of counters | `upload`, `download`, `start`, `ready_wait`, `mpm_query` | the simulator, on a thread of its own |
| `Espiral` (`espiral.cpp`) | the two objects it owns | forwards to `Spinner` | clients |
| `UploadBuffer`, `DownloadBuffer` | a device address, a size, a host pointer | `set_content` | `Espiral` |
| `Logger`, `Makefile` | | | |

All kernels share one page allocator, one scratchpad and one accelerator. The
components talk by direct calls; the shared state is protected by three
mutexes (page allocator, scratchpad, control block table) that are each held for
much less than an operation of `Spinner`.

What is hard about it:

* **Interleaving.** Several host threads may build, walk and free tables at once.
  `map_addr_inner` is one scratchpad transaction, and inside it takes the
  allocator's mutex; a walk is two separate reads; a free is one read and one
  release per page. Frames released by one free are taken by other calls
  before that free is over.
* **Reuse.** The scratchpad keeps what a frame held when it was last a node. The
  correctness of every mapping depends on a new node being zeroed.
* **Failure.** Most operations throw half way: out of memory for the page, out of
  memory for the node (inside the transaction), page mapped already.
* **Boundaries.** Holes, splits, merges and gaps, a heap growth that ends on a page.
* **Long sequences.** The two free lists of a page are changed apart by every
  split and merge and must agree for ever.
* **A device that runs by itself** while the host reads, frees and reuses. The run
  is a thread of its own, and `future_` is all that the host knows of it.
* **Two copies.** The page tables are built on the host, and the device sees the
  copy that `start_kernel` made of one of them, together with the binary, the
  arguments and the buffers, each copied at a time of its own.

What makes each component correct:

* `AddressSpaceManager`: kernels are isolated. No frame of a table is reachable
  by a kernel, no frame backs two pages, a live table never reaches a free frame,
  a free releases only what it owns and all of it, walks see every finished
  mapping, every call returns; pages of holes are mapped only onto themselves.
* `VortexMemoryAllocator`: blocks handed out are disjoint and within the memory,
  the lists agree, best fit, no refusal while there is room.
* `HeapManager`/`BumpAllocator`: every page of every buffer is mapped and belongs
  to the heap, buffers are disjoint, `allocate` ends.
* `Spinner`: a kernel id names one kernel (unless two loads at once are given one
  slot, which the code allows), every table belongs to a kernel, the device runs the kernel that was started and sees all of it, and results stay
  where they are until their owner overwrites them.
* Accelerator backends: one run at a time, each with what its own start was
  given, waiting ends, "ready" means that every run is over and a timeout comes in
  time, counters are those of the last run.

## Modules

| Module | Role |
|---|---|
| `AddressSpaceManager` | page tables, scratchpad, holes; the threads and the mutexes |
| `FrameAllocator` | the page allocator as `AddressSpaceManager` uses it; instantiated there as `Pool` |
| `VirtualSpaces` | abstract: one private partial map from pages to frames per kernel |
| `AddressSpaceInvariant` | the inductive invariant of `AddressSpaceManager` |
| `AddressSpaceManagerProofs` | its proof and its consequences |
| `AddressSpaceRefinement` | proofs: what a walk finds, the refinement of `VirtualSpaces`, and that every page comes back |
| `VortexMemoryAllocator` | the allocator with its lists, splits and merges |
| `BlockAllocator` | abstract: disjoint blocks within a capacity |
| `AllocatorLists` | proofs: what the list operations of the allocator compute |
| `VortexMemoryAllocatorProofs` | the inductive invariant of the allocator, its proof, its consequences, both refinements |
| `HeapManager` | one heap: bump allocation, growth, retry, and its inductive invariant |
| `HeapManagerProofs` | its proof and its consequences |
| `DeviceRuns` | abstract: a device that runs one kernel at a time, as it was asked to |
| `Accelerator` | both backends: host threads, the future, the thread of the run, the counter cache |
| `AcceleratorProofs` | the inductive invariant of `Accelerator`, its proof, its consequences, the refinement of `DeviceRuns` |
| `Spinner` | kernels from load to free, over `VirtualSpaces` and `DeviceRuns`, with the device memory |
| `SpinnerProofs` | the inductive invariant of `Spinner` in two halves, its proof, its consequences |
| `KernelLayout` | the pages of an image and of the stacks, the start of the heap, the copy loop |
| `KernelLayoutProofs` | its inductive invariant, its proof, its consequences |
| `MC...` | constants and symmetry for TLC |

The layers fit together by refinement:

                             Spinner
                      uses  /       \  uses
              VirtualSpaces           DeviceRuns
         implemented |                     | implemented
              AddressSpaceManager     Accelerator
                uses |
              FrameAllocator          BlockAllocator
                     | implemented         | implemented
                     +--- VortexMemoryAllocator

`Spinner` is composed of what the layers below promise and not of their details:
`VirtualSpaces` and `DeviceRuns` are the very modules that `AddressSpaceManager` and
`Accelerator` are shown to implement, instantiated with the variables of `Spinner`.
`HeapManager` and `KernelLayout` look at one kernel in more detail than `Spinner`
does: there a heap is a row of pages, and an image is one.

### AddressSpaceManager

Addresses are page numbers. A page table entry is the page it points to, or
`Unmapped` when its V bit is clear: the code never makes a pointer with R, W, X
or a leaf without R, so the level of a node stands for `pte_is_leaf`. `mem` is
the scratchpad; `lock` its mutex; `used` the frames the allocator has handed
out. Each thread has a program counter, the call it executes (`job`), the frame
it has in hand (`frame`: the `pa` of `allocate_one_vm_page`, or the result of a
walk), whether `allocate_one_page` is at its second attempt (`again`), and the
rest of a walk or free (`todo`).

| Code | Actions |
|---|---|
| the calls of a client | `NewCall` |
| `allocate_one_page` | `SkipHole` (first attempt in a hole), `TakePage` or `TakeNode`, `OutOfPages` |
| `allocate_page_table` | `TakePage`, `ZeroTable` |
| `allocate_vm_pages`, `allocate_one_vm_page` | `TakePage`, then `map_addr_inner`, in a loop |
| `map_addr_inner` | `BeginMap` (takes the mutex), `TakeNode` (new node, zeroed and linked), `AlreadyMapped` or `InstallLeaf` (which release it) |
| `page_table_walk` | `WalkTop`, `WalkLeaf`, `WalkReturns` |
| `free_page_table_inner` | `ReadTop`, `ReadNode`, `ReleaseLeaf`, `ReleaseNode`, `ReleaseTop` |

The grain is that of the mutexes: what happens under one critical section is one
step, except that the transaction of `map_addr_inner` is several steps during
which `lock` is held, because it takes frames from the allocator, which others
use meanwhile. When a page is mapped already the code also reads the entry and
walks the table again to print a message, after it has released the mutex;
nothing depends on what it reads, so `AlreadyMapped` leaves it out.

`owner` and `calls` are not in the code. `owner` is a history: what each frame is
used for. No guard reads it, but two updates use it to find the frame a call
gives up or maps. `calls` bounds the number of calls of a run.

Clients use a table only between `allocate_page_table` and `free_page_table`, and
free it when no call on it runs: this is what `Spinner` has to ensure
(`free_kernel`), and it is an assumption here. They map user pages outside the
holes and identity map inside them, as `Spinner` does.

### VortexMemoryAllocator

Operations are single steps, since every caller holds the mutex around them. A
block is its address and size, a page carries its two free lists as sequences,
in the code's order, and its used list as a set, because that list is only
searched by address. `ret` records the last call and its answer. What the walks
over linked lists find is written as the length of the leading part of a
sequence that they pass (`Leading`, with `Below`, `Others`, `Larger` and `Fitting` for
what each of them passes).

### HeapManager

`allocate` is `Allocate`, then `Bump` if the bump allocator grants the request, or
`Refused` and the loop: `MapPage` for each page, or `MapThrows` at any page (for
lack of memory, or because the page is mapped), then `Grow` and the retry. Other
pages of the same table are mapped between two allocations (`MapOther`). One
thread uses a heap; `spinner.hpp:356` leaves more than that to do. The size of the
whole heap is bounded by `LastPage`: the 32 bit virtual address never wraps.

### Accelerator

`Host` is a set of threads that call the interface; the runs are processes of
their own. The processor's registers are `regs`, one for the entry, one for the
arguments, one for the page table, each written by a step of its own, and a run
reads them when it begins. `future` is the run that `future_` belongs to. A run
is launched before `future_` is assigned, and the assignment releases the old
future, which blocks until the old run is over: three steps (`Launch`, `Assign`,
`ClearCache`).

| Code | Actions |
|---|---|
| `start` | `StartCall`, `WaitPrior`, `WriteEntry`, `WriteArgs`, `WriteTable`, `Launch`, `Assign`, `ClearCache` |
| `dcr_write` | the `Write...` steps, which wait for the run as well |
| `set_satp_by_addr` or `dcr_write` of the table | `WriteTable`, which waits if `SatpWaits` (RtlSimDevice) |
| `ready_wait` | `WaitCall`, then `WaitReady` or `WaitSecond`, once a second |
| `mpm_query` | `Query`: a hit, a miss that downloads, a miss whose download fails |
| the destructor | `Destroy` |
| `processor_.run()` | `RunBegins`, `RunCounts` (counters seen too early), `RunEnds` |

Time is in whole seconds: `slept` counts those a `ready_wait` has spent, and is a
history. So is `peeked`, the cores whose counters were cached before the run was
over. `dcr_read` and `get_caps` only read; an `mpm_query` of an offset above 31
returns at once; the two halves of a 64 bit register are written as one, since
what is between them is seen by nobody (the run does not exist yet).

### Spinner

A table is named by the frame of its root, which stands for all its nodes; a
binary has pages (`Segment`), local memory and IO are frames mapped at their own
address (`Fixed`), and a heap buffer is one page. `mem` says what each frame of
the device memory holds: code, arguments, data or results of a binary, or a page
table. `space` is the host's side (see `VirtualSpaces`); what the device sees is the
`Table` in `mem` (`Sees`), and when a run ends its results are in the heap pages
that this table maps (`Output`).

| Code | Actions |
|---|---|
| `allocate_kernel` | `AllocateKernel` (`allocate_kcb_`), `AllocatePageTable` or `PageTableFails`, `ReadVxbin` or `ReadVxbinThrows` |
| `allocate_heap`, `upload_args` | `AllocateHeap`, `UploadArgs`, then `MapHeap` or `MapHeapThrows`; for the arguments `CopyPage` |
| `upload` | `Upload`, `CopyPage` |
| `start_kernel` | `StartKernel`, `MapPage` for each page of `Layout`, `AllMapped`, `UploadVxbin`, `UploadPageTable`, `Start`; `StartThrows` |
| `wait_kernel` | `WaitKernel`, then `WaitReady` or `WaitTimesOut` |
| `free_kernel` | `FreeKernel`, `FreePageTable`, `FreeKcb` |
| the device | `RunBegins`, `RunEnds` |

What is assumed of clients, because the code asks for it or has no defined
outcome without it: one thread per kernel (`spinner.hpp:356` "TODO: protect each KCB
with a mutex"); one call at a time that uses the accelerator (see the finding);
kernel ids are used by those who got them and until they free them. Clients may do
what is unwise: free a kernel whose run is not over, start twice, allocate and
upload while the kernel runs. `early` records the first of these, and the last two
properties are stated until it happens.

Loads overlap with each other and with every other call, as `kcb_mutex_` lets them:

* `allocate_kcb_` returns a free slot without taking it, so that a second load may be
  given the same one until the first has made its control block (`spinner.hpp:303` to
  `:116`). `AllocateKernel` does just that, and the history `twice` records it. From
  then on two clients have one control block, which each takes for its own, and the
  page table of the first load is lost. `KernelIdsNameOne` says that nothing else leads
  there: loads with slots of their own, loads during and after frees, failures. All
  properties but the types are stated until `twice`; from then on no new call is
  made (a bound, in `Call`), and the calls that run go on.
* `upload_args` keeps a reference to its control block while it allocates, and a load
  that makes a new slot may move all blocks. Then the address of the arguments is
  written where nobody reads it (`NewArgs`: the write is there or it is lost). The
  freed memory is taken to keep what it held. Every other call copies its block first;
  a copy taken in the middle of the move is not modelled.

`due`, `over`, `early`, `lost` and `twice` are histories. `due` is what a start promises: the
pages the device has to see, and those in which it has to leave results.
`calls` bounds the number of calls.

### KernelLayout

Addresses are bytes here. One behaviour is one binary on one device: `MapCode`,
`MapBoundary`, `MapData` and `MapStack` are the branches of `allocate_vxbin_segments_` and
`allocate_user_stack_`, counting how often each page is asked for; then `BeginCopy`,
`CopyChunk` and `CopyEnds` are the copy loop, for the binary or for a buffer anywhere in
the image, over pages that lie anywhere in the device memory (`Place`). A page that is
not mapped makes `translate(...).value()` throw; an upload that the device refuses
is ignored, as in the code. `kernel_start_va` is taken to be on a page boundary
(Vortex links at 0x80000000), and a file to be no longer than its image. Shifts to
the left are products with a power of two (`Pow2`).

## Runs

| Run | Question | Bounds |
|---|---|---|
| `table_lifecycle` | isolation, reuse, leaks when tables come and go | 2 threads, 6 frames (one counts as in the IO hole), 3 x 3 tables, 6 calls |
| `table_operations` | all six operations; walks; the inductive invariant; refinement of `VirtualSpaces`; every call returns, with memory that runs out inside calls | 2 threads, 5 frames, 4 calls |
| `allocator_blocks` | splits, merges, list agreement, best fit | two pages of 4 units, all kinds of sizes, also 0 and more than a page |
| `allocator_pages` | page list, gaps, reservations, refusal, refinement of `BlockAllocator` | 4 pages |
| `allocator_frames` | single pages: refinement of `FrameAllocator` | 6 pages |
| `heap_growth` | buffers, growth that throws, termination | pages of 2 bytes, 6 pages, a segment below and a stack in the way |
| `device` | one host thread: runs, waits, queries, the destructor; refinement of `DeviceRuns`; termination | 3 runs, 2 parameters, timeouts of 0, 999, 1000 and 2500 ms, 2 cores, one of them with counters behind the memory |
| `kernel_layout` | image, stacks, copy loop | see below |
| `kernel_life` | the life of kernels | 2 threads, 2 binaries, 2 slots, 7 frames (2 of them fixed), 3 heap pages, 6 calls |
| `table_two_holes`, `heap_zero_size`, `accelerator_two_starts` | the findings below | the smallest that show them |

Why the bounds suffice. Two threads: each property relates at most two tables or
two calls. Three entries per node: two nodes and an empty entry, with a user
page in each of two nodes (pages 2 and 3), so a table may have one or two
nodes. Six calls: two tables made, filled and freed, or one made from the frames of
another. With six frames memory runs out at the page, at the node and at the
root. Pages of four units: a block may have free neighbours on no, one or both
sides. Three runs: the one that start waits for, its own, and one more whose
future replaces it. A timeout of less than a second, of one, and of a broken
number of them. Six calls of `kernel_life`: load, arguments, start, wait, free by
one client and a load by the other, or two kernels on the way to their start,
with five frames for both, so that frames of one kernel come back in the other
and memory runs out at every step; two slots, one of them taken again.
The instance of `kernel_layout` has every remainder of an image's code and data
in a page, powers of two and others for threads and warps, and pages placed out of
order with one at the end of the memory. The run `device` is the SimXDevice; for the
RtlSimDevice (`SatpWaits`) the proofs hold as well. The proofs remove these bounds
for the properties they cover.

Sizes of the allocator are small integers instead of 4096 and 64; only their
ratios and remainders are used. The arithmetic of the code is wider than
anything the runs reach, so overflow is not modelled.

Fairness. Liveness is checked under weak fairness of each thread's `Step`: the
operating system runs every thread that can run. A thread waiting for the
mutex is not given it by fairness alone; `CallsReturn` holds because a finite
number of calls can overtake it (`MaxCalls`), and the mutex is always released.
Nothing is assumed of clients: `NewCall` is not fair. The heap has one thread and
weak fairness of its `Step`. In `Accelerator` a launched run begins, but
that it ends is up to the kernel and never assumed: `WaitReturns` holds without it,
and `StartReturns` says that `start`, which waits without a timeout, returns if every
run ends (`RunsEnd`). `Spinner` has no liveness of its own: its calls have no loops
but those of the modules below.

### Findings

Each is a run in which TLC finds the stated property violated.

* `table_two_holes`: `allocate_one_page` (`mm/address_space_manager.hpp:284`) asks
  again when its first frame is in a hole, but does not look at the second one:
  with two hole frames in a row a page of a hole becomes a node or a user page.
  The comment above it says "ignore allocation inside holes". (That comment goes
  on "but mark them as released as well"; the code leaves them with the
  allocator, which is what keeps them from being found again.) This takes a
  local memory that lies in the allocator's range.
* `heap_zero_size`: `HeapManager::allocate(0)` never returns.
* `accelerator_two_starts`: `start` (`accelerator/simx_backend.hpp:72` "ensure prior run
  completed") looks at `future_` and assigns it later, with no lock: two threads
  that start kernels both go on, and two runs share the processor. `Spinner` does not
  take its mutex around `start_kernel` either. That is why `Spinner` is checked, and
  `Accelerator` proved, for one user of the device at a time.

What the modules show as well, without a run, because no text in the repository
says otherwise:

* `addr_in_hole` (`mm/hole_list.hpp:18`) counts the address behind a region. The IO
  region ends where the allocator begins, so its first page is passed over for good.
* `findNextAddress` does not look at the capacity when there is no page yet;
  `hasPageOverlap` compares inclusively, so `reserve` refuses a region that touches a
  page, and accepts one below the base address. Nothing calls `reserve` today.
* A second `start_kernel` of a kernel throws at its first page, which is mapped
  already, also after one that threw half way.
* `ReadVxbinThrows`: a load whose file is missing leaves its page table behind, and
  its control block if the slot was a new one (`TablesAccounted` counts these in
  `lost`).
* `wait_kernel` drops the answer of `ready_wait`, so a client cannot know whether
  `free_kernel` is safe, or whether its results are there.
* Two loads at once may be given one kernel id, and the arguments of a kernel may be
  lost when another kernel is loaded meanwhile (see Spinner above).
* A first `mpm_query` of a core with counters behind the memory answers nothing, and
  every later one zeros; a query during a run fixes its unfinished counters until
  the next start.
* `allocate_user_stack_` takes 4 cores, whatever the device has.
* An upload whose size, rounded up to blocks, passes the end of the memory is refused
  although its bytes fit, and nobody looks at the refusal. In the copy loop that may
  happen to a first chunk that does not start on a block (`RefusedAtTheEnd`).

## Proofs

**AddressSpaceManager.** `AddressSpaceManagerProofs!Invariance` proves that `IInv` is an
invariant for any number of threads, frames, entries per node, pages and calls,
from `ConstAssumption` and `OneHoleFrame` (at most one frame of the allocator
counts as in a hole; `table_two_holes` shows that without it the isolation
really fails). From `IInv` follow `TypeCorrect`, `TablesArePrivate`, `PagesArePrivate`,
`ReachableStaysInUse` and `FreeReleasesOnlyItsOwn`. `OneHoleFrame` is a limit of all
of them: it admits the frame behind the IO region, and excludes a local memory that
lies in the allocator's range, of which the code makes a hole as well. There nothing
can be proved, for `HolesStayReserved` is false, and with it that pages are private.
`HolesStayReserved` itself is not stated as a theorem: with one hole frame it is only
about the first attempt.

None of these is inductive: that two tables share no frame now does not exclude
that a thread holds a frame of one of them, or that a free in progress will
release it. `IInv` says whose each frame is (`owner`) and that everything agrees
with it:

* a frame is in use exactly when it has an owner, and frames of holes are only
  ever skipped (`UsedOwned`, `HolesUnused`);
* in every live table each entry points to a frame owned at that very place
  (`TableOK`);
* a call in the transaction holds the mutex, so the entry it read is still what it
  read (`Transaction`);
* the frame a call has in hand is owned by that call (`HeldOwned`);
* a table being freed is out of the clients' reach, its root is still owned and
  tells which nodes it had, and what is left to release is owned by it
  (`FreedOwned`, `NodesLeft`, `NodeAtHand`).

Since an owner names one place, two reachable places never hold one frame. The
proof has one lemma per action. `OtherThread` is the argument about
interleaving: a step of one thread keeps what the invariant says of another
thread, if it leaves alone the table that one works on, the frame it holds and
the mutex it has; `LocalStep`, `OwnerStep` and `FreeStep` apply it to the kinds of
steps. The run `table_operations` checks `IInv` with TLC as well.

`AddressSpaceRefinement` adds what clients and the allocator see.

* A valid entry of a live table never changes. So what a walk has read by its first read
  is still so at its second, and the answer it ends with is the mapping of the table
  (`WalkInv`, `WalkFindsWhatIsMapped`), although it takes the mutex twice.
* `Refinement`: `ZeroTable` is `VS!Create`, `InstallLeaf` is `VS!Map`, `FreePageTable` is
  `VS!Destroy`, and every other step of any thread is a stutter.
* `IInv` says that a table holds only what it owns; `EveryPageIsKept` is the converse: each
  frame in use is in the hand of a call, linked where its owner says, still to be released
  by the free that has read its node, skipped as part of a hole, or given up by a call
  that threw. When no table lives and no call runs only the last two are left
  (`AllPagesReturn`).

**HeapManager.** `HeapManagerProofs!HeapInvariance` proves `HeapManager!IInv` from
`HeapAssumption` alone: everything below the capacity, and what the loop has
passed, is mapped by the heap. From it follow `BuffersAreBacked`, `BuffersAreApart`
and `RetriesFit`. The invariant needs the alignment of the capacity (`Aligned`) and
the pages of an unfinished growth (`HeapMapped`).

**Accelerator.** `AcceleratorProofs!Invariance` proves `IInv` for one host thread
(`OneHost`, the assumption that `accelerator_two_starts` shows to be needed) and any
number of runs, parameters, timeouts and cores. `OneRun` is not inductive: it says
nothing of a start that is about to launch. `IInv` adds

* only the latest run may be unfinished (`Sequential`);
* where `start` is, what it has written and what it knows: while it writes
  registers no run is unfinished, and `future` is the latest run except between
  `Launch` and `Assign` (`StartOK`);
* a launched run finds the registers of its own start, a running one has read them
  (`ReadsItsOwn`);
* when no run is unfinished the counters are those of the latest (`Counted`).

`OneRunAtATime` and `CountersAreOfLastRun` follow, and `Refinement`: `Launch` is
`DR!Request`, `RunBegins` is `DR!Begin`, `RunEnds` is `DR!End`, and every other step is a
stutter. `WaitIsHonest` has two halves. `TimeoutsAreTimely` needs none of this and holds
for any number of threads: the seconds a `ready_wait` has slept and those it has left
add up to its timeout (`WaitOK`). That "ready" means that no run is left does need one
host thread: a `ready_wait` looks at `future` alone, and only `Sequential` says that
nothing else can be running.

**VortexMemoryAllocator.** Every operation of the allocator is one step, so the invariant
of `VortexMemoryAllocatorProofs` speaks of data alone: lists of any length, in pages
of any number and size.

* *Lists* (`AllocatorLists`). A search along a list is the length of its leading part
  that is passed; where it stops, what unlinking and inserting leave and keep sorted, and
  which block a lookup by address finds are lemmas about sequences. The induction in
  them is by a least counterexample: a set of natural numbers that has a member
  has a least one (`LeastNat`).
* *A page* (`PageOK`). The two free lists are sorted, each by its own order, and hold
  the same blocks (`ListsOK`); the used and the free blocks do not meet, cover every byte
  of the page, and no two free blocks touch (`Tiled`). Splitting and merging keep this.
* *The list of pages* (`Good`). Every page is such a page and has a used block; pages are
  in order and do not overlap. `Changes` (a page in its place), `Creates` (a new one) and
  `Deletes` (one that has become empty) say what the three things that happen to the
  list keep.
* *A step* hands out one block (`Adds`), takes one back (`Removes`), or leaves the blocks
  alone (`Steps`).

`PagesStayInOrder`, `PagesStayTiled` and `FreeListsStayEqual` follow at once.
`BytesAreAccounted` needs that the sum over the used blocks does not depend on the
order in which they are taken (`TotalAny`). `RefusalsAreJustified` and `TakesTheBestFit`
look at what `findNextAddress` and the two searches pass over. All these hold from
`AllocatorAssumption` alone: alignments are powers of two, as `alignSize` asserts, and a page
is a whole number of blocks (`MEM_PAGE_SIZE` and `CACHE_BLOCK_SIZE` here).
`TypeCorrect` and `BlockRefinement` say that blocks lie in the memory, and that needs
`RequestsFit`: no request is for more than the memory and no reservation is for what
is below it, for the code refuses neither (see the findings). `FrameRefinement` is
about the allocator as `AddressSpaceManager` uses it (`PagesOnly`: all requests are of
one page, none is reserved), where pages have one block each and the first gap is
the lowest free frame. `AllocatorPages.cfg` and `AllocatorBlocks.cfg` satisfy
`RequestsFit`, `AllocatorFrames.cfg` satisfies `PagesOnly`.

**Spinner.** `SpinnerProofs` proves the invariant in two halves, from `SpinnerAssumption` for
any number of threads, kernels, frames, pages and calls.

The first half, `IInv`, is about ownership, and holds whatever clients do until two loads
are given one slot (`twice`): each kernel id is claimed by one thread (it holds it,
loads it or frees it), each live table belongs to one kernel, one load, or is `lost`
(`OneTable`: two loads at once have two tables); no frame backs two pages but the fixed
ones. A slot that a load was given and has not taken is free in `kcbs`, and still nobody
else's: that is what `AllocateKernel` has to keep, and can keep only with `~twice'`.
`KernelIdsAreUnique` and `TablesAreAccounted` follow, and the types, until `twice`.

The second half, `RunsInv`, follows a table to the end of its run. Until a kernel is
freed before its run is over (`early`) or two loads were given one slot, for every
kernel:

* what its start has done so far: which pages are mapped and which are left, where the
  binary is, that the dump is the table (`StartOK`);
* what the device runs, or is about to, is sound: its dump agrees with the table on the
  host, has all that the start promised, the binary is in its pages and the arguments are
  in theirs (`SoundRun`);
* when the device has left it, its results are in its heap (`Landed`).

That one kernel's upload does not spoil another's memory is ownership, the first half:
frames of two tables are apart. A run cannot be disturbed by a second start of its own
kernel because that throws at its first page, which `StartOK` has to remember
(`todo = Layout` or the kernel does not run). `RunsAreSound` and `ResultsStay` follow.

**KernelLayout.** `KernelLayoutProofs` proves `ImageIsMappedOnce`, `CopiesArrive` and
`HartsHaveStacks` for every page and block size, binary, device and placement of pages,
if images end below the stacks (`ImageBelowStacks`; the code does not check it, and the
loader of a longer image would meet a page that is mapped). `PagesOfBytes` turns every call of
`allocate_vm_pages` into an interval of pages, and the invariant says up to which page the
branches have come. In the copy loop the bytes before the offset have arrived, and
the offset is on a page boundary but in the first chunk; that is why only a first
chunk can be refused for its aligned size. Hart ids are numbers with three digits, in
bases that are powers of two and large enough (`HartIds`); `Pow2Def` derives what the
definition of `Pow2` says of it.

**Only model-checked**: liveness (`CallsReturn`, `AllocateReturns`, `WaitReturns`,
`StartReturns`), because fairness and ENABLED are out of the prover's reach;
`HolesStayReserved`; `Spinner!TypeOK` after two loads were given one slot. Every other
property that a passing run checks is a theorem.

## Not modelled

* Two users of one kernel or of the device at once in `Spinner`: the first is what
  `spinner.hpp:356` leaves to do, the second is the finding.
* What clients do with one control block once two loads were given one slot, and a
  read of `kcbs_` in the middle of its move (`emplace_back` under a reader).
* `download` in `Spinner`: it changes nothing. Its loop is that of `KernelLayout`.
* Writes of a kernel to pages other than its heap, and the access control flag of
  the simulator's memory: what happens inside the simulator is not in `src/`.
* A file that changes between load and start, and images that are not page aligned.
* `Logger`, the buffers and the Makefile: output, plain values, build rules.
* Permission bits of page table entries, the dump operations (they only read).
* The read at `mm/address_space_manager.hpp:195`, outside the mutex, of a hash map that
  others may be changing: a data race whose outcome the language leaves open.
* `BumpAllocator::release` and `shrink_capacity` throw, and nothing calls them.
* The wrap of virtual addresses at the top of the address space.

## Plan

Every component with a protocol is modelled, and every safety property, action property
and refinement that a passing run checks is proved. What could still be added:

1. `Accelerator` from several host threads, if `start` were to look at `future_` and
   assign it under one lock: `OneHost` would no longer be needed.
2. The termination arguments behind the liveness properties as safety: a variant that each
   step of a call decreases (the pages left of `allocate_vm_pages`, the nodes left of
   a free, the seconds left of `ready_wait`).
