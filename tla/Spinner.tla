------------------------------ MODULE Spinner ------------------------------
(***************************************************************************)
(* Kernels and their life (spinner.hpp, called through espiral.cpp): load, *)
(* fill the heap, start, wait, free.  Composes what the components below   *)
(* promise: VirtualSpaces for the page tables and DeviceRuns for the       *)
(* accelerator, with the device memory in between.  The host copies the    *)
(* binary, the arguments, the buffers and the page table into it, and the  *)
(* device sees nothing else.                                               *)
(*                                                                         *)
(* A page table is named by the frame of its root, which stands for all    *)
(* its nodes; a buffer is one page of the heap.  Each kernel is used by    *)
(* one thread ("TODO: protect each KCB with a mutex") and the accelerator  *)
(* by one call at a time; loads overlap with each other and with every     *)
(* other call.  allocate_kcb_ returns a free slot without taking it, so    *)
(* that two loads may be given one slot (twice): from then on two clients  *)
(* have one control block, of which nothing is claimed.                    *)
(***************************************************************************)
EXTENDS Integers, Sequences, FiniteSets

CONSTANTS
  Thread,     (* host threads                                              *)
  Binary,     (* vxbin files                                               *)
  NoBinary,   (* no file                                                   *)
  Frame,      (* physical frames                                           *)
  Fixed,      (* frames of local memory and IO, mapped at their address    *)
  Segment,    (* pages of a binary                                         *)
  Layout,     (* what start_kernel maps, in order: the segments, local     *)
              (* memory, stacks, IO                                        *)
  HeapBase,   (* first page behind the segments                            *)
  HeapEnd,    (* bound: last page of a heap                                *)
  MaxKernels, (* bound: slots of kcbs_                                     *)
  MaxCalls    (* bound: calls made by all threads together                 *)

Heap   == HeapBase .. HeapEnd
Mapped == {Layout[i] : i \in DOMAIN Layout}     \* by start_kernel
Page   == Mapped \cup Heap
Kids   == 1 .. MaxKernels

ASSUME SpinnerAssumption ==
  /\ Frame \subseteq Nat \ {0} /\ Fixed \subseteq Frame
  /\ Layout \in Seq(Nat \ {0})
  /\ Segment \subseteq Mapped \ Fixed /\ Segment # {} /\ Fixed \subseteq Mapped
  /\ HeapBase \in Nat \ {0} /\ HeapEnd \in Nat /\ HeapBase <= HeapEnd + 1
  /\ Heap \cap Mapped = {}
  /\ NoBinary \notin Binary
  /\ MaxKernels \in Nat /\ MaxCalls \in Nat

VARIABLES
  kcbs,    (* control blocks; NoKcb in a slot without a value              *)
  slots,   (* kcbs_.size()                                                 *)
  space,   (* page tables on the host, see VirtualSpaces                   *)
  mem,     (* device memory: what each frame holds                         *)
  asked,   (* the start the device has not begun yet, see DeviceRuns       *)
  run,     (* what the device executes                                     *)
  pc,      (* what each thread does next                                   *)
  job,     (* its call: kernel id, binary or page, loop variables          *)
  mine,    (* kernel ids that the client of each thread holds              *)
  due,     (* history: pages a run has to see, pages it has to leave       *)
  over,    (* history: kernels whose last wait did not time out            *)
  early,   (* history: some kernel was freed before its run was over       *)
  lost,    (* history: tables of loads that threw                          *)
  twice,   (* history: two loads at once were given the same free slot     *)
  calls    (* number of calls made                                         *)

table  == <<kcbs, slots>>
accel  == <<asked, run>>
vars   == <<table, space, mem, accel, pc, job, mine, due, over, early, lost, twice,
            calls>>

NoRun   == [root |-> 0, args |-> 0]
NoKcb   == [root |-> 0, binary |-> NoBinary, args |-> 0, top |-> 0, value |-> FALSE]
Dummy   == [NoKcb EXCEPT !.value = TRUE]        \* KernelControlBlock{}
NoJob   == [kid |-> 0, binary |-> NoBinary, root |-> 0, page |-> 0, args |-> FALSE,
            size |-> 0, todo |-> <<>>, had |-> {}]
Nothing == [see |-> {}, leave |-> {}]

\* What a frame of the device memory holds: a piece of a kernel, or a table
Piece(kind, b) == [kind |-> kind, of |-> b, map |-> <<>>]
Table(m)       == [kind |-> "table", of |-> NoBinary, map |-> m]

VS == INSTANCE VirtualSpaces WITH Id <- Frame
DR == INSTANCE DeviceRuns WITH Params <- [root : Frame, args : Heap \cup {0}]

Init ==
  /\ kcbs = [k \in Kids |-> NoKcb] /\ slots = 0
  /\ VS!Init /\ DR!Init
  /\ mem = [f \in Frame |-> Piece("empty", NoBinary)]
  /\ pc = [t \in Thread |-> "idle"] /\ job = [t \in Thread |-> NoJob]
  /\ mine = [t \in Thread |-> {}]
  /\ due = [k \in Kids |-> Nothing] /\ over = {} /\ early = FALSE /\ lost = {}
  /\ twice = FALSE /\ calls = 0

----------------------------------------------------------------------------
Goto(t, p) == pc' = [pc EXCEPT ![t] = p]

\* The call of t returns or throws.
Return(t) == Goto(t, "idle") /\ job' = [job EXCEPT ![t] = NoJob]

Kcb(t) == kcbs[job[t].kid]
Root(t) == Kcb(t).root

\* The frame that the allocator hands out next, see FrameAllocator
Vacant   == Frame \ (Fixed \cup VS!Live \cup VS!Backing)
Lowest(f) == f \in Vacant /\ \A g \in Vacant : f <= g

\* A client calls (espiral.cpp); j is the call.  Bound: none calls when two
\* clients have one control block; the calls that run go on.
Call(t, p, j) ==
  /\ pc[t] = "idle" /\ calls < MaxCalls /\ ~twice
  /\ calls' = calls + 1
  /\ Goto(t, p)
  /\ job' = [job EXCEPT ![t] = j]
  /\ UNCHANGED <<space, mem, accel, due, over, early, lost>>

On(k) == [NoJob EXCEPT !.kid = k]

----------------------------------------------------------------------------
(* allocate_kernel                                                         *)

\* Mutant: the slot of the first kernel is taken for free.
FreeSlotAny == IF slots > 0 THEN {1} ELSE {}

FreeSlots == {k \in 1 .. slots : ~kcbs[k].value}

\* The kid that allocate_kcb_ returns: the first free slot, or a new one
NewKid(k) ==
  IF FreeSlots = {} THEN k = slots + 1 ELSE k \in FreeSlots /\ \A j \in FreeSlots : k <= j

Loading(t) == pc[t] \in {"table", "read"}

AllocateKernel(t, b) ==
  /\ \E k \in Kids :
       /\ NewKid(k)
       /\ Call(t, "table", [On(k) EXCEPT !.binary = b])
       /\ IF k \in FreeSlots THEN UNCHANGED table
          ELSE slots' = k /\ kcbs' = [kcbs EXCEPT ![k] = Dummy]
       /\ twice' = (\E u \in Thread : Loading(u) /\ job[u].kid = k)
  /\ UNCHANGED mine

AllocatePageTable(t) ==
  /\ pc[t] = "table"
  /\ \E f \in Frame :
       /\ Lowest(f) /\ VS!Create(f)
       /\ job' = [job EXCEPT ![t].root = f]
  /\ Goto(t, "read")
  /\ UNCHANGED <<table, mem, accel, mine, due, over, early, lost, twice, calls>>

\* No page for the root: free_kcb_, then throw
PageTableFails(t) ==
  /\ pc[t] = "table" /\ Vacant = {}
  /\ kcbs' = [kcbs EXCEPT ![job[t].kid] = NoKcb]
  /\ Return(t)
  /\ UNCHANGED <<slots, space, mem, accel, mine, due, over, early, lost, twice, calls>>

\* The file is read, the control block made, the kernel id returned.
ReadVxbin(t) ==
  /\ pc[t] = "read"
  /\ kcbs' = [kcbs EXCEPT ![job[t].kid] =
                [root |-> job[t].root, binary |-> job[t].binary, args |-> 0,
                 top |-> HeapBase, value |-> TRUE]]
  /\ mine' = [mine EXCEPT ![t] = @ \cup {job[t].kid}]
  /\ Return(t)
  /\ UNCHANGED <<slots, space, mem, accel, due, over, early, lost, twice, calls>>

\* The file is not found: the table and the control block stay.
ReadVxbinThrows(t) ==
  /\ pc[t] = "read"
  /\ lost' = lost \cup {job[t].root}
  /\ Return(t)
  /\ UNCHANGED <<table, space, mem, accel, mine, due, over, early, twice, calls>>

----------------------------------------------------------------------------
(* allocate_heap, upload_args, upload                                      *)

AllocateHeap(t, k) ==
  /\ kcbs[k].top <= HeapEnd
  /\ Call(t, "heap", On(k)) /\ UNCHANGED <<table, mine, twice>>

UploadArgs(t, k) ==
  /\ kcbs[k].top <= HeapEnd
  /\ Call(t, "heap", [On(k) EXCEPT !.args = TRUE, !.size = slots]) /\ UNCHANGED <<table, mine, twice>>

Upload(t, k, p) ==
  /\ p \in Heap \cap DOMAIN space[kcbs[k].root] /\ p # kcbs[k].args
  /\ Call(t, "copy", [On(k) EXCEPT !.page = p]) /\ UNCHANGED <<table, mine, twice>>

\* Mutant: the arguments are taken to be where the allocation ends.
MapHeapAtEnd(t) ==
  /\ pc[t] = "heap"
  /\ \E f \in Frame : Lowest(f) /\ VS!Map(Root(t), Kcb(t).top, f)
  /\ kcbs' = [kcbs EXCEPT ![job[t].kid] = [@ EXCEPT !.top = @ + 1, !.args = Kcb(t).top + 1]]
  /\ Return(t)
  /\ UNCHANGED <<slots, mem, accel, mine, due, over, early, lost, twice, calls>>

\* upload_args keeps its reference to the control block across allocate: when
\* a load has made a new slot meanwhile the blocks may have moved, and what
\* it writes to the old one is lost.
NewArgs(t) ==
  IF ~job[t].args THEN {Kcb(t).args}
  ELSE {Kcb(t).top} \cup (IF slots > job[t].size THEN {Kcb(t).args} ELSE {})

\* HeapManager::allocate of a page; upload_args goes on with it.
MapHeap(t) ==
  /\ pc[t] = "heap"
  /\ \E f \in Frame : Lowest(f) /\ VS!Map(Root(t), Kcb(t).top, f)
  /\ \E a \in NewArgs(t) :
       kcbs' = [kcbs EXCEPT ![job[t].kid] = [Kcb(t) EXCEPT !.top = @ + 1, !.args = a]]
  /\ IF job[t].args
     THEN Goto(t, "copy") /\ job' = [job EXCEPT ![t].page = Kcb(t).top]
     ELSE Return(t)
  /\ UNCHANGED <<slots, mem, accel, mine, due, over, early, lost, twice, calls>>

\* Memory runs out, for the page or for a node of the table.
MapHeapThrows(t) ==
  /\ pc[t] = "heap"
  /\ Return(t)
  /\ UNCHANGED <<table, space, mem, accel, mine, due, over, early, lost, twice, calls>>

\* copy_host_to_dev_ of one page
CopyPage(t) ==
  /\ pc[t] = "copy"
  /\ mem' = [mem EXCEPT ![space[Root(t)][job[t].page]] =
               Piece(IF job[t].args THEN "args" ELSE "data", Kcb(t).binary)]
  /\ due' = [due EXCEPT ![job[t].kid].leave = @ \ {job[t].page}]
  /\ Return(t)
  /\ UNCHANGED <<table, space, accel, mine, over, early, lost, twice, calls>>

----------------------------------------------------------------------------
(* start_kernel                                                            *)

UsesDevice(t) == pc[t] \in {"map", "binary", "pages", "start", "wait"}

StartKernel(t, k) ==
  /\ \A u \in Thread : ~UsesDevice(u)
  /\ Call(t, "map", [On(k) EXCEPT !.todo = Layout, !.had = DOMAIN space[kcbs[k].root]])
  /\ UNCHANGED <<table, mine, twice>>

\* The next page of the segments, the local memory, the stacks, the IO
MapPage(t) ==
  /\ pc[t] = "map" /\ job[t].todo # <<>>
  /\ LET p == Head(job[t].todo) IN
       \E f \in Frame :
         /\ IF p \in Fixed THEN f = p ELSE Lowest(f)
         /\ VS!Map(Root(t), p, f)
  /\ job' = [job EXCEPT ![t].todo = Tail(@)]
  /\ UNCHANGED <<table, mem, accel, pc, mine, due, over, early, lost, twice, calls>>

AllMapped(t) ==
  /\ pc[t] = "map" /\ job[t].todo = <<>>
  /\ Goto(t, "binary")
  /\ UNCHANGED <<table, space, mem, accel, job, mine, due, over, early, lost, twice, calls>>

\* A page is mapped already, memory runs out, or the file cannot be read
\* again: what was mapped stays.
StartThrows(t) ==
  /\ (pc[t] = "map" /\ job[t].todo # <<>>) \/ pc[t] = "binary"
  /\ Return(t)
  /\ UNCHANGED <<table, space, mem, accel, mine, due, over, early, lost, twice, calls>>

\* Mutant: the binary is not uploaded.
UploadVxbinNever(t) ==
  /\ pc[t] = "binary"
  /\ Goto(t, "pages")
  /\ UNCHANGED <<table, space, mem, accel, job, mine, due, over, early, lost, twice, calls>>

UploadVxbin(t) ==
  /\ pc[t] = "binary"
  /\ mem' = [f \in Frame |-> IF \E p \in Segment : space[Root(t)][p] = f
                             THEN Piece("code", Kcb(t).binary) ELSE mem[f]]
  /\ Goto(t, "pages")
  /\ UNCHANGED <<table, space, accel, job, mine, due, over, early, lost, twice, calls>>

\* dump_page_table and upload_sparse_scratchpad_
UploadPageTable(t) ==
  /\ pc[t] = "pages"
  /\ mem' = [mem EXCEPT ![Root(t)] = Table(space[Root(t)])]
  /\ Goto(t, "start")
  /\ UNCHANGED <<table, space, accel, job, mine, due, over, early, lost, twice, calls>>

\* start of the accelerator, which waits for the run before
Start(t) ==
  /\ pc[t] = "start"
  /\ DR!Request([root |-> Root(t), args |-> Kcb(t).args])
  /\ due' = [due EXCEPT ![job[t].kid] =
               [see   |-> job[t].had \cup Mapped,
                leave |-> (job[t].had \cap Heap) \ {Kcb(t).args}]]
  /\ over' = over \ {job[t].kid}
  /\ Return(t)
  /\ UNCHANGED <<table, space, mem, mine, early, lost, twice, calls>>

----------------------------------------------------------------------------
(* wait_kernel and free_kernel                                             *)

WaitKernel(t, k) ==
  /\ \A u \in Thread : ~UsesDevice(u)
  /\ Call(t, "wait", On(k)) /\ UNCHANGED <<table, mine, twice>>

\* Mutant: ready_wait does not see a run that the device has not begun.
WaitReadyEarly(t) ==
  /\ pc[t] = "wait" /\ run = NoRun
  /\ over' = over \cup {job[t].kid}
  /\ Return(t)
  /\ UNCHANGED <<table, space, mem, accel, mine, due, early, lost, twice, calls>>

WaitReady(t) ==
  /\ pc[t] = "wait" /\ asked = NoRun /\ run = NoRun
  /\ over' = over \cup {job[t].kid}
  /\ Return(t)
  /\ UNCHANGED <<table, space, mem, accel, mine, due, early, lost, twice, calls>>

\* ready_wait returns -1, and wait_kernel returns as ever.
WaitTimesOut(t) ==
  /\ pc[t] = "wait" /\ ~(asked = NoRun /\ run = NoRun)
  /\ Return(t)
  /\ UNCHANGED <<table, space, mem, accel, mine, due, over, early, lost, twice, calls>>

FreeKernel(t, k) ==
  /\ Call(t, "free", On(k))
  /\ mine' = [mine EXCEPT ![t] = @ \ {k}]
  /\ UNCHANGED <<table, twice>>

\* Mutant: the heap is deleted and the table forgotten.
FreePageTableNever(t) ==
  /\ pc[t] = "free" /\ Goto(t, "slot")
  /\ UNCHANGED <<table, space, mem, accel, job, mine, due, over, early, lost, twice, calls>>

FreePageTable(t) ==
  /\ pc[t] = "free"
  /\ VS!Destroy(Root(t))
  /\ early' = (early \/ Root(t) \in {asked.root, run.root})
  /\ Goto(t, "slot")
  /\ UNCHANGED <<table, mem, accel, job, mine, due, over, lost, twice, calls>>

FreeKcb(t) ==
  /\ pc[t] = "slot"
  /\ kcbs' = [kcbs EXCEPT ![job[t].kid] = NoKcb]
  /\ due' = [due EXCEPT ![job[t].kid] = Nothing]
  /\ over' = over \ {job[t].kid}
  /\ Return(t)
  /\ UNCHANGED <<slots, space, mem, accel, mine, early, lost, twice, calls>>

----------------------------------------------------------------------------
(* The device: it reads the table and the code in its own memory, and what *)
(* it computes goes to the heap pages that this table maps.                *)

Others == <<table, space, pc, job, mine, due, over, early, lost, twice, calls>>

Sees     == IF mem[run.root].kind = "table" THEN mem[run.root].map ELSE <<>>
Executes == IF Segment \subseteq DOMAIN Sees /\ Segment # {}
            THEN mem[Sees[CHOOSE p \in Segment : TRUE]].of ELSE NoBinary
Output   == {Sees[p] : p \in (DOMAIN Sees \cap Heap) \ {run.args}}

RunBegins == DR!Begin /\ UNCHANGED <<mem, Others>>

RunEnds ==
  /\ DR!End
  /\ mem' = [f \in Frame |-> IF f \in Output THEN Piece("result", Executes) ELSE mem[f]]
  /\ UNCHANGED Others

----------------------------------------------------------------------------
NewCall(t) ==
  \/ \E b \in Binary : AllocateKernel(t, b)
  \/ \E k \in mine[t] :
       \/ AllocateHeap(t, k) \/ UploadArgs(t, k)
       \/ \E p \in Heap : Upload(t, k, p)
       \/ StartKernel(t, k) \/ WaitKernel(t, k) \/ FreeKernel(t, k)

Step(t) ==
  \/ AllocatePageTable(t) \/ PageTableFails(t) \/ ReadVxbin(t) \/ ReadVxbinThrows(t)
  \/ MapHeap(t) \/ MapHeapThrows(t) \/ CopyPage(t)
  \/ MapPage(t) \/ AllMapped(t) \/ StartThrows(t) \/ UploadVxbin(t)
  \/ UploadPageTable(t) \/ Start(t)
  \/ WaitReady(t) \/ WaitTimesOut(t)
  \/ FreePageTable(t) \/ FreeKcb(t)

Next == RunBegins \/ RunEnds \/ \E t \in Thread : NewCall(t) \/ Step(t)

Spec == Init /\ [][Next]_vars
----------------------------------------------------------------------------
(* Properties.                                                             *)

(***************************************************************************)
(* Types of the variables.                                                 *)
(***************************************************************************)
Roots   == Frame \cup {0}
Top     == HeapBase .. HeapEnd + 1
Kernel  == [root : Roots, binary : Binary \cup {NoBinary}, args : Heap \cup {0},
            top : Top \cup {0}, value : BOOLEAN]
Pcs     == {"idle", "table", "read", "heap", "copy", "map", "binary", "pages",
            "start", "wait", "free", "slot"}

TypeOK ==
  /\ kcbs \in [Kids -> Kernel] /\ slots \in 0 .. MaxKernels
  /\ VS!Live \subseteq Frame
  /\ \A r \in VS!Live : DOMAIN space[r] \subseteq Page /\ VS!Backing \subseteq Frame
  /\ DOMAIN mem = Frame
  /\ \A f \in Frame : mem[f].kind \in {"empty", "code", "args", "data", "result", "table"}
  /\ asked.root \in Roots /\ run.root \in Roots
  /\ pc \in [Thread -> Pcs]
  /\ \A t \in Thread : job[t].kid \in Kids \cup {0} /\ job[t].root \in Roots
  /\ mine \in [Thread -> SUBSET Kids]
  /\ over \subseteq Kids /\ {early, twice} \subseteq BOOLEAN /\ lost \subseteq Frame
  /\ calls \in 0 .. MaxCalls

(***************************************************************************)
(* A kernel id names one kernel, however loads, frees and other calls      *)
(* interleave: a load has an id that no other load or call and no client   *)
(* has, no two clients hold the same, and what an id stands for is a page  *)
(* table that is alive and that no other id has.  It takes two loads at    *)
(* once, both given the same free slot, to break this (twice).             *)
(***************************************************************************)
Held == UNION {mine[t] : t \in Thread}

KernelIdsNameOne ==
  ~twice =>
    /\ \A t, u \in Thread : Loading(t) /\ t # u => job[t].kid \notin mine[u] \cup {job[u].kid}
    /\ \A t, u \in Thread : t = u \/ mine[t] \cap mine[u] = {}
    /\ \A k \in Held : kcbs[k].value /\ kcbs[k].root \in VS!Live
    /\ \A j, k \in Held : kcbs[j].root = kcbs[k].root => j = k

(***************************************************************************)
(* Every page table belongs to a kernel some client holds, or to a load or *)
(* a free that is running, but for those of loads that threw.  Of two      *)
(* loads with one slot the second overwrites the table of the first.       *)
(***************************************************************************)
TablesAccounted ==
  ~twice =>
    VS!Live = {kcbs[k].root : k \in Held} \cup lost
              \cup {job[t].root : t \in {u \in Thread : pc[u] = "read"}}
              \cup {Root(t) : t \in {u \in Thread : pc[u] = "free"}}

(***************************************************************************)
(* What the device runs is the kernel that was started, for as long as it  *)
(* runs: the page table in device memory has every page that was mapped    *)
(* before start_kernel and agrees with the host's, the code is that of the *)
(* binary, and the arguments are its own.  This holds until some client    *)
(* frees a kernel before its run is over, as it may after a wait that      *)
(* timed out, of which it is not told, and for kernels of one client.      *)
(***************************************************************************)
RunSeesItsKernel ==
  ~early /\ ~twice /\ run # NoRun =>
    \E k \in Kids : LET c == kcbs[k]  s == Sees IN
      /\ c.value /\ run.root = c.root
      /\ due[k].see \subseteq DOMAIN s
      /\ \A p \in DOMAIN s : s[p] = space[c.root][p]
      /\ \A p \in Segment : mem[s[p]] = Piece("code", c.binary)
      /\ run.args # 0 => mem[s[run.args]] \in {Piece("args", c.binary), Piece("data", c.binary)}

(***************************************************************************)
(* After a wait that did not time out the buffers that the kernel had when *)
(* it was started hold what it computed, until the client overwrites them: *)
(* no other kernel's load, upload or run gets in the way.  Again for       *)
(* kernels of one client, none freed before its run is over.               *)
(***************************************************************************)
ResultsInPlace ==
  ~early /\ ~twice => \A k \in over \cap Held : \A p \in due[k].leave :
    mem[space[kcbs[k].root][p]] = Piece("result", kcbs[k].binary)
============================================================================
