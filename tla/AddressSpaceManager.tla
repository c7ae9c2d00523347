------------------------ MODULE AddressSpaceManager ------------------------
(***************************************************************************)
(* The host side page tables of mm/address_space_manager.hpp: SV32 tables  *)
(* of two levels kept in a scratchpad that is indexed by PHYSICAL address, *)
(* in frames that come from one page allocator shared by all kernels.      *)
(* Several host threads call the manager at once.  The scratchpad mutex is *)
(* held for a whole map_addr_inner and for each single read_atomic or      *)
(* write_atomic; the allocator's mutex for each atomic_allocate and        *)
(* atomic_release only, so each of those is one step here.                 *)
(*                                                                         *)
(* Addresses are page numbers: va / PAGE_SIZE and pa / PAGE_SIZE.  A page  *)
(* table entry is the page number it points to, or Unmapped when its V bit *)
(* is clear.  Entries of the top level are always made without R, W, X     *)
(* (pointers) and those of the lower level always with R (leaves), so the  *)
(* level stands for pte_is_leaf.                                           *)
(***************************************************************************)
EXTENDS Integers, FiniteSets

CONSTANTS
  Thread,      (* host threads that call the manager                       *)
  NoThread,    (* nobody holds the scratchpad mutex                        *)
  Fanout,      (* entries per page table node: PAGE_SIZE / PTE_SIZE        *)
  PageSize,    (* PAGE_SIZE, the unit of the hole addresses                *)
  BaseFrame,   (* ALLOC_BASE_ADDR / PAGE_SIZE                              *)
  LastFrame,   (* last frame below GLOBAL_MEM_SIZE                         *)
  Holes,       (* [addr, size] regions given to HoleList.add_hole          *)
  UserVpns,    (* pages the clients map: segments, stacks, heap            *)
  Ops,         (* bound: which operations the clients call                 *)
  MaxPages,    (* bound: pages of one allocate_vm_pages call               *)
  MaxCalls     (* bound: calls made by all threads together                *)

Calling  == {"table", "pages", "identity", "translate", "ensure", "free"}
Frames   == BaseFrame .. LastFrame            \* what the allocator hands out
Pfn      == 0 .. Fanout * Fanout - 1          \* PA and VA are both 32 bits wide
Vpn      == Pfn
Index    == 0 .. Fanout - 1
Unmapped == -1

ASSUME ConstAssumption ==
  /\ Fanout \in Nat \ {0}
  /\ PageSize \in Nat \ {0}
  /\ BaseFrame \in Nat \ {0}                  \* PA 0 is the "no page" result
  /\ LastFrame \in BaseFrame .. Fanout * Fanout - 1
  /\ Holes \subseteq [addr : Nat, size : Nat \ {0}]
  /\ UserVpns \subseteq Vpn
  /\ Ops \subseteq Calling
  /\ MaxPages \in Nat
  /\ MaxCalls \in Nat
  /\ NoThread \notin Thread

VARIABLES
  used,    (* frames the page allocator has handed out                     *)
  mem,     (* scratchpad: contents of each frame read as page table node   *)
  roots,   (* page tables handed to the clients and not freed yet          *)
  lock,    (* holder of the scratchpad mutex                               *)
  pc,      (* what each thread does next                                   *)
  job,     (* the call each thread is executing, with its loop variables   *)
  frame,   (* pa: frame taken by allocate_one_vm_page, or walk result      *)
  again,   (* allocate_one_page is at its second attempt                   *)
  todo,    (* page table walk and recursive free: what is left             *)
  owner,   (* history: what each frame is used for                         *)
  calls    (* number of calls made, bounded by MaxCalls                    *)

shared == <<used, mem, roots, lock, owner>>
locals == <<job, frame, again, todo>>
vars   == <<shared, pc, locals, calls>>

NoJob  == [op |-> "none", root |-> 0, vpn |-> 0, left |-> 0, was |-> Unmapped]
NoTodo == [nodes |-> {}, node |-> 0, leaves |-> {}]

Allocating == {"table", "leaf", "node"}
InTransaction == {"node", "install"}

(***************************************************************************)
(* History of a frame: a kind, and the thread or the place in a table.     *)
(***************************************************************************)
Own(kind, x, y)  == <<kind, x, y>>
Kinds == {"free", "skipped", "leaked", "root", "held", "node", "leaf"}

Free       == Own("free", 0, 0)
Skipped    == Own("skipped", 0, 0)      \* in a hole, left with the allocator
Leaked     == Own("leaked", 0, 0)       \* given up by a call that threw
Root       == Own("root", 0, 0)
Held(t)    == Own("held", t, 0)
Node(r, i) == Own("node", r, i)
Leaf(r, v) == Own("leaf", r, v)

Init ==
  /\ used  = {}
  /\ mem   = [f \in Frames |-> [i \in Index |-> Unmapped]]
  /\ roots = {}
  /\ lock  = NoThread
  /\ pc    = [t \in Thread |-> "idle"]
  /\ job   = [t \in Thread |-> NoJob]
  /\ frame = [t \in Thread |-> 0]
  /\ again = [t \in Thread |-> FALSE]
  /\ todo  = [t \in Thread |-> NoTodo]
  /\ owner = [f \in Frames |-> Free]
  /\ calls = 0

----------------------------------------------------------------------------
(* Helpers.                                                                *)

\* page_allocator_, shared by all tables
Pool == INSTANCE FrameAllocator WITH Frame <- Frames, taken <- used

\* HoleList::addr_in_hole of a page address; the upper bound is inclusive.
InHole(f) ==
  \E h \in Holes : /\ f * PageSize >= h.addr
                   /\ f * PageSize <= h.addr + h.size

\* Identity mappings are made over the holes only (IO pages, local memory).
Reserved == {f \in Pfn : f \notin Frames \/ InHole(f)}

\* va_vpn(va, 1) and va_vpn(va, 0)
Hi(v) == v \div Fanout
Lo(v) == v % Fanout

\* Mutant: the holes are not looked at.
TakeFrameAnywhere(t, f) == Pool!Take(f)

\* allocate_one_page returns f: only its first attempt looks at the holes.
TakeFrame(t, f) == Pool!Take(f) /\ (InHole(f) => again[t])

\* Mutant: make_pte forgets the shift from an address to a page number.
LinkedUnshifted(r, i, n) ==
  [mem EXCEPT ![n] = [j \in Index |-> Unmapped], ![r] = [@ EXCEPT ![i] = n * PageSize]]

\* Mutant: the new node keeps what the page held before.
LinkedUnzeroed(r, i, n) == [mem EXCEPT ![r] = [@ EXCEPT ![i] = n]]

\* make_pte(new_pa, V) written at the top level, over a zeroed new node
Linked(r, i, n) ==
  [mem EXCEPT ![n] = [j \in Index |-> Unmapped], ![r] = [@ EXCEPT ![i] = n]]

\* page_table_walk on the whole table at once
Translation(r, v) ==
  IF mem[r][Hi(v)] = Unmapped THEN Unmapped ELSE mem[mem[r][Hi(v)]][Lo(v)]

Mapped(entries) == {entries[i] : i \in Index} \ {Unmapped}

Busy(r) == \E t \in Thread : job[t].root = r

Goto(t, p) == pc' = [pc EXCEPT ![t] = p]

\* The call of t returns or throws: its locals go out of scope.
Return(t) ==
  /\ Goto(t, "idle")
  /\ job'   = [job EXCEPT ![t] = NoJob]
  /\ frame' = [frame EXCEPT ![t] = 0]
  /\ again' = [again EXCEPT ![t] = FALSE]
  /\ todo'  = [todo EXCEPT ![t] = NoTodo]

----------------------------------------------------------------------------
(* Calls.  A client uses a table only between allocate_page_table and      *)
(* free_page_table, and frees it when no other call on it is running.      *)

Call(t, op, r, v, n, was, p) ==
  /\ pc[t] = "idle" /\ calls < MaxCalls /\ op \in Ops
  /\ calls' = calls + 1
  /\ job' = [job EXCEPT ![t] = [op |-> op, root |-> r, vpn |-> v, left |-> n, was |-> was]]
  /\ Goto(t, p)
  /\ UNCHANGED <<used, mem, lock, owner, frame, again, todo>>

AllocatePageTable(t) ==
  Call(t, "table", 0, 0, 0, Unmapped, "table") /\ UNCHANGED roots

AllocateVmPages(t, r, v, n) ==
  Call(t, "pages", r, v, n, Unmapped, "leaf") /\ UNCHANGED roots

UnsafeMapIdentity(t, r, v, n) ==
  Call(t, "identity", r, v, n, Unmapped, "map") /\ UNCHANGED roots

Translate(t, r, v) ==
  Call(t, "translate", r, v, 1, Translation(r, v), "walk") /\ UNCHANGED roots

TranslateOrElseAllocatePage(t, r, v) ==
  Call(t, "ensure", r, v, 1, Translation(r, v), "walk") /\ UNCHANGED roots

FreePageTable(t, r) ==
  /\ ~Busy(r)
  /\ Call(t, "free", r, 0, 0, Unmapped, "free")
  /\ roots' = roots \ {r}

Run(v, n) == v .. v + n - 1

NewCall(t) ==
  \/ AllocatePageTable(t)
  \/ \E r \in roots :
       \/ \E v \in UserVpns, n \in 1 .. MaxPages :
            Run(v, n) \subseteq UserVpns /\ AllocateVmPages(t, r, v, n)
       \/ \E v \in Reserved, n \in 1 .. MaxPages :
            Run(v, n) \subseteq Reserved /\ UnsafeMapIdentity(t, r, v, n)
       \/ \E v \in UserVpns : Translate(t, r, v)
       \/ \E v \in UserVpns : TranslateOrElseAllocatePage(t, r, v)
       \/ FreePageTable(t, r)

----------------------------------------------------------------------------
(* allocate_one_page, called by allocate_page_table ("table"), by          *)
(* allocate_one_vm_page ("leaf") and, inside the transaction, by           *)
(* map_addr_inner ("node").                                                *)

\* The first attempt fell into a hole: the frame stays with the allocator.
SkipHole(t) ==
  /\ pc[t] \in Allocating /\ ~again[t]
  /\ \E f \in Frames :
       /\ Pool!Take(f) /\ InHole(f)
       /\ owner' = [owner EXCEPT ![f] = Skipped]
  /\ again' = [again EXCEPT ![t] = TRUE]
  /\ UNCHANGED <<mem, roots, lock, pc, job, frame, todo, calls>>

\* allocate_page_table and allocate_one_vm_page got their page.
TakePage(t) ==
  /\ pc[t] \in {"table", "leaf"}
  /\ \E f \in Frames :
       /\ TakeFrame(t, f)
       /\ frame' = [frame EXCEPT ![t] = f]
       /\ owner' = [owner EXCEPT ![f] = Held(t)]
  /\ again' = [again EXCEPT ![t] = FALSE]
  /\ Goto(t, IF pc[t] = "table" THEN "zero" ELSE "map")
  /\ UNCHANGED <<mem, roots, lock, job, todo, calls>>

\* map_addr_inner got a page for a new node: zero it and link it.
TakeNode(t) ==
  /\ pc[t] = "node"
  /\ \E f \in Frames :
       /\ TakeFrame(t, f)
       /\ mem'   = Linked(job[t].root, Hi(job[t].vpn), f)
       /\ owner' = [owner EXCEPT ![f] = Node(job[t].root, Hi(job[t].vpn))]
  /\ again' = [again EXCEPT ![t] = FALSE]
  /\ Goto(t, "install")
  /\ UNCHANGED <<roots, lock, job, frame, todo, calls>>

\* A call that throws gives up the page it holds without releasing it.
Abandoned(t) ==
  [f \in Frames |-> IF owner[f] = Held(t) THEN Leaked ELSE owner[f]]

\* No page is left: nullopt for a table, an exception for the others.  The
\* transaction of map_addr_inner is ended first.
OutOfPages(t) ==
  /\ pc[t] \in Allocating
  /\ Frames \subseteq used
  /\ lock'  = IF pc[t] = "node" THEN NoThread ELSE lock
  /\ owner' = Abandoned(t)
  /\ Return(t)
  /\ UNCHANGED <<used, mem, roots, calls>>

\* Mutant: the new root keeps what the page held before.
ZeroTableForgotten(t) ==
  /\ pc[t] = "zero" /\ lock = NoThread
  /\ roots' = roots \cup {frame[t]}
  /\ owner' = [owner EXCEPT ![frame[t]] = Root]
  /\ Return(t)
  /\ UNCHANGED <<used, mem, lock, calls>>

\* write_atomic of zeros over the page, then the table goes to the client
ZeroTable(t) ==
  /\ pc[t] = "zero" /\ lock = NoThread
  /\ mem'   = [mem EXCEPT ![frame[t]] = [i \in Index |-> Unmapped]]
  /\ roots' = roots \cup {frame[t]}
  /\ owner' = [owner EXCEPT ![frame[t]] = Root]
  /\ Return(t)
  /\ UNCHANGED <<used, lock, calls>>

----------------------------------------------------------------------------
(* map_addr_inner                                                          *)

\* Mutant: no begin_transaction.
BeginMapUnlocked(t) ==
  /\ pc[t] = "map"
  /\ Goto(t, IF mem[job[t].root][Hi(job[t].vpn)] = Unmapped
             THEN "node" ELSE "install")
  /\ UNCHANGED <<shared, locals, calls>>

\* begin_transaction and the read of the top level entry
BeginMap(t) ==
  /\ pc[t] = "map" /\ lock = NoThread
  /\ lock' = t
  /\ Goto(t, IF mem[job[t].root][Hi(job[t].vpn)] = Unmapped
             THEN "node" ELSE "install")
  /\ UNCHANGED <<used, mem, roots, owner, locals, calls>>

LeafNode(t) == mem[job[t].root][Hi(job[t].vpn)]

\* Mutant: an entry that is in use is overwritten.
VacantAlways(t) == TRUE

\* !pte_valid of the leaf entry
Vacant(t) == mem[LeafNode(t)][Lo(job[t].vpn)] = Unmapped

\* pa of the mapping being made
Target(t) == IF job[t].op = "identity" THEN job[t].vpn ELSE frame[t]

\* Mutant: the error path leaves the transaction open.
AlreadyMappedLocked(t) ==
  /\ pc[t] = "install" /\ ~Vacant(t)
  /\ owner' = Abandoned(t)
  /\ Return(t)
  /\ UNCHANGED <<used, mem, roots, lock, calls>>

\* The page is mapped already: end the transaction and throw.
AlreadyMapped(t) ==
  /\ pc[t] = "install" /\ ~Vacant(t)
  /\ lock'  = NoThread
  /\ owner' = Abandoned(t)
  /\ Return(t)
  /\ UNCHANGED <<used, mem, roots, calls>>

\* The frame t holds becomes the page it maps.
Installed(t) ==
  [f \in Frames |-> IF owner[f] = Held(t)
                    THEN Leaf(job[t].root, job[t].vpn) ELSE owner[f]]

\* Write the leaf entry and end the transaction; then return, or go on with
\* the next page of the loop, or with the second translate.
InstallLeaf(t) ==
  /\ pc[t] = "install" /\ Vacant(t)
  /\ mem'   = [mem EXCEPT ![LeafNode(t)] = [@ EXCEPT ![Lo(job[t].vpn)] = Target(t)]]
  /\ owner' = Installed(t)
  /\ lock'  = NoThread
  /\ \/ job[t].op # "ensure" /\ job[t].left = 1 /\ Return(t)
     \/ /\ job[t].op # "ensure" /\ job[t].left > 1
        /\ job'   = [job EXCEPT ![t].vpn = @ + 1, ![t].left = @ - 1]
        /\ frame' = [frame EXCEPT ![t] = 0]
        /\ Goto(t, IF job[t].op = "identity" THEN "map" ELSE "leaf")
        /\ UNCHANGED <<again, todo>>
     \/ /\ job[t].op = "ensure"
        /\ frame' = [frame EXCEPT ![t] = 0]
        /\ job'   = [job EXCEPT ![t].was = Target(t)]
        /\ Goto(t, "walk")
        /\ UNCHANGED <<again, todo>>
  /\ UNCHANGED <<used, roots, calls>>

----------------------------------------------------------------------------
(* page_table_walk: two reads, each under the mutex, not one transaction.  *)

\* The walk faults: translate_or_else_allocate_page maps the page, once.
Fault(t) ==
  IF job[t].op = "ensure" /\ job[t].left = 1
  THEN /\ Goto(t, "leaf")
       /\ job'   = [job EXCEPT ![t].left = 0]
       /\ UNCHANGED frame
  ELSE /\ Goto(t, "result")
       /\ frame' = [frame EXCEPT ![t] = Unmapped]
       /\ UNCHANGED job

WalkTop(t) ==
  /\ pc[t] = "walk" /\ lock = NoThread
  /\ \/ /\ LeafNode(t) = Unmapped
        /\ Fault(t)
        /\ UNCHANGED todo
     \/ /\ LeafNode(t) # Unmapped
        /\ todo' = [todo EXCEPT ![t].node = LeafNode(t)]
        /\ Goto(t, "walk0")
        /\ UNCHANGED <<job, frame>>
  /\ UNCHANGED <<shared, again, calls>>

WalkLeaf(t) ==
  /\ pc[t] = "walk0" /\ lock = NoThread
  /\ LET pte == mem[todo[t].node][Lo(job[t].vpn)] IN
       \/ pte = Unmapped /\ Fault(t)
       \/ /\ pte # Unmapped
          /\ frame' = [frame EXCEPT ![t] = pte]
          /\ Goto(t, "result")
          /\ UNCHANGED job
  /\ todo' = [todo EXCEPT ![t].node = 0]
  /\ UNCHANGED <<shared, again, calls>>

WalkReturns(t) ==
  /\ pc[t] = "result"
  /\ Return(t)
  /\ UNCHANGED <<shared, calls>>

----------------------------------------------------------------------------
(* free_page_table_inner: read a node, handle its entries, release it.     *)
(* The entries are taken in any order; the code goes up the indices.       *)

\* release_one_page: pages in a hole are not given back, and the allocator
\* ignores a page that it did not hand out (identity mapped below the base).
Released(f) == IF InHole(f) THEN used ELSE used \ {f}

Release(f) ==
  /\ used'  = Released(f)
  /\ owner' = [g \in Frames |-> IF g = f /\ g \notin Released(f) THEN Free ELSE owner[g]]

ReadTop(t) ==
  /\ pc[t] = "free" /\ lock = NoThread
  /\ todo' = [todo EXCEPT ![t].nodes = Mapped(mem[job[t].root])]
  /\ Goto(t, "free0")
  /\ UNCHANGED <<shared, job, frame, again, calls>>

\* Mutant: a node is visited again after it was released.
ReadNodeTwice(t) ==
  /\ pc[t] = "free0" /\ lock = NoThread
  /\ todo[t].node = 0
  /\ \E n \in todo[t].nodes :
       todo' = [todo EXCEPT ![t].node = n, ![t].leaves = Mapped(mem[n])]
  /\ UNCHANGED <<shared, pc, job, frame, again, calls>>

ReadNode(t) ==
  /\ pc[t] = "free0" /\ lock = NoThread
  /\ todo[t].node = 0
  /\ \E n \in todo[t].nodes :
       todo' = [todo EXCEPT ![t] = [nodes  |-> @.nodes \ {n}, node |-> n,
                                    leaves |-> Mapped(mem[n])]]
  /\ UNCHANGED <<shared, pc, job, frame, again, calls>>

\* Mutant: a page may be released more than once.
ReleaseLeafTwice(t) ==
  /\ pc[t] = "free0"
  /\ \E f \in todo[t].leaves :
       /\ Release(f)
       /\ todo' \in {todo, [todo EXCEPT ![t].leaves = @ \ {f}]}
  /\ UNCHANGED <<mem, roots, lock, pc, job, frame, again, calls>>

ReleaseLeaf(t) ==
  /\ pc[t] = "free0"
  /\ \E f \in todo[t].leaves :
       /\ Release(f)
       /\ todo' = [todo EXCEPT ![t].leaves = @ \ {f}]
  /\ UNCHANGED <<mem, roots, lock, pc, job, frame, again, calls>>

\* Mutant: only the leaves are given back.
ReleaseNodeForgotten(t) ==
  /\ pc[t] = "free0" /\ todo[t].node # 0 /\ todo[t].leaves = {}
  /\ todo' = [todo EXCEPT ![t].node = 0]
  /\ UNCHANGED <<shared, pc, job, frame, again, calls>>

ReleaseNode(t) ==
  /\ pc[t] = "free0" /\ todo[t].node # 0 /\ todo[t].leaves = {}
  /\ Release(todo[t].node)
  /\ todo' = [todo EXCEPT ![t].node = 0]
  /\ UNCHANGED <<mem, roots, lock, pc, job, frame, again, calls>>

ReleaseTop(t) ==
  /\ pc[t] = "free0" /\ todo[t] = NoTodo
  /\ Release(job[t].root)
  /\ Return(t)
  /\ UNCHANGED <<mem, roots, lock, calls>>

----------------------------------------------------------------------------
Step(t) ==
  \/ SkipHole(t) \/ TakePage(t) \/ TakeNode(t) \/ OutOfPages(t) \/ ZeroTable(t)
  \/ BeginMap(t) \/ AlreadyMapped(t) \/ InstallLeaf(t)
  \/ WalkTop(t) \/ WalkLeaf(t) \/ WalkReturns(t)
  \/ ReadTop(t) \/ ReadNode(t) \/ ReleaseLeaf(t) \/ ReleaseNode(t) \/ ReleaseTop(t)

\* All the calls of this run have returned.
Quiet ==
  /\ calls = MaxCalls
  /\ \A t \in Thread : pc[t] = "idle"
  /\ UNCHANGED vars

Next == Quiet \/ \E t \in Thread : NewCall(t) \/ Step(t)

\* The operating system runs every thread that can run.
Fairness == \A t \in Thread : WF_vars(Step(t))

Spec     == Init /\ [][Next]_vars
FairSpec == Spec /\ Fairness
----------------------------------------------------------------------------
(* Properties.                                                             *)

(***************************************************************************)
(* Types of the variables; a node entry is always a frame of the allocator *)
(* and a leaf entry any page of the physical address space.                *)
(***************************************************************************)
Pcs == {"idle", "table", "zero", "leaf", "map", "node", "install",
        "walk", "walk0", "result", "free", "free0"}

Job == [op : Calling \cup {"none"}, root : Frames \cup {0}, vpn : Vpn,
        left : 0 .. MaxPages + 1, was : Pfn \cup {Unmapped}]

Todo == [nodes : SUBSET Frames, node : Frames \cup {0}, leaves : SUBSET (Pfn \cup {Unmapped})]

TypeOK ==
  /\ used \subseteq Frames
  /\ mem \in [Frames -> [Index -> Pfn \cup {Unmapped}]]
  /\ roots \subseteq Frames
  /\ lock \in Thread \cup {NoThread}
  /\ pc \in [Thread -> Pcs]
  /\ job \in [Thread -> Job]
  /\ frame \in [Thread -> Pfn \cup {Unmapped}]
  /\ again \in [Thread -> BOOLEAN]
  /\ todo \in [Thread -> Todo]
  /\ owner \in [Frames -> Kinds \X (Thread \cup Nat) \X Nat]
  /\ calls \in 0 .. MaxCalls

TableFrames(r) == {r} \cup Mapped(mem[r])

(***************************************************************************)
(* The frames that hold the page table of one kernel hold nothing else: no *)
(* node of another table, no second node of the same table, and no page    *)
(* that any kernel can reach through its mappings.                         *)
(***************************************************************************)
TablesPrivate ==
  \A r1, r2 \in roots :
    /\ r1 # r2 => TableFrames(r1) \cap TableFrames(r2) = {}
    /\ \A i, j \in Index : mem[r1][i] = mem[r1][j] => i = j \/ mem[r1][i] = Unmapped
    /\ \A v \in Vpn : Translation(r1, v) \notin TableFrames(r2)

(***************************************************************************)
(* A frame that allocate_one_vm_page mapped is mapped once: at one page of *)
(* one kernel.  Only the reserved regions are shared, by identity mapping. *)
(***************************************************************************)
Backed(r) == {v \in Vpn : Translation(r, v) \notin Reserved \cup {Unmapped}}

PagesPrivate ==
  \A r1, r2 \in roots : \A v1 \in Backed(r1), v2 \in Backed(r2) :
    Translation(r1, v1) = Translation(r2, v2) => r1 = r2 /\ v1 = v2

(***************************************************************************)
(* What a live table reaches is never on the free list of the allocator,   *)
(* even while other tables are being freed.                                *)
(***************************************************************************)
ReachableInUse ==
  \A r \in roots :
    /\ TableFrames(r) \subseteq used
    /\ \A v \in Vpn : Translation(r, v) \in used \cup Reserved \cup {Unmapped}

(***************************************************************************)
(* free_page_table_inner gives back each page once, and only pages that no *)
(* live table reaches: what it has still to release is in use, belongs to  *)
(* no other running call, and is out of reach.                             *)
(***************************************************************************)
ToRelease(t) ==
  IF pc[t] # "free0" THEN {}
  ELSE (todo[t].nodes \cup todo[t].leaves \cup {todo[t].node, job[t].root})
       \cap (Frames \ Reserved)

FreeReleasesOwnPages ==
  \A t \in Thread :
    /\ ToRelease(t) \subseteq used
    /\ \A u \in Thread \ {t} : ToRelease(t) \cap ToRelease(u) = {}
    /\ \A r \in roots : /\ TableFrames(r) \cap ToRelease(t) = {}
                        /\ \A v \in Vpn : Translation(r, v) \notin ToRelease(t)

(***************************************************************************)
(* When every call has returned normally and every table was freed, the    *)
(* allocator has all its pages back except those it skipped in a hole.     *)
(* (A call that throws after it took a page loses that page.)              *)
(***************************************************************************)
Idle      == \A t \in Thread : pc[t] = "idle"
SomeThrew == \E f \in Frames : owner[f] = Leaked

NoPageLost ==
  Idle /\ roots = {} /\ ~SomeThrew => \A f \in used : InHole(f)

(***************************************************************************)
(* translate, although its two reads are not one transaction, finds every  *)
(* mapping made before it was called, and what it returns is what the      *)
(* table holds; so does translate_or_else_allocate_page, which never fails *)
(* on the page it has just mapped.                                         *)
(***************************************************************************)
WalkIsCurrent ==
  \A t \in Thread : pc[t] = "result" =>
    /\ job[t].was # Unmapped => frame[t] = job[t].was
    /\ frame[t] # Unmapped => frame[t] = Translation(job[t].root, job[t].vpn)
    /\ job[t].op = "ensure" => frame[t] # Unmapped

(***************************************************************************)
(* No page of a hole (IO registers, local memory) becomes a page table     *)
(* node or backs a page of a kernel other than by identity mapping: "ignore*)
(* allocation inside holes".                                               *)
(***************************************************************************)
HolesStayReserved ==
  \A r \in roots :
    /\ \A f \in TableFrames(r) : ~InHole(f)
    /\ \A v \in Vpn : LET f == Translation(r, v) IN
         f # Unmapped /\ InHole(f) => f = v

(***************************************************************************)
(* The tables, the locks and the shared allocator together implement one   *)
(* private virtual address space per kernel (VirtualSpaces): a table is an *)
(* empty space from the write of its zeroed root until it is freed, and a  *)
(* page is mapped by the write of its leaf entry.  No other step, of any   *)
(* kernel, changes what a kernel sees.                                     *)
(***************************************************************************)
Visible(r) == {v \in Vpn : Translation(r, v) # Unmapped}

VS == INSTANCE VirtualSpaces WITH
        Id <- Frames, Page <- Vpn, Frame <- Pfn, Fixed <- Reserved,
        space <- [r \in roots |-> [v \in Visible(r) |-> Translation(r, v)]]

ImplementsVirtualSpaces == VS!Spec

(***************************************************************************)
(* Whatever finite set of calls is made, each of them returns: no path out *)
(* of map_addr_inner keeps the scratchpad mutex.                           *)
(***************************************************************************)
CallsReturn == \A t \in Thread : pc[t] # "idle" ~> pc[t] = "idle"
============================================================================
