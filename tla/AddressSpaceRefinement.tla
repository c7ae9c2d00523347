----------------------- MODULE AddressSpaceRefinement -----------------------
(***************************************************************************)
(* What the clients of AddressSpaceManager see.  A mapping, once made,     *)
(* stays until its table is freed; from that follow the refinement of      *)
(* VirtualSpaces and what the two reads of a page table walk find.  And    *)
(* what the page allocator sees: every page comes back.                    *)
(***************************************************************************)
EXTENDS AddressSpaceManagerProofs

----------------------------------------------------------------------------
(* What each step does to the mappings of the live tables.                 *)

\* The new node is empty, so the table maps what it mapped before.
LEMMA TakeNodeView ==
  ASSUME IInv, NEW t \in Thread, TakeNode(t), NEW r \in roots, NEW v \in Vpn
  PROVE  Translation(r, v)' = Translation(r, v)
<1>1. PICK s \in roots, h \in Index : s = job[t].root /\ h = Hi(job[t].vpn)
  BY Typed, IndexOfVpn DEF TakeNode, IInv, ThreadOK, JobPages, Using
<1>2. PICK f \in Frames : f \notin used /\ mem' = Linked(s, h, f)
  BY <1>1 DEF TakeNode, TakeFrame, Pool!Take, Pool!Lowest
<1>3. /\ mem \in [Frames -> [Index -> Pfn \cup {Unmapped}]] /\ mem[s][h] = Unmapped
      /\ r \in Frames /\ s \in Frames /\ owner[r] = Root /\ owner[s] = Root
      /\ owner[f] = Free /\ TableOK(r)
  BY <1>1, <1>2 DEF TakeNode, IInv, TypeOK, UsedOwned, ThreadOK, Transaction, LeafNode
<1>4. f # r /\ f # s /\ Hi(v) \in Index /\ Lo(v) \in Index
  BY <1>3, Owners, IndexOfVpn
<1>5. /\ mem'[f][Lo(v)] = Unmapped
      /\ mem'[r][Hi(v)] = IF r = s /\ Hi(v) = h THEN f ELSE mem[r][Hi(v)]
      /\ \A g \in Frames : g # f /\ g # s => mem'[g] = mem[g]
  BY <1>2, <1>3, <1>4 DEF Linked
<1>6. CASE r = s /\ Hi(v) = h
  BY <1>3, <1>4, <1>5, <1>6, FramesTyped DEF Translation
<1>7. CASE ~(r = s /\ Hi(v) = h) /\ mem[r][Hi(v)] = Unmapped
  BY <1>5, <1>7 DEF Translation
<1>8. CASE ~(r = s /\ Hi(v) = h) /\ mem[r][Hi(v)] # Unmapped
  <2>1. mem[r][Hi(v)] \in Frames /\ owner[mem[r][Hi(v)]] = Node(r, Hi(v))
    BY <1>3, <1>8 DEF TableOK, NodeOK
  <2>2. mem[r][Hi(v)] # f /\ mem[r][Hi(v)] # s
    BY <1>3, <2>1, Owners
  <2> QED BY <1>5, <1>8, <2>1, <2>2 DEF Translation
<1> QED BY <1>6, <1>7, <1>8

\* One page that was not mapped is mapped now, and no other entry changes.
LEMMA InstallLeafView ==
  ASSUME IInv, NEW t \in Thread, InstallLeaf(t), NEW s, s = job[t].root, NEW w, w = job[t].vpn
  PROVE  /\ s \in roots /\ w \in Vpn /\ Translation(s, w) = Unmapped
         /\ Translation(s, w)' = Target(t)
         /\ IF Target(t) \in Reserved THEN Target(t) = w
            ELSE Target(t) \in Frames /\ owner[Target(t)] = Held(t)
         /\ \A r \in roots, v \in Vpn :
              r # s \/ v # w => Translation(r, v)' = Translation(r, v)
<1>1. s \in roots /\ w \in Vpn
  BY Typed DEF InstallLeaf, IInv, ThreadOK, JobPages, Using
<1>2. PICK n \in Frames : n = LeafNode(t) /\ owner[n] = Node(s, Hi(w))
  BY <1>1, LeafNodeOK DEF InstallLeaf, Using, IInv, ThreadOK, Transaction
<1>3. PICK p : p = Target(t)
  OBVIOUS
<1>4. /\ mem \in [Frames -> [Index -> Pfn \cup {Unmapped}]] /\ s \in Frames
      /\ mem[s][Hi(w)] = n /\ mem[n][Lo(w)] = Unmapped
      /\ mem' = [mem EXCEPT ![n] = [@ EXCEPT ![Lo(w)] = p]]
      /\ Hi(w) \in Index /\ Lo(w) \in Index
  BY <1>1, <1>2, <1>3, IndexOfVpn DEF InstallLeaf, Vacant, LeafNode, IInv, TypeOK
<1>5. /\ mem'[n][Lo(w)] = p
      /\ \A g \in Frames, i \in Index : g # n \/ i # Lo(w) => mem'[g][i] = mem[g][i]
  BY <1>4
<1>6. \A r \in roots : r \in Frames /\ r # n /\ owner[r] = Root /\ TableOK(r)
  BY <1>2, Owners DEF IInv, TypeOK
<1>7. mem'[s][Hi(w)] = n /\ n # Unmapped
  BY <1>1, <1>4, <1>5, <1>6, FramesTyped
<1>8. Translation(s, w) = Unmapped /\ Translation(s, w)' = p
  BY <1>4, <1>5, <1>7 DEF Translation
<1>9. IF p \in Reserved THEN p = w ELSE p \in Frames /\ owner[p] = Held(t)
  <2>1. CASE job[t].op = "identity"
    <3>1. job[t].left \in Nat /\ job[t].left > 0
      BY <2>1, Typed DEF InstallLeaf, IInv, ThreadOK, JobPages, Using
    <3>2. w + 0 \in Reserved /\ w + 0 = w
      BY <1>1, <2>1, <3>1 DEF InstallLeaf, IInv, ThreadOK, JobPages, Using, Vpn, Pfn
    <3> QED BY <1>3, <2>1, <3>2 DEF Target
  <2>2. CASE job[t].op # "identity"
    <3>1. p \in Frames /\ owner[p] = Held(t)
      BY <1>3, <2>2 DEF InstallLeaf, Target, IInv, ThreadOK, HeldOwned, Holding
    <3>2. ~InHole(p)
      BY <3>1, Owners DEF IInv, HolesUnused
    <3> QED BY <3>1, <3>2 DEF Reserved
  <2> QED BY <2>1, <2>2
<1>10. ASSUME NEW r \in roots, NEW v \in Vpn, r # s \/ v # w
       PROVE  Translation(r, v)' = Translation(r, v)
  <2>1. Hi(v) \in Index /\ Lo(v) \in Index /\ mem'[r][Hi(v)] = mem[r][Hi(v)]
    BY <1>5, <1>6, IndexOfVpn
  <2>2. CASE mem[r][Hi(v)] = Unmapped
    BY <2>1, <2>2 DEF Translation
  <2>3. CASE mem[r][Hi(v)] # Unmapped
    <3>1. mem[r][Hi(v)] \in Frames /\ owner[mem[r][Hi(v)]] = Node(r, Hi(v))
      BY <1>6, <2>3 DEF TableOK, NodeOK
    <3>2. mem[r][Hi(v)] # n \/ Lo(v) # Lo(w)
      BY <1>2, <1>10, <1>1, <3>1, Owners, VpnByIndex
    <3> QED BY <1>5, <2>1, <2>3, <3>1, <3>2 DEF Translation
  <2> QED BY <2>2, <2>3
<1> QED BY <1>1, <1>3, <1>8, <1>9, <1>10

\* A new table maps nothing, and its name is new.
LEMMA ZeroTableView ==
  ASSUME IInv, NEW t \in Thread, ZeroTable(t), NEW g, g = frame[t]
  PROVE  /\ g \in Frames \ roots /\ roots' = roots \cup {g} /\ owner[g] = Held(t)
         /\ \A v \in Vpn : Translation(g, v)' = Unmapped
         /\ \A r \in roots, v \in Vpn : Translation(r, v)' = Translation(r, v)
<1>1. g \in Frames /\ owner[g] = Held(t)
  BY DEF ZeroTable, IInv, ThreadOK, HeldOwned, Holding
<1>2. /\ mem \in [Frames -> [Index -> Pfn \cup {Unmapped}]]
      /\ mem' = [mem EXCEPT ![g] = [i \in Index |-> Unmapped]]
      /\ roots' = roots \cup {g}
  BY <1>1 DEF ZeroTable, IInv, TypeOK
<1>3. /\ \A i \in Index : mem'[g][i] = Unmapped
      /\ \A f \in Frames : f # g => mem'[f] = mem[f]
  BY <1>1, <1>2
<1>4. \A r \in roots : r \in Frames /\ r # g /\ TableOK(r)
  BY <1>1, Owners DEF IInv, TypeOK
<1>5. ASSUME NEW r \in roots, NEW v \in Vpn
      PROVE  Translation(r, v)' = Translation(r, v)
  <2>1. mem'[r] = mem[r]
    BY <1>3, <1>4
  <2>2. mem[r][Hi(v)] # Unmapped => mem[r][Hi(v)] \in Frames /\ mem[r][Hi(v)] # g
    BY <1>1, <1>4, Owners DEF TableOK, NodeOK
  <2> QED BY <1>3, <2>1, <2>2 DEF Translation
<1>6. \A v \in Vpn : Translation(g, v)' = Unmapped
  BY <1>3, IndexOfVpn DEF Translation
<1> QED BY <1>1, <1>2, <1>4, <1>5, <1>6

\* The other steps write to no table.
Quiescent(t) ==
  \/ \E op, r, v, n, was, p : Call(t, op, r, v, n, was, p) /\ UNCHANGED roots
  \/ SkipHole(t) \/ TakePage(t) \/ OutOfPages(t) \/ BeginMap(t) \/ AlreadyMapped(t)
  \/ WalkTop(t) \/ WalkLeaf(t) \/ WalkReturns(t)
  \/ ReadTop(t) \/ ReadNode(t) \/ ReleaseLeaf(t) \/ ReleaseNode(t) \/ ReleaseTop(t)

LEMMA QuiescentView ==
  ASSUME NEW t \in Thread, Quiescent(t)
  PROVE  UNCHANGED <<mem, roots>>
BY DEF Quiescent, Call, SkipHole, TakePage, OutOfPages, BeginMap, AlreadyMapped, WalkTop, WalkLeaf,
       WalkReturns, ReadTop, ReadNode, ReleaseLeaf, ReleaseNode, ReleaseTop, shared

LEMMA StepKinds ==
  ASSUME [Next]_vars
  PROVE  \/ UNCHANGED vars
         \/ \E t \in Thread : \/ TakeNode(t) \/ ZeroTable(t) \/ InstallLeaf(t) \/ Quiescent(t)
                              \/ \E r \in roots : FreePageTable(t, r)
<1>1. ASSUME NEW t \in Thread, NewCall(t)
      PROVE  Quiescent(t) \/ \E r \in roots : FreePageTable(t, r)
  BY <1>1 DEF NewCall, AllocatePageTable, AllocateVmPages, UnsafeMapIdentity, Translate,
              TranslateOrElseAllocatePage, Quiescent
<1>2. ASSUME NEW t \in Thread, Step(t)
      PROVE  TakeNode(t) \/ ZeroTable(t) \/ InstallLeaf(t) \/ Quiescent(t)
  BY <1>2 DEF Step, Quiescent
<1> QED BY <1>1, <1>2 DEF Next, Quiet

(***************************************************************************)
(* No step moves a page that a live table maps.                            *)
(***************************************************************************)
LEMMA MappingsStay ==
  ASSUME IInv, [Next]_vars, NEW r \in roots, NEW v \in Vpn, Translation(r, v) # Unmapped
  PROVE  Translation(r, v)' = Translation(r, v)
<1>1. CASE UNCHANGED mem
  BY <1>1 DEF Translation
<1>2. ASSUME NEW t \in Thread, TakeNode(t) PROVE Translation(r, v)' = Translation(r, v)
  BY <1>2, TakeNodeView
<1>3. ASSUME NEW t \in Thread, ZeroTable(t) PROVE Translation(r, v)' = Translation(r, v)
  BY <1>3, ZeroTableView
<1>4. ASSUME NEW t \in Thread, InstallLeaf(t) PROVE Translation(r, v)' = Translation(r, v)
  BY <1>4, InstallLeafView
<1>5. ASSUME NEW t \in Thread, NEW q \in roots, FreePageTable(t, q) PROVE UNCHANGED mem
  BY <1>5 DEF FreePageTable, Call
<1> QED BY <1>1, <1>2, <1>3, <1>4, <1>5, StepKinds, QuiescentView DEF vars, shared

----------------------------------------------------------------------------
(* The refinement of VirtualSpaces.                                        *)

Space == [r \in roots |-> [v \in Visible(r) |-> Translation(r, v)]]

LEMMA SpaceView ==
  /\ DOMAIN Space = roots
  /\ \A r \in roots : Space[r] = [v \in Visible(r) |-> Translation(r, v)]
BY DEF Space

\* The frames behind the mapped pages, and the names of the tables
LEMMA BackingView ==
  /\ VS!Live = roots
  /\ \A f \in VS!Backing : \E r \in roots : \E v \in Visible(r) : f = Translation(r, v)
<1>1. VS!Live = roots
  BY DEF VS!Live
<1>2. ASSUME NEW f \in VS!Backing
      PROVE  \E r \in roots : \E v \in Visible(r) : f = Translation(r, v)
  <2>1. PICK r \in roots : f \in {Space[r][p] : p \in DOMAIN Space[r]}
    BY <1>1, <1>2 DEF VS!Backing, Space
  <2>2. DOMAIN Space[r] = Visible(r) /\ \A v \in Visible(r) : Space[r][v] = Translation(r, v)
    BY SpaceView
  <2> QED BY <2>1, <2>2
<1> QED BY <1>1, <1>2

\* A frame that is held by a call backs no page and is no table.
LEMMA HeldIsFresh ==
  ASSUME IInv, NEW t \in Thread, NEW f \in Frames, owner[f] = Held(t)
  PROVE  f \notin VS!Live /\ f \notin VS!Backing
<1>1. f \notin roots /\ f \notin Reserved
  BY Owners DEF IInv, HolesUnused, Reserved
<1>2. ASSUME NEW r \in roots, NEW v \in Visible(r) PROVE f # Translation(r, v)
  <2>1. v \in Vpn /\ Translation(r, v) # Unmapped
    BY DEF Visible
  <2> QED BY <1>1, <2>1, TranslationOwned, Owners
<1> QED BY <1>1, <1>2, BackingView

\* Tables that map what they mapped before are the same spaces.
LEMMA SameView ==
  ASSUME NEW r, \A v \in Vpn : Translation(r, v)' = Translation(r, v)
  PROVE  /\ Visible(r)' = Visible(r)
         /\ [v \in Visible(r) |-> Translation(r, v)]' = [v \in Visible(r) |-> Translation(r, v)]
<1>1. Visible(r)' = Visible(r)
  BY DEF Visible
<1>2. \A v \in Visible(r) : Translation(r, v)' = Translation(r, v)
  BY DEF Visible
<1> QED BY <1>1, <1>2

LEMMA StutterMaps ==
  ASSUME UNCHANGED roots, \A r \in roots, v \in Vpn : Translation(r, v)' = Translation(r, v)
  PROVE  Space' = Space
<1>1. \A r \in roots : [v \in Visible(r) |-> Translation(r, v)]' = [v \in Visible(r) |-> Translation(r, v)]
  BY SameView
<1> QED BY <1>1 DEF Space

LEMMA ZeroTableMaps ==
  ASSUME IInv, NEW t \in Thread, ZeroTable(t)
  PROVE  \E k \in Frames : VS!Create(k)
<1>1. PICK g : g = frame[t]
  OBVIOUS
<1>2. /\ g \in Frames \ roots /\ roots' = roots \cup {g} /\ owner[g] = Held(t)
      /\ \A v \in Vpn : Translation(g, v)' = Unmapped
      /\ \A r \in roots, v \in Vpn : Translation(r, v)' = Translation(r, v)
  BY <1>1, ZeroTableView
<1>3. g \notin VS!Live \cup VS!Backing
  BY <1>2, HeldIsFresh
<1>4. [v \in Visible(g) |-> Translation(g, v)]' = [p \in {} |-> 0]
  <2>1. Visible(g)' = {}
    BY <1>2 DEF Visible
  <2> QED BY <2>1
<1>5. \A r \in roots : [v \in Visible(r) |-> Translation(r, v)]' = Space[r]
  BY <1>2, SameView, SpaceView
<1>6. Space' = [j \in VS!Live \cup {g} |-> IF j = g THEN [p \in {} |-> 0] ELSE Space[j]]
  BY <1>2, <1>4, <1>5, BackingView DEF Space
<1> QED BY <1>2, <1>3, <1>6 DEF VS!Create, Space

LEMMA FreePageTableMaps ==
  ASSUME IInv, NEW t \in Thread, NEW r \in roots, FreePageTable(t, r)
  PROVE  \E k \in Frames : VS!Destroy(k)
<1>1. r \in Frames /\ roots' = roots \ {r} /\ mem' = mem
  BY DEF FreePageTable, Call, IInv, TypeOK
<1>2. \A s \in roots : [v \in Visible(s) |-> Translation(s, v)]' = Space[s]
  <2>1. \A s \in roots, v \in Vpn : Translation(s, v)' = Translation(s, v)
    BY <1>1 DEF Translation
  <2> QED BY <2>1, SameView, SpaceView
<1>3. Space' = [j \in VS!Live \ {r} |-> Space[j]]
  BY <1>1, <1>2, BackingView DEF Space
<1> QED BY <1>1, <1>3, BackingView DEF VS!Destroy, Space

LEMMA InstallLeafMaps ==
  ASSUME IInv, NEW t \in Thread, InstallLeaf(t)
  PROVE  \E k \in Frames, p \in Vpn, f \in Pfn : VS!Map(k, p, f)
<1>1. PICK s, w, f : s = job[t].root /\ w = job[t].vpn /\ f = Target(t)
  OBVIOUS
<1>2. /\ s \in roots /\ w \in Vpn /\ Translation(s, w) = Unmapped
      /\ Translation(s, w)' = f
      /\ IF f \in Reserved THEN f = w ELSE f \in Frames /\ owner[f] = Held(t)
      /\ \A r \in roots, v \in Vpn : r # s \/ v # w => Translation(r, v)' = Translation(r, v)
  BY <1>1, InstallLeafView
<1>3. s \in Frames /\ roots' = roots /\ f \in Pfn
  BY <1>2, FramesTyped DEF InstallLeaf, IInv, TypeOK, Vpn
<1>4. IF f \in Reserved THEN f = w ELSE f \notin VS!Backing \cup VS!Live
  BY <1>2, HeldIsFresh
<1>5. w \notin DOMAIN Space[s]
  BY <1>2, SpaceView DEF Visible
<1>6. Visible(s)' = Visible(s) \cup {w}
  BY <1>2, <1>3, FramesTyped DEF Visible
<1>7. [v \in Visible(s) |-> Translation(s, v)]'
        = [q \in DOMAIN Space[s] \cup {w} |-> IF q = w THEN f ELSE Space[s][q]]
  <2>1. DOMAIN Space[s] = Visible(s) /\ \A q \in Visible(s) : Space[s][q] = Translation(s, q)
    BY <1>2, SpaceView
  <2>2. \A q \in Visible(s) \cup {w} :
          Translation(s, q)' = IF q = w THEN f ELSE Translation(s, q)
    BY <1>2 DEF Visible
  <2>3. \A q \in Visible(s) \cup {w} :
          Translation(s, q)' = IF q = w THEN f ELSE Space[s][q]
    BY <2>1, <2>2
  <2> QED BY <1>6, <2>1, <2>3
<1>8. \A r \in roots : r # s => [v \in Visible(r) |-> Translation(r, v)]' = Space[r]
  BY <1>2, SameView, SpaceView
<1>9. Space' = [Space EXCEPT ![s] = [q \in DOMAIN @ \cup {w} |-> IF q = w THEN f ELSE @[q]]]
  BY <1>3, <1>7, <1>8, SpaceView DEF Space
<1>10. VS!Map(s, w, f)
  <2>1. s \in VS!Live
    BY <1>2, BackingView
  <2>2. IF f \in Reserved THEN f = w ELSE f \notin VS!Backing \cup VS!Live
    BY <1>4
  <2> QED BY <1>5, <1>9, <2>1, <2>2 DEF VS!Map, Space
<1> QED BY <1>2, <1>3, <1>10

(***************************************************************************)
(* For any number of threads, frames, pages and calls, the page tables in  *)
(* their scratchpad, the two mutexes and the shared allocator implement    *)
(* one private virtual address space per kernel.                           *)
(***************************************************************************)
THEOREM Refinement ==
  ASSUME OneHoleFrame
  PROVE  Spec => ImplementsVirtualSpaces
<1>1. Init => VS!Init
  <2> SUFFICES ASSUME Init PROVE Space = [k \in {} |-> {}]
    BY DEF VS!Init, Space
  <2> QED BY DEF Init, Space
<1>2. ASSUME IInv, [Next]_vars PROVE VS!Next \/ Space' = Space
  <2>1. CASE UNCHANGED <<mem, roots>>
    BY <2>1, StutterMaps DEF Translation
  <2>2. ASSUME NEW t \in Thread, TakeNode(t) PROVE Space' = Space
    BY <1>2, <2>2, TakeNodeView, StutterMaps DEF TakeNode
  <2>3. ASSUME NEW t \in Thread, ZeroTable(t) PROVE VS!Next
    BY <1>2, <2>3, ZeroTableMaps DEF VS!Next
  <2>4. ASSUME NEW t \in Thread, InstallLeaf(t) PROVE VS!Next
    BY <1>2, <2>4, InstallLeafMaps DEF VS!Next
  <2>5. ASSUME NEW t \in Thread, NEW r \in roots, FreePageTable(t, r) PROVE VS!Next
    BY <1>2, <2>5, FreePageTableMaps DEF VS!Next
  <2> QED BY <1>2, <2>1, <2>2, <2>3, <2>4, <2>5, StepKinds, QuiescentView DEF vars, shared
<1>3. IInv /\ [Next]_vars => [VS!Next]_Space
  BY <1>2
<1> QED BY <1>1, <1>3, Invariance, PTL DEF Spec, ImplementsVirtualSpaces, VS!Spec, Space

----------------------------------------------------------------------------
(* The page table walk.                                                    *)

(***************************************************************************)
(* What a walk in progress may rely on: the page that was mapped when its  *)
(* call began is still mapped there, and a second walk of                  *)
(* translate_or_else_allocate_page has a page to find.                     *)
(***************************************************************************)
WalkOK(t) ==
  /\ pc[t] \in {"walk", "walk0"} =>
       /\ job[t].was # Unmapped => Translation(job[t].root, job[t].vpn) = job[t].was
       /\ job[t].op = "ensure" => job[t].left = 1 \/ job[t].was # Unmapped
  /\ pc[t] = "result" =>
       /\ job[t].was # Unmapped => frame[t] = job[t].was
       /\ frame[t] # Unmapped => frame[t] = Translation(job[t].root, job[t].vpn)
       /\ job[t].op = "ensure" => frame[t] # Unmapped

WalkInv == \A t \in Thread : WalkOK(t)

\* A step is a step of one thread.
LEMMA OneThreadSteps ==
  ASSUME TypeOK, NEW t \in Thread, NewCall(t) \/ Step(t), NEW u \in Thread \ {t}
  PROVE  Same(u)
<1>1. CASE NewCall(t)
  <2>1. ASSUME NEW op, NEW r, NEW v, NEW n, NEW was, NEW p, Call(t, op, r, v, n, was, p)
        PROVE  Same(u)
    BY <2>1 DEF Call, Goto, Same, TypeOK
  <2> QED BY <1>1, <2>1 DEF NewCall, AllocatePageTable, AllocateVmPages, UnsafeMapIdentity,
             Translate, TranslateOrElseAllocatePage, FreePageTable
<1>2. CASE Return(t)
  BY <1>2, Returned
<1>3. CASE SkipHole(t) \/ TakePage(t) \/ TakeNode(t) \/ BeginMap(t)
  BY <1>3 DEF SkipHole, TakePage, TakeNode, BeginMap, Goto, Same, TypeOK, locals
<1>4. CASE WalkTop(t) \/ WalkLeaf(t)
  BY <1>4 DEF WalkTop, WalkLeaf, Fault, Goto, Same, TypeOK
<1>5. CASE ReadTop(t) \/ ReadNode(t) \/ ReleaseLeaf(t) \/ ReleaseNode(t)
  BY <1>5 DEF ReadTop, ReadNode, ReleaseLeaf, ReleaseNode, Goto, Same, TypeOK
<1>6. CASE InstallLeaf(t) /\ ~Return(t)
  BY <1>6 DEF InstallLeaf, Goto, Same, TypeOK
<1>7. CASE OutOfPages(t) \/ ZeroTable(t) \/ AlreadyMapped(t) \/ WalkReturns(t) \/ ReleaseTop(t)
  BY <1>2, <1>7 DEF OutOfPages, ZeroTable, AlreadyMapped, WalkReturns, ReleaseTop
<1> QED BY <1>1, <1>2, <1>3, <1>4, <1>5, <1>6, <1>7 DEF Step

\* The walk of a thread is not disturbed by the steps of the others.
LEMMA OtherWalk ==
  ASSUME IInv, [Next]_vars, NEW u \in Thread, Same(u), WalkOK(u)
  PROVE  WalkOK(u)'
<1>0. PICK r, v : r = job[u].root /\ v = job[u].vpn
  OBVIOUS
<1>1. pc'[u] = pc[u] /\ job'[u] = job[u] /\ frame'[u] = frame[u]
  BY DEF Same
<1>2. pc[u] \in {"walk", "walk0", "result"} => r \in roots /\ v \in Vpn
  BY <1>0, Typed DEF IInv, ThreadOK, JobPages, Using
<1>3. pc[u] \in {"walk", "walk0", "result"} /\ Translation(r, v) # Unmapped
        => Translation(r, v)' = Translation(r, v)
  BY <1>2, MappingsStay
<1> QED BY <1>0, <1>1, <1>3 DEF WalkOK

\* A call begins; translate and its kin look at the page first.
LEMMA CallWalks ==
  ASSUME IInv, NEW t \in Thread, NewCall(t)
  PROVE  WalkOK(t)'
<1>1. ASSUME NEW op, NEW r, NEW v, NEW n, NEW was, NEW p, Call(t, op, r, v, n, was, p),
             p \notin {"walk", "walk0", "result"}
      PROVE  WalkOK(t)'
  BY <1>1 DEF IInv, TypeOK, Call, Goto, WalkOK
<1>2. ASSUME NEW op, NEW r \in roots, NEW v \in Vpn, Call(t, op, r, v, 1, Translation(r, v), "walk")
      PROVE  WalkOK(t)'
  <2>1. /\ pc'[t] = "walk" /\ mem' = mem
        /\ job'[t] = [op |-> op, root |-> r, vpn |-> v, left |-> 1, was |-> Translation(r, v)]
    BY <1>2 DEF IInv, TypeOK, Call, Goto
  <2> QED BY <2>1 DEF WalkOK, Translation
<1>3. UserVpns \subseteq Vpn
  BY ConstAssumption
<1> QED BY <1>1, <1>2, <1>3 DEF NewCall, AllocatePageTable, AllocateVmPages, UnsafeMapIdentity,
           Translate, TranslateOrElseAllocatePage, FreePageTable

\* The walk faults: there was no page when the call began, and this is not
\* the second walk of translate_or_else_allocate_page.
LEMMA FaultWalks ==
  ASSUME TypeOK, NEW t \in Thread, pc[t] \in {"walk", "walk0"}, WalkOK(t), Fault(t),
         Translation(job[t].root, job[t].vpn) = Unmapped
  PROVE  WalkOK(t)'
<1>1. job[t].was = Unmapped /\ (job[t].op = "ensure" => job[t].left = 1)
  BY DEF WalkOK
<1>2. CASE job[t].op = "ensure"
  <2>1. pc'[t] = "leaf"
    BY <1>1, <1>2 DEF Fault, Goto, TypeOK
  <2> QED BY <2>1 DEF WalkOK
<1>3. CASE job[t].op # "ensure"
  <2>1. pc'[t] = "result" /\ frame'[t] = Unmapped /\ job' = job
    BY <1>3 DEF Fault, Goto, TypeOK
  <2> QED BY <1>1, <1>3, <2>1 DEF WalkOK
<1> QED BY <1>2, <1>3

LEMMA WalkTopWalks ==
  ASSUME IInv, NEW t \in Thread, WalkTop(t), WalkOK(t)
  PROVE  WalkOK(t)'
<1>1. TypeOK /\ pc[t] = "walk" /\ mem' = mem
  BY DEF IInv, WalkTop, shared
<1>2. CASE LeafNode(t) = Unmapped
  <2>1. Translation(job[t].root, job[t].vpn) = Unmapped
    BY <1>2 DEF LeafNode, Translation
  <2> QED BY <1>1, <1>2, <2>1, FaultWalks DEF WalkTop
<1>3. CASE LeafNode(t) # Unmapped
  <2>1. pc'[t] = "walk0" /\ job' = job
    BY <1>1, <1>3 DEF WalkTop, Goto, TypeOK
  <2> QED BY <1>1, <2>1 DEF WalkOK, Translation
<1> QED BY <1>2, <1>3

LEMMA WalkLeafWalks ==
  ASSUME IInv, NEW t \in Thread, WalkLeaf(t), WalkOK(t)
  PROVE  WalkOK(t)'
<1> DEFINE pte == mem[todo[t].node][Lo(job[t].vpn)]
<1>1. TypeOK /\ pc[t] = "walk0" /\ mem' = mem
  BY DEF IInv, WalkLeaf, shared
<1>2. pte = Translation(job[t].root, job[t].vpn)
  BY <1>1 DEF IInv, ThreadOK, Transaction, LeafNode, Translation
<1>3. CASE pte = Unmapped
  <2>1. Fault(t)
    BY <1>3 DEF WalkLeaf
  <2> QED BY <1>1, <1>2, <1>3, <2>1, FaultWalks
<1>4. CASE pte # Unmapped
  <2>1. pc'[t] = "result" /\ frame'[t] = pte /\ job' = job
    BY <1>1, <1>4 DEF WalkLeaf, Goto, TypeOK
  <2>2. Translation(job[t].root, job[t].vpn)' = pte
    BY <1>1, <1>2, <2>1 DEF Translation
  <2> QED BY <1>1, <1>2, <1>4, <2>1, <2>2 DEF WalkOK
<1> QED BY <1>3, <1>4

\* After the page was mapped the second walk has it to find.
LEMMA InstallLeafWalks ==
  ASSUME IInv, NEW t \in Thread, InstallLeaf(t)
  PROVE  WalkOK(t)'
<1>1. TypeOK /\ pc[t] = "install"
  BY DEF IInv, InstallLeaf
<1>2. CASE job[t].op # "ensure"
  <2>1. pc'[t] \in {"idle", "map", "leaf"}
    BY <1>1, <1>2 DEF InstallLeaf, Return, Goto, TypeOK
  <2> QED BY <2>1 DEF WalkOK
<1>3. CASE job[t].op = "ensure"
  <2>1. PICK f : f = Target(t)
    OBVIOUS
  <2>2. pc'[t] = "walk" /\ job'[t] = [job[t] EXCEPT !.was = f] /\ job[t] \in Job
    BY <1>1, <1>3, <2>1, Typed DEF InstallLeaf, Goto, TypeOK
  <2>3. f \in Frames
    BY <1>1, <1>3, <2>1 DEF Target, IInv, ThreadOK, HeldOwned, Holding
  <2>4. /\ job'[t].was = f /\ f # Unmapped
        /\ job'[t].root = job[t].root /\ job'[t].vpn = job[t].vpn
    BY <2>2, <2>3, FramesTyped DEF Job
  <2>5. Translation(job[t].root, job[t].vpn)' = f
    <3>1. PICK s, w : s = job[t].root /\ w = job[t].vpn
      OBVIOUS
    <3>2. Translation(s, w)' = f
      BY <2>1, <3>1, InstallLeafView
    <3> QED BY <2>4, <3>1, <3>2
  <2> QED BY <2>2, <2>4, <2>5 DEF WalkOK
<1> QED BY <1>2, <1>3

LEMMA WalkStep ==
  ASSUME IInv, NEW t \in Thread, NewCall(t) \/ Step(t), WalkOK(t)
  PROVE  WalkOK(t)'
<1>1. CASE NewCall(t)
  BY <1>1, CallWalks
<1>2. CASE pc'[t] \notin {"walk", "walk0", "result"}
  BY <1>2 DEF WalkOK
<1>3. CASE WalkTop(t) \/ WalkLeaf(t) \/ InstallLeaf(t)
  BY <1>3, WalkTopWalks, WalkLeafWalks, InstallLeafWalks
<1>4. CASE SkipHole(t) \/ TakePage(t) \/ TakeNode(t) \/ BeginMap(t)
  BY <1>2, <1>4 DEF SkipHole, TakePage, TakeNode, BeginMap, Goto, Allocating, IInv, TypeOK
<1>5. CASE ReadTop(t) \/ ReadNode(t) \/ ReleaseLeaf(t) \/ ReleaseNode(t)
  BY <1>2, <1>5 DEF ReadTop, ReadNode, ReleaseLeaf, ReleaseNode, Goto, IInv, TypeOK
<1>6. CASE OutOfPages(t) \/ ZeroTable(t) \/ AlreadyMapped(t) \/ WalkReturns(t) \/ ReleaseTop(t)
  BY <1>2, <1>6 DEF OutOfPages, ZeroTable, AlreadyMapped, WalkReturns, ReleaseTop, Return, Goto,
                    IInv, TypeOK
<1> QED BY <1>1, <1>3, <1>4, <1>5, <1>6 DEF Step

(***************************************************************************)
(* translate finds every mapping made before it was called and answers     *)
(* what the table holds, although other threads map pages between its two  *)
(* reads (see WalkIsCurrent).                                              *)
(***************************************************************************)
THEOREM WalkFindsWhatIsMapped ==
  ASSUME OneHoleFrame
  PROVE  Spec => []WalkIsCurrent
<1>1. Init => WalkInv
  BY DEF Init, WalkInv, WalkOK
<1>2. ASSUME IInv, WalkInv, [Next]_vars PROVE WalkInv'
  <2>1. CASE UNCHANGED vars
    BY <1>2, <2>1 DEF vars, shared, locals, WalkInv, WalkOK, Translation
  <2>2. ASSUME NEW t \in Thread, NewCall(t) \/ Step(t) PROVE WalkInv'
    <3>1. WalkOK(t)'
      BY <1>2, <2>2, WalkStep DEF WalkInv
    <3>2. ASSUME NEW u \in Thread \ {t} PROVE WalkOK(u)'
      BY <1>2, <2>2, OneThreadSteps, OtherWalk DEF WalkInv, IInv
    <3> QED BY <3>1, <3>2 DEF WalkInv
  <2> QED BY <1>2, <2>1, <2>2 DEF Next, Quiet
<1>3. WalkInv => WalkIsCurrent
  BY DEF WalkInv, WalkOK, WalkIsCurrent
<1> QED BY <1>1, <1>2, <1>3, Invariance, PTL DEF Spec

----------------------------------------------------------------------------
(***************************************************************************)
(* No page is lost: each frame that was handed out is held by a call,      *)
(* linked in a table that some client or some running free still has to    *)
(* give back, passed over as part of a hole, or given up by a call that    *)
(* threw.  AddressSpaceInvariant says that a table holds only frames it    *)
(* owns; here is the converse, that it still reaches each frame it owns.   *)
(***************************************************************************)

\* A client or a running free has table r.
Known(r) == r \in roots \/ \E t \in Thread : pc[t] \in Freeing /\ job[t].root = r

\* Node n of table r has its entries: no free has read it yet.
Pending(r, n) ==
  \/ r \in roots
  \/ \E t \in Thread : /\ job[t].root = r
                       /\ pc[t] = "free" \/ (pc[t] = "free0" /\ n \in todo[t].nodes)

\* A free of table r has read node n, but not released it.
AtHand(r, n) == \E t \in Thread : pc[t] = "free0" /\ job[t].root = r /\ todo[t].node = n

\* A free of table r has read the entry of page f, but not released it.
LeafLeft(r, f) == \E t \in Thread : pc[t] = "free0" /\ job[t].root = r /\ f \in todo[t].leaves

HeldBy(t, f) == Holding(t) /\ frame[t] = f

NodeKept(r, i, f) == mem[r][i] = f /\ (Pending(r, f) \/ AtHand(r, f))

LeafKept(r, v, f) ==
  (Translation(r, v) = f /\ Pending(r, mem[r][Hi(v)])) \/ LeafLeft(r, f)

Kept(f) ==
  \/ owner[f] \in {Free, Leaked}
  \/ owner[f] = Skipped /\ InHole(f)
  \/ owner[f] = Root /\ Known(f)
  \/ \E t \in Thread : owner[f] = Held(t) /\ HeldBy(t, f)
  \/ \E r \in Frames, i \in Index : owner[f] = Node(r, i) /\ NodeKept(r, i, f)
  \/ \E r \in Frames, v \in Vpn : owner[f] = Leaf(r, v) /\ LeafKept(r, v, f)

\* unsafe_map_identity takes no page.
TakesPage(t) == pc[t] = "leaf" => job[t].op # "identity"

KInv == (\A f \in Frames : Kept(f)) /\ (\A t \in Thread : TakesPage(t))

----------------------------------------------------------------------------
(* What does not change while a frame is where it is.                      *)

InTable(n) == owner[n] = Root \/ \E r \in Frames, i \in Index : owner[n] = Node(r, i)

EntriesKept ==
  \A n \in Frames, j \in Index :
    InTable(n) /\ mem[n][j] # Unmapped => mem'[n][j] = mem[n][j]

\* No step overwrites a valid entry of a table, live or not.
LEMMA EntriesStay ==
  ASSUME IInv, [Next]_vars
  PROVE  EntriesKept
<1>1. mem \in [Frames -> [Index -> Pfn \cup {Unmapped}]]
  BY DEF IInv, TypeOK
<1>2. CASE UNCHANGED mem
  BY <1>2 DEF EntriesKept
<1>3. ASSUME NEW t \in Thread, TakeNode(t) PROVE EntriesKept
  <2>1. PICK s \in roots, h \in Index : s = job[t].root /\ h = Hi(job[t].vpn)
    BY <1>3, Typed, IndexOfVpn DEF TakeNode, IInv, ThreadOK, JobPages, Using
  <2>2. PICK f \in Frames : f \notin used /\ mem' = Linked(s, h, f)
    BY <1>3, <2>1 DEF TakeNode, TakeFrame, Pool!Take, Pool!Lowest
  <2>3. mem[s][h] = Unmapped /\ s \in Frames /\ owner[f] = Free
    BY <1>3, <2>1, <2>2 DEF TakeNode, IInv, TypeOK, UsedOwned, ThreadOK, Transaction, LeafNode
  <2>4. ~InTable(f)
    BY <2>3, Owners DEF InTable
  <2> QED BY <1>1, <2>2, <2>3, <2>4 DEF Linked, EntriesKept
<1>4. ASSUME NEW t \in Thread, ZeroTable(t) PROVE EntriesKept
  <2>1. owner[frame[t]] = Held(t) /\ mem' = [mem EXCEPT ![frame[t]] = [i \in Index |-> Unmapped]]
    BY <1>4 DEF ZeroTable, IInv, ThreadOK, HeldOwned, Holding
  <2>2. ~InTable(frame[t])
    BY <2>1, Owners DEF InTable
  <2> QED BY <1>1, <2>1, <2>2 DEF EntriesKept
<1>5. ASSUME NEW t \in Thread, InstallLeaf(t) PROVE EntriesKept
  <2>1. LeafNode(t) \in Frames
    BY <1>5, LeafNodeOK DEF InstallLeaf, Using, IInv, ThreadOK, Transaction
  <2>2. /\ mem[LeafNode(t)][Lo(job[t].vpn)] = Unmapped
        /\ mem' = [mem EXCEPT ![LeafNode(t)] = [@ EXCEPT ![Lo(job[t].vpn)] = Target(t)]]
    BY <1>5 DEF InstallLeaf, Vacant
  <2> QED BY <1>1, <2>1, <2>2 DEF EntriesKept
<1>6. ASSUME NEW t \in Thread, NEW q \in roots, FreePageTable(t, q) PROVE UNCHANGED mem
  BY <1>6 DEF FreePageTable, Call
<1> QED BY <1>2, <1>3, <1>4, <1>5, <1>6, StepKinds, QuiescentView DEF vars, shared

\* A table that somebody has is owned as a root.
LEMMA KnownRoot ==
  ASSUME IInv, NEW r, Known(r)
  PROVE  r \in Frames /\ owner[r] = Root
BY DEF IInv, TypeOK, Known, ThreadOK, FreedOwned, Freeing

LEMMA PlacesKnown ==
  ASSUME NEW r, NEW n, Pending(r, n) \/ AtHand(r, n) \/ LeafLeft(r, n)
  PROVE  Known(r)
BY DEF Pending, AtHand, LeafLeft, Known, Freeing

\* The entries of a table and of its pending nodes stay.
LEMMA PendingNode ==
  ASSUME IInv, NEW r, NEW v \in Vpn, NEW n, n = mem[r][Hi(v)], n # Unmapped, Pending(r, n)
  PROVE  n \in Frames /\ owner[n] = Node(r, Hi(v))
<1>1. CASE r \in roots
  BY <1>1 DEF IInv, TableOK, NodeOK
<1>2. ASSUME NEW t \in Thread, job[t].root = r, pc[t] = "free"
      PROVE  n \in Frames /\ owner[n] = Node(r, Hi(v))
  BY <1>2 DEF IInv, ThreadOK, FreeBegins, TableOK, NodeOK
<1>3. ASSUME NEW t \in Thread, job[t].root = r, pc[t] = "free0", n \in todo[t].nodes
      PROVE  n \in Frames /\ owner[n] = Node(r, Hi(v))
  BY <1>3 DEF IInv, ThreadOK, NodesLeft, NodeOK
<1> QED BY <1>1, <1>2, <1>3 DEF Pending

LEMMA TopStays ==
  ASSUME IInv, EntriesKept, NEW r, Known(r), NEW i \in Index, mem[r][i] # Unmapped
  PROVE  mem'[r][i] = mem[r][i]
BY KnownRoot DEF EntriesKept, InTable

LEMMA PendingTranslation ==
  ASSUME IInv, EntriesKept, NEW r, NEW v \in Vpn, Translation(r, v) # Unmapped,
         Pending(r, mem[r][Hi(v)])
  PROVE  /\ mem'[r][Hi(v)] = mem[r][Hi(v)]
         /\ Translation(r, v)' = Translation(r, v)
<1>1. PICK n : n = mem[r][Hi(v)]
  OBVIOUS
<1>2. n # Unmapped /\ mem[n][Lo(v)] # Unmapped /\ Hi(v) \in Index /\ Lo(v) \in Index
  BY <1>1, IndexOfVpn DEF Translation
<1>3. n \in Frames /\ owner[n] = Node(r, Hi(v))
  BY <1>1, <1>2, PendingNode
<1>4. Known(r) /\ r \in Frames
  BY <1>1, PlacesKnown, KnownRoot
<1>5. mem'[r][Hi(v)] = n
  BY <1>1, <1>2, <1>4, TopStays
<1>6. mem'[n][Lo(v)] = mem[n][Lo(v)]
  BY <1>2, <1>3, <1>4 DEF EntriesKept, InTable
<1> QED BY <1>1, <1>2, <1>5, <1>6 DEF Translation

(***************************************************************************)
(* A frame that keeps its owner is still kept if whoever has it still does.*)
(***************************************************************************)
LEMMA KeptStays ==
  ASSUME IInv, EntriesKept, NEW f \in Frames, Kept(f), owner'[f] = owner[f],
         owner[f] = Root /\ Known(f) => Known(f)',
         \A u \in Thread : owner[f] = Held(u) /\ HeldBy(u, f) => HeldBy(u, f)',
         \A r \in Frames, i \in Index :
           /\ owner[f] = Node(r, i) /\ mem[r][i] = f
           /\ Pending(r, f) \/ AtHand(r, f)
           => Pending(r, f)' \/ AtHand(r, f)',
         \A r \in Frames, n \in Frames, v \in Vpn :
           /\ owner[f] = Leaf(r, v) /\ mem[r][Hi(v)] = n /\ owner[n] = Node(r, Hi(v))
           /\ mem[n][Lo(v)] = f /\ Pending(r, n)
           => Pending(r, n)' \/ LeafLeft(r, f)',
         \A r \in Frames, v \in Vpn :
           owner[f] = Leaf(r, v) /\ LeafLeft(r, f) => LeafLeft(r, f)'
  PROVE  Kept(f)'
<1>0. f # Unmapped
  BY FramesTyped
<1>1. CASE owner[f] \in {Free, Leaked} \/ (owner[f] = Skipped /\ InHole(f))
  BY <1>1 DEF Kept, InHole
<1>2. CASE owner[f] = Root /\ Known(f)
  BY <1>2 DEF Kept
<1>3. ASSUME NEW u \in Thread, owner[f] = Held(u), HeldBy(u, f) PROVE Kept(f)'
  BY <1>3 DEF Kept
<1>4. ASSUME NEW r \in Frames, NEW i \in Index, owner[f] = Node(r, i), NodeKept(r, i, f)
      PROVE  Kept(f)'
  <2>1. mem'[r][i] = f
    BY <1>0, <1>4, TopStays, PlacesKnown DEF NodeKept
  <2>2. NodeKept(r, i, f)'
    BY <1>4, <2>1 DEF NodeKept
  <2> QED BY <1>4, <2>2 DEF Kept
<1>5. ASSUME NEW r \in Frames, NEW v \in Vpn, owner[f] = Leaf(r, v), LeafKept(r, v, f)
      PROVE  Kept(f)'
  <2>1. CASE LeafLeft(r, f)
    <3>1. LeafKept(r, v, f)'
      BY <1>5, <2>1 DEF LeafKept
    <3> QED BY <1>5, <3>1 DEF Kept
  <2>2. CASE Translation(r, v) = f /\ Pending(r, mem[r][Hi(v)])
    <3>1. PICK n : n = mem[r][Hi(v)]
      OBVIOUS
    <3>2. n # Unmapped /\ mem[n][Lo(v)] = f
      BY <1>0, <2>2, <3>1 DEF Translation
    <3>3. n \in Frames /\ owner[n] = Node(r, Hi(v))
      BY <2>2, <3>1, <3>2, PendingNode
    <3>4. mem'[r][Hi(v)] = n /\ Translation(r, v)' = f
      BY <1>0, <2>2, <3>1, PendingTranslation
    <3>5. Pending(r, n)' \/ LeafLeft(r, f)'
      BY <1>5, <2>2, <3>1, <3>2, <3>3
    <3>6. LeafKept(r, v, f)'
      BY <3>4, <3>5 DEF LeafKept
    <3> QED BY <1>5, <3>6 DEF Kept
  <2> QED BY <1>5, <2>1, <2>2 DEF LeafKept
<1> QED BY <1>1, <1>2, <1>3, <1>4, <1>5 DEF Kept

----------------------------------------------------------------------------
(* The steps of a call that frees no table.                                *)

LEMMA PlacesStay ==
  ASSUME NEW t \in Thread, \A u \in Thread \ {t} : Same(u), pc[t] \notin Freeing,
         roots \subseteq roots'
  PROVE  /\ \A r : Known(r) => Known(r)'
         /\ \A r, n : Pending(r, n) => Pending(r, n)'
         /\ \A r, n : AtHand(r, n) => AtHand(r, n)'
         /\ \A r, f : LeafLeft(r, f) => LeafLeft(r, f)'
<1>1. ASSUME NEW u \in Thread, pc[u] \in Freeing
      PROVE  pc'[u] = pc[u] /\ job'[u] = job[u] /\ todo'[u] = todo[u]
  BY <1>1 DEF Same
<1>2. \A r : Known(r) => Known(r)'
  BY <1>1 DEF Known
<1>3. \A r, n : Pending(r, n) => Pending(r, n)'
  BY <1>1 DEF Pending, Freeing
<1>4. \A r, n : AtHand(r, n) => AtHand(r, n)'
  BY <1>1 DEF AtHand, Freeing
<1>5. \A r, f : LeafLeft(r, f) => LeafLeft(r, f)'
  BY <1>1 DEF LeafLeft, Freeing
<1> QED BY <1>2, <1>3, <1>4, <1>5

LEMMA OthersTakePages ==
  ASSUME KInv, NEW t \in Thread, \A u \in Thread \ {t} : Same(u), TakesPage(t)'
  PROVE  \A u \in Thread : TakesPage(u)'
BY DEF KInv, TakesPage, Same

(***************************************************************************)
(* Only the frames that change their owner, and the frame the call holds,  *)
(* have to be looked at.                                                   *)
(***************************************************************************)
LEMMA ClientStep ==
  ASSUME IInv, KInv, EntriesKept, NEW t \in Thread, \A u \in Thread \ {t} : Same(u),
         pc[t] \notin Freeing, roots \subseteq roots',
         \A f \in Frames : owner'[f] # owner[f] => Kept(f)',
         \A f \in Frames : owner[f] = Held(t) /\ HeldBy(t, f) /\ owner'[f] = owner[f] => HeldBy(t, f)',
         TakesPage(t)'
  PROVE  KInv'
<1>1. ASSUME NEW f \in Frames, owner'[f] = owner[f] PROVE Kept(f)'
  <2>1. Kept(f)
    BY DEF KInv
  <2>2. \A u \in Thread : owner[f] = Held(u) /\ HeldBy(u, f) => HeldBy(u, f)'
    BY <1>1 DEF HeldBy, Holding, Same
  <2> QED BY <1>1, <2>1, <2>2, PlacesStay, KeptStays
<1>2. \A u \in Thread : TakesPage(u)'
  BY OthersTakePages
<1> QED BY <1>1, <1>2 DEF KInv

\* A thread has at most the frame that it holds.
LEMMA HeldOnce ==
  ASSUME KInv, NEW t \in Thread, NEW f \in Frames, owner[f] = Held(t)
  PROVE  Holding(t) /\ frame[t] = f
BY Owners DEF KInv, Kept, HeldBy

\* A step that changes no owner, of a thread that holds nothing or goes on
\* holding what it has
LEMMA QuietStep ==
  ASSUME IInv, KInv, EntriesKept, NEW t \in Thread, \A u \in Thread \ {t} : Same(u),
         pc[t] \notin Freeing, roots \subseteq roots', owner' = owner,
         Holding(t) => Holding(t)' /\ frame'[t] = frame[t],
         TakesPage(t)'
  PROVE  KInv'
BY ClientStep DEF HeldBy

LEMMA SkipHoleKept ==
  ASSUME IInv, KInv, EntriesKept, NEW t \in Thread, SkipHole(t)
  PROVE  KInv'
<1>1. PICK f \in Frames : InHole(f) /\ owner' = [owner EXCEPT ![f] = Skipped]
  BY DEF SkipHole
<1>2. /\ UNCHANGED <<roots, pc, job, frame, todo>> /\ pc[t] \in Allocating
      /\ owner \in [Frames -> Kinds \X (Thread \cup Nat) \X Nat]
  BY DEF SkipHole, IInv, TypeOK
<1>3. \A g \in Frames : owner'[g] # owner[g] => Kept(g)'
  BY <1>1, <1>2 DEF Kept, InHole
<1> QED BY <1>2, <1>3, ClientStep DEF Same, HeldBy, Holding, Allocating, Freeing, KInv, TakesPage

LEMMA TakePageKept ==
  ASSUME IInv, KInv, EntriesKept, NEW t \in Thread, TakePage(t)
  PROVE  KInv'
<1>1. PICK f \in Frames : /\ owner' = [owner EXCEPT ![f] = Held(t)]
                         /\ frame' = [frame EXCEPT ![t] = f]
  BY DEF TakePage
<1>2. /\ TypeOK /\ UNCHANGED <<roots, job, todo>> /\ pc[t] \in {"table", "leaf"}
      /\ pc' = [pc EXCEPT ![t] = IF pc[t] = "table" THEN "zero" ELSE "map"]
      /\ TakesPage(t)
  BY DEF TakePage, IInv, Goto, KInv
<1>3. HeldBy(t, f)' /\ owner'[f] = Held(t) /\ pc'[t] \in {"zero", "map"}
  BY <1>1, <1>2 DEF TypeOK, HeldBy, Holding, TakesPage
<1>4. \A g \in Frames : owner'[g] # owner[g] => Kept(g)'
  BY <1>1, <1>2, <1>3 DEF Kept, TypeOK
<1>5. \A u \in Thread \ {t} : Same(u)
  BY <1>1, <1>2 DEF Same, TypeOK
<1>6. \A g \in Frames : owner[g] # Held(t)
  BY <1>2, HeldOnce DEF Holding
<1> QED BY <1>2, <1>3, <1>4, <1>5, <1>6, ClientStep DEF Freeing, TakesPage

LEMMA TakeNodeKept ==
  ASSUME IInv, KInv, EntriesKept, NEW t \in Thread, TakeNode(t)
  PROVE  KInv'
<1>1. PICK r \in roots, h \in Index : r = job[t].root /\ h = Hi(job[t].vpn)
  BY Typed, IndexOfVpn DEF TakeNode, IInv, ThreadOK, JobPages, Using
<1>2. PICK f \in Frames : /\ f \notin used /\ mem' = Linked(r, h, f)
                         /\ owner' = [owner EXCEPT ![f] = Node(r, h)]
  BY <1>1 DEF TakeNode, TakeFrame, Pool!Take, Pool!Lowest
<1>3. /\ TypeOK /\ UNCHANGED <<roots, job, frame, todo>> /\ pc[t] = "node"
      /\ pc' = [pc EXCEPT ![t] = "install"] /\ r \in Frames
  BY DEF TakeNode, IInv, Goto, TypeOK
<1>4. mem'[r][h] = f
  BY <1>2, <1>3 DEF Linked, TypeOK
<1>5. \A g \in Frames : owner'[g] # owner[g] => Kept(g)'
  <2>1. NodeKept(r, h, f)' /\ owner'[f] = Node(r, h)
    BY <1>2, <1>3, <1>4 DEF NodeKept, Pending, TypeOK
  <2> QED BY <1>2, <1>3, <2>1 DEF Kept, TypeOK
<1>6. \A u \in Thread \ {t} : Same(u)
  BY <1>3 DEF Same, TypeOK
<1>7. pc'[t] = "install"
  BY <1>3 DEF TypeOK
<1> QED BY <1>3, <1>5, <1>6, <1>7, ClientStep DEF Freeing, TakesPage, HeldBy, Holding

\* What a call that throws holds is given up.
LEMMA ThrowKept ==
  ASSUME IInv, KInv, EntriesKept, NEW t \in Thread, owner' = Abandoned(t), Return(t),
         pc[t] \notin Freeing, UNCHANGED roots
  PROVE  KInv'
<1>1. \A f \in Frames : owner'[f] = IF owner[f] = Held(t) THEN Leaked ELSE owner[f]
  BY DEF Abandoned
<1>2. pc'[t] = "idle" /\ \A u \in Thread \ {t} : Same(u)
  BY Returned DEF IInv
<1>3. \A f \in Frames : owner'[f] # owner[f] => Kept(f)'
  BY <1>1 DEF Kept
<1>4. \A f \in Frames : owner[f] = Held(t) => owner'[f] # owner[f]
  BY <1>1, Owners
<1> QED BY <1>2, <1>3, <1>4, ClientStep DEF TakesPage

LEMMA ZeroTableKept ==
  ASSUME IInv, KInv, EntriesKept, NEW t \in Thread, ZeroTable(t)
  PROVE  KInv'
<1>1. PICK g : g = frame[t]
  OBVIOUS
<1>2. g \in Frames /\ owner[g] = Held(t) /\ roots' = roots \cup {g}
  BY <1>1, ZeroTableView
<1>3. /\ TypeOK /\ pc[t] = "zero" /\ Return(t) /\ owner' = [owner EXCEPT ![g] = Root]
  BY <1>1 DEF ZeroTable, IInv
<1>4. pc'[t] = "idle" /\ \A u \in Thread \ {t} : Same(u)
  BY <1>3, Returned
<1>5. \A f \in Frames : owner'[f] # owner[f] => Kept(f)'
  BY <1>2, <1>3 DEF Kept, Known, TypeOK
<1>6. \A f \in Frames : owner[f] = Held(t) => f = g /\ owner'[f] # owner[f]
  BY <1>1, <1>2, <1>3, HeldOnce, Owners DEF TypeOK
<1> QED BY <1>2, <1>3, <1>4, <1>5, <1>6, ClientStep DEF Freeing, TakesPage

LEMMA InstallLeafKept ==
  ASSUME IInv, KInv, EntriesKept, NEW t \in Thread, InstallLeaf(t)
  PROVE  KInv'
<1>1. PICK s, w, p : s = job[t].root /\ w = job[t].vpn /\ p = Target(t)
  OBVIOUS
<1>2. s \in roots /\ w \in Vpn /\ Translation(s, w)' = p
  BY <1>1, InstallLeafView
<1>3. TypeOK /\ pc[t] = "install" /\ owner' = Installed(t) /\ roots' = roots /\ s \in Frames
  BY <1>2 DEF InstallLeaf, IInv, TypeOK
<1>4. \A f \in Frames : owner'[f] = IF owner[f] = Held(t) THEN Leaf(s, w) ELSE owner[f]
  BY <1>1, <1>3 DEF Installed
<1>5. ASSUME NEW f \in Frames, owner[f] = Held(t) PROVE Kept(f)' /\ owner'[f] # owner[f]
  <2>1. f = p
    BY <1>1, <1>3, <1>5, HeldOnce DEF Holding, Target
  <2>2. LeafKept(s, w, f)'
    BY <1>2, <1>3, <2>1 DEF LeafKept, Pending
  <2>3. owner'[f] = Leaf(s, w)
    BY <1>4, <1>5
  <2> QED BY <1>2, <1>3, <1>5, <2>2, <2>3, Owners DEF Kept
<1>6. /\ pc'[t] \in {"idle", "map", "walk"} \/ (pc'[t] = "leaf" /\ job'[t].op # "identity")
      /\ \A u \in Thread \ {t} : Same(u)
  <2>1. CASE Return(t)
    BY <1>3, <2>1, Returned
  <2>2. CASE ~Return(t)
    <3>1. job[t] \in Job
      BY <1>3, Typed
    <3>2. job'[t].op = job[t].op
      BY <1>3, <2>2, <3>1 DEF InstallLeaf, Job, TypeOK
    <3>3. pc'[t] \in {"map", "walk"} \/ (pc'[t] = "leaf" /\ job[t].op # "identity")
      BY <1>3, <2>2 DEF InstallLeaf, Goto, TypeOK
    <3>4. \A u \in Thread \ {t} : Same(u)
      BY <1>3, <2>2 DEF InstallLeaf, Goto, TypeOK, Same
    <3> QED BY <3>2, <3>3, <3>4
  <2> QED BY <2>1, <2>2
<1>7. \A f \in Frames : owner'[f] # owner[f] => Kept(f)'
  BY <1>4, <1>5
<1> QED BY <1>3, <1>5, <1>6, <1>7, ClientStep DEF Freeing, TakesPage

LEMMA BeginMapKept ==
  ASSUME IInv, KInv, EntriesKept, NEW t \in Thread, BeginMap(t)
  PROVE  KInv'
<1>1. /\ TypeOK /\ pc[t] = "map" /\ UNCHANGED <<roots, owner>> /\ UNCHANGED <<job, frame, todo>>
      /\ \E p \in {"node", "install"} : pc' = [pc EXCEPT ![t] = p]
  BY DEF BeginMap, Goto, IInv, locals
<1>2. pc'[t] \in {"node", "install"} /\ \A u \in Thread \ {t} : Same(u)
  BY <1>1 DEF Same, TypeOK
<1>3. Holding(t) => Holding(t)'
  BY <1>1, <1>2 DEF Holding
<1> QED BY <1>1, <1>2, <1>3, QuietStep DEF Freeing, TakesPage

LEMMA WalkKept ==
  ASSUME IInv, KInv, EntriesKept, NEW t \in Thread, WalkTop(t) \/ WalkLeaf(t) \/ WalkReturns(t)
  PROVE  KInv'
<1>1. TypeOK /\ pc[t] \in {"walk", "walk0", "result"} /\ UNCHANGED <<roots, owner>>
  BY DEF WalkTop, WalkLeaf, WalkReturns, IInv, shared
<1>2. \A u \in Thread \ {t} : Same(u)
  BY <1>1, OneThreadSteps DEF Step
<1>3. TakesPage(t)'
  <2>1. CASE WalkReturns(t)
    BY <1>1, <2>1 DEF WalkReturns, Return, Goto, TakesPage, TypeOK
  <2>2. CASE WalkTop(t) \/ WalkLeaf(t)
    <3>1. CASE Fault(t) /\ job[t].op = "ensure" /\ job[t].left = 1
      <4>1. job[t] \in Job /\ job'[t] = [job[t] EXCEPT !.left = 0]
        BY <1>1, <3>1, Typed DEF Fault, TypeOK
      <4>2. job'[t].op = "ensure"
        BY <3>1, <4>1 DEF Job
      <4> QED BY <4>2 DEF TakesPage
    <3>2. CASE Fault(t) /\ ~(job[t].op = "ensure" /\ job[t].left = 1)
      BY <1>1, <3>2 DEF Fault, Goto, TakesPage, TypeOK
    <3>3. CASE ~Fault(t)
      BY <1>1, <2>2, <3>3 DEF WalkTop, WalkLeaf, Goto, TakesPage, TypeOK
    <3> QED BY <3>1, <3>2, <3>3
  <2> QED BY <2>1, <2>2
<1> QED BY <1>1, <1>2, <1>3, QuietStep DEF Freeing, Holding

\* A call that frees no table begins: its thread held nothing.
LEMMA CallKept ==
  ASSUME IInv, KInv, EntriesKept, NEW t \in Thread, NEW op, NEW r, NEW v, NEW n, NEW was, NEW p,
         Call(t, op, r, v, n, was, p), UNCHANGED roots, p = "leaf" => op # "identity"
  PROVE  KInv'
<1>1. /\ TypeOK /\ pc[t] = "idle" /\ owner' = owner /\ pc'[t] = p
      /\ job'[t] = [op |-> op, root |-> r, vpn |-> v, left |-> n, was |-> was]
      /\ \A u \in Thread \ {t} : Same(u)
  BY DEF Call, Goto, IInv, TypeOK, Same
<1> QED BY <1>1, QuietStep DEF Freeing, Holding, TakesPage

----------------------------------------------------------------------------
(* The steps of a call that frees a table.                                 *)

LEMMA FreePageTableKept ==
  ASSUME IInv, KInv, EntriesKept, NEW t \in Thread, NEW s \in roots, FreePageTable(t, s)
  PROVE  KInv'
<1>1. /\ TypeOK /\ pc[t] = "idle" /\ owner' = owner /\ pc'[t] = "free" /\ job'[t].root = s
      /\ roots' = roots \ {s} /\ \A u \in Thread \ {t} : Same(u)
  BY DEF FreePageTable, Call, Goto, IInv, TypeOK, Same
<1>2. \A u \in Thread : pc[u] \in Freeing =>
        u # t /\ pc'[u] = pc[u] /\ job'[u] = job[u] /\ todo'[u] = todo[u]
  BY <1>1 DEF Same, Freeing
<1>3. \A r : Known(r) => Known(r)'
  BY <1>1, <1>2 DEF Known, Freeing
<1>4. \A r, n : Pending(r, n) => Pending(r, n)'
  BY <1>1, <1>2 DEF Pending, Freeing
<1>5. \A r, n : AtHand(r, n) => AtHand(r, n)'
  BY <1>2 DEF AtHand, Freeing
<1>6. \A r, n : LeafLeft(r, n) => LeafLeft(r, n)'
  BY <1>2 DEF LeafLeft, Freeing
<1>7. \A u \in Thread : \A f : HeldBy(u, f) => HeldBy(u, f)'
  BY <1>1 DEF HeldBy, Holding, Same
<1>8. \A f \in Frames : Kept(f)'
  BY <1>1, <1>3, <1>4, <1>5, <1>6, <1>7, KeptStays DEF KInv
<1> QED BY <1>1, <1>8, OthersTakePages DEF KInv, TakesPage

(***************************************************************************)
(* A step of the free of table s by t: frames that change their owner are  *)
(* free now, and what t had of the others it still has.                    *)
(***************************************************************************)
LEMMA FreeKept ==
  ASSUME IInv, KInv, EntriesKept, NEW t \in Thread, \A u \in Thread \ {t} : Same(u),
         pc[t] \in Freeing, UNCHANGED roots, NEW s, s = job[t].root,
         pc'[t] \in Freeing \cup {"idle"},
         \A f \in Frames : owner'[f] # owner[f] => owner'[f] = Free,
         owner[s] = Root /\ owner'[s] = owner[s] => Known(s)',
         \A f \in Frames, i \in Index :
           /\ owner'[f] = owner[f] /\ owner[f] = Node(s, i) /\ mem[s][i] = f
           /\ pc[t] = "free" \/ (pc[t] = "free0" /\ (f \in todo[t].nodes \/ f = todo[t].node))
           => Pending(s, f)' \/ AtHand(s, f)',
         \A f \in Frames, n \in Frames, v \in Vpn :
           /\ owner'[f] = owner[f] /\ owner[f] = Leaf(s, v)
           /\ mem[s][Hi(v)] = n /\ owner[n] = Node(s, Hi(v)) /\ mem[n][Lo(v)] = f
           /\ pc[t] = "free" \/ (pc[t] = "free0" /\ n \in todo[t].nodes)
           => Pending(s, n)' \/ LeafLeft(s, f)',
         \A f \in Frames, v \in Vpn :
           /\ owner'[f] = owner[f] /\ owner[f] = Leaf(s, v)
           /\ pc[t] = "free0" /\ f \in todo[t].leaves
           => LeafLeft(s, f)'
  PROVE  KInv'
<1>1. \A u \in Thread \ {t} : pc'[u] = pc[u] /\ job'[u] = job[u] /\ frame'[u] = frame[u] /\ todo'[u] = todo[u]
  BY DEF Same
<1>2. ASSUME NEW f \in Frames, owner'[f] = owner[f] PROVE Kept(f)'
  <2>1. owner[f] = Root /\ Known(f) => Known(f)'
    BY <1>1, <1>2 DEF Known
  <2>2. \A u \in Thread : owner[f] = Held(u) /\ HeldBy(u, f) => HeldBy(u, f)'
    BY <1>1 DEF HeldBy, Holding, Freeing
  <2>3. ASSUME NEW r \in Frames, NEW i \in Index, owner[f] = Node(r, i), mem[r][i] = f,
               Pending(r, f) \/ AtHand(r, f)
        PROVE  Pending(r, f)' \/ AtHand(r, f)'
    BY <1>1, <1>2, <2>3 DEF Pending, AtHand
  <2>4. ASSUME NEW r \in Frames, NEW n \in Frames, NEW v \in Vpn, owner[f] = Leaf(r, v),
               mem[r][Hi(v)] = n, owner[n] = Node(r, Hi(v)), mem[n][Lo(v)] = f, Pending(r, n)
        PROVE  Pending(r, n)' \/ LeafLeft(r, f)'
    BY <1>1, <1>2, <2>4 DEF Pending
  <2>5. ASSUME NEW r \in Frames, NEW v \in Vpn, owner[f] = Leaf(r, v), LeafLeft(r, f)
        PROVE  LeafLeft(r, f)'
    BY <1>1, <1>2, <2>5 DEF LeafLeft
  <2> QED BY <1>2, <2>1, <2>2, <2>3, <2>4, <2>5, KeptStays DEF KInv
<1>3. \A f \in Frames : owner'[f] # owner[f] => Kept(f)'
  BY DEF Kept
<1>4. TakesPage(t)'
  BY DEF TakesPage, Freeing
<1> QED BY <1>2, <1>3, <1>4, OthersTakePages DEF KInv

LEMMA ReadTopKept ==
  ASSUME IInv, KInv, EntriesKept, NEW t \in Thread, ReadTop(t)
  PROVE  KInv'
<1>1. PICK s : s = job[t].root
  OBVIOUS
<1>2. /\ TypeOK /\ pc[t] = "free" /\ UNCHANGED <<roots, owner>>
      /\ pc' = [pc EXCEPT ![t] = "free0"] /\ job' = job
      /\ todo' = [todo EXCEPT ![t].nodes = Mapped(mem[s])]
      /\ \A u \in Thread \ {t} : Same(u)
  BY <1>1, OneThreadSteps DEF ReadTop, Goto, IInv, shared, Step
<1>3. pc'[t] = "free0" /\ job'[t].root = s /\ todo'[t].nodes = Mapped(mem[s])
  <2>1. todo[t] \in Todo
    BY <1>2, Typed
  <2> QED BY <1>1, <1>2, <2>1 DEF TypeOK, Todo
<1>4. \A n \in Frames, i \in Index : mem[s][i] = n => Pending(s, n)'
  BY <1>3, FramesTyped DEF Pending, Mapped
<1>5. \A n \in Frames, v \in Vpn : mem[s][Hi(v)] = n => Pending(s, n)'
  BY <1>4, IndexOfVpn
<1>6. Known(s)'
  BY <1>3 DEF Known, Freeing
<1> QED BY <1>1, <1>2, <1>3, <1>4, <1>5, <1>6, FreeKept DEF Freeing

LEMMA ReadNodeKept ==
  ASSUME IInv, KInv, EntriesKept, NEW t \in Thread, ReadNode(t)
  PROVE  KInv'
<1>1. PICK s : s = job[t].root
  OBVIOUS
<1>2. PICK n \in todo[t].nodes :
        todo' = [todo EXCEPT ![t] = [nodes |-> todo[t].nodes \ {n}, node |-> n,
                                     leaves |-> Mapped(mem[n])]]
  BY DEF ReadNode
<1>3. /\ TypeOK /\ pc[t] = "free0" /\ UNCHANGED <<roots, owner, pc, job>> /\ todo[t].node = 0
      /\ \A u \in Thread \ {t} : Same(u)
  BY OneThreadSteps DEF ReadNode, IInv, shared, Step
<1>4. /\ pc'[t] = "free0" /\ job'[t].root = s
      /\ todo'[t].nodes = todo[t].nodes \ {n} /\ todo'[t].node = n
      /\ todo'[t].leaves = Mapped(mem[n])
  BY <1>1, <1>2, <1>3 DEF TypeOK
<1>5. todo[t].leaves = {}
  BY <1>3 DEF IInv, ThreadOK, NodeAtHand
<1>6. \A f : f \in todo[t].nodes => Pending(s, f)' \/ (f = n /\ AtHand(s, f)')
  BY <1>4 DEF Pending, AtHand
<1>7. \A f \in Frames, v \in Vpn : mem[n][Lo(v)] = f => LeafLeft(s, f)'
  BY <1>4, IndexOfVpn, FramesTyped DEF LeafLeft, Mapped
<1>8. Known(s)'
  BY <1>4 DEF Known, Freeing
<1>9. ASSUME NEW f \in Frames, NEW i \in Index,
             pc[t] = "free" \/ (pc[t] = "free0" /\ (f \in todo[t].nodes \/ f = todo[t].node))
      PROVE  Pending(s, f)' \/ AtHand(s, f)'
  BY <1>3, <1>6, <1>9, FramesTyped
<1>10. ASSUME NEW f \in Frames, NEW m \in Frames, NEW v \in Vpn, mem[m][Lo(v)] = f,
              pc[t] = "free" \/ (pc[t] = "free0" /\ m \in todo[t].nodes)
       PROVE  Pending(s, m)' \/ LeafLeft(s, f)'
  BY <1>3, <1>6, <1>7, <1>10
<1> QED BY <1>1, <1>3, <1>5, <1>8, <1>9, <1>10, FreeKept DEF Freeing

\* What a free has released has changed its owner.
LEMMA ReleaseOwner ==
  ASSUME IInv, NEW g, Release(g)
  PROVE  /\ \A f \in Frames : owner'[f] # owner[f] => f = g /\ owner'[f] = Free
         /\ \A f \in Frames : f = g /\ ~InHole(f) => owner'[f] = Free
         /\ \A f \in Frames : InHole(f) => owner[f] \in {Free, Skipped}
BY DEF Release, Released, IInv, HolesUnused, TypeOK

LEMMA ReleaseLeafKept ==
  ASSUME IInv, KInv, EntriesKept, NEW t \in Thread, ReleaseLeaf(t)
  PROVE  KInv'
<1>1. PICK s : s = job[t].root
  OBVIOUS
<1>2. PICK g \in todo[t].leaves : Release(g) /\ todo' = [todo EXCEPT ![t].leaves = @ \ {g}]
  BY DEF ReleaseLeaf
<1>3. /\ TypeOK /\ pc[t] = "free0" /\ UNCHANGED <<mem, roots, pc, job>>
      /\ \A u \in Thread \ {t} : Same(u)
  BY OneThreadSteps DEF ReleaseLeaf, IInv, Step
<1>4. /\ pc'[t] = "free0" /\ job'[t].root = s
      /\ todo'[t].nodes = todo[t].nodes /\ todo'[t].node = todo[t].node
      /\ todo'[t].leaves = todo[t].leaves \ {g}
  <2>1. todo[t] \in Todo
    BY <1>3, Typed
  <2> QED BY <1>1, <1>2, <1>3, <2>1 DEF TypeOK, Todo
<1>5. \A f : f \in todo[t].nodes => Pending(s, f)'
  BY <1>4 DEF Pending
<1>6. \A f : f = todo[t].node => AtHand(s, f)'
  BY <1>4 DEF AtHand
<1>7. \A f : f \in todo[t].leaves /\ f # g => LeafLeft(s, f)'
  BY <1>4 DEF LeafLeft
<1>8. Known(s)'
  BY <1>4 DEF Known, Freeing
<1>9. ASSUME NEW f \in Frames, NEW v \in Vpn, owner'[f] = owner[f], owner[f] = Leaf(s, v)
      PROVE  f # g
  BY <1>2, <1>9, ReleaseOwner, Owners
<1>10. \A f \in Frames : owner'[f] # owner[f] => owner'[f] = Free
  BY <1>2, ReleaseOwner
<1> QED BY <1>1, <1>3, <1>5, <1>6, <1>7, <1>8, <1>9, <1>10, FreeKept DEF Freeing

LEMMA ReleaseNodeKept ==
  ASSUME IInv, KInv, EntriesKept, NEW t \in Thread, ReleaseNode(t)
  PROVE  KInv'
<1>1. PICK s, g : s = job[t].root /\ g = todo[t].node
  OBVIOUS
<1>2. /\ TypeOK /\ pc[t] = "free0" /\ todo[t].leaves = {} /\ UNCHANGED <<mem, roots, pc, job>>
      /\ Release(g) /\ todo' = [todo EXCEPT ![t].node = 0]
      /\ \A u \in Thread \ {t} : Same(u)
  BY <1>1, OneThreadSteps DEF ReleaseNode, IInv, Step
<1>3. /\ pc'[t] = "free0" /\ job'[t].root = s /\ todo'[t].nodes = todo[t].nodes
  <2>1. todo[t] \in Todo
    BY <1>2, Typed
  <2> QED BY <1>1, <1>2, <2>1 DEF TypeOK, Todo
<1>4. \A f : f \in todo[t].nodes => Pending(s, f)'
  BY <1>3 DEF Pending
<1>5. Known(s)'
  BY <1>3 DEF Known, Freeing
<1>6. ASSUME NEW f \in Frames, NEW i \in Index, owner'[f] = owner[f], owner[f] = Node(s, i)
      PROVE  f # g
  BY <1>2, <1>6, ReleaseOwner, Owners
<1>7. \A f \in Frames : owner'[f] # owner[f] => owner'[f] = Free
  BY <1>2, ReleaseOwner
<1> QED BY <1>1, <1>2, <1>4, <1>5, <1>6, <1>7, FreeKept DEF Freeing

LEMMA ReleaseTopKept ==
  ASSUME IInv, KInv, EntriesKept, NEW t \in Thread, ReleaseTop(t)
  PROVE  KInv'
<1>1. PICK s : s = job[t].root
  OBVIOUS
<1>2. /\ TypeOK /\ pc[t] = "free0" /\ UNCHANGED <<mem, roots>> /\ Release(s) /\ Return(t)
      /\ todo[t].nodes = {} /\ todo[t].leaves = {} /\ todo[t].node = 0
  BY <1>1 DEF ReleaseTop, IInv, NoTodo
<1>3. pc'[t] = "idle" /\ \A u \in Thread \ {t} : Same(u)
  BY <1>2, Returned
<1>4. s \in Frames /\ owner[s] = Root
  BY <1>1, <1>2 DEF IInv, ThreadOK, FreedOwned, Freeing
<1>5. owner'[s] # owner[s]
  BY <1>2, <1>4, ReleaseOwner, Owners
<1>6. \A f \in Frames : owner'[f] # owner[f] => owner'[f] = Free
  BY <1>2, ReleaseOwner
<1> QED BY <1>1, <1>2, <1>3, <1>5, <1>6, FramesTyped, FreeKept DEF Freeing

----------------------------------------------------------------------------
LEMMA KeptNext ==
  ASSUME IInv, KInv, [Next]_vars
  PROVE  KInv'
<1>0. EntriesKept
  BY EntriesStay
<1>1. CASE UNCHANGED vars
  <2>1. UNCHANGED <<mem, roots, owner, pc, job, frame, todo>>
    BY <1>1 DEF vars, shared, locals
  <2>2. \A t \in Thread : Same(t)
    BY <2>1 DEF Same
  <2>3. /\ \A r : Known(r) => Known(r)'
        /\ \A r, n : Pending(r, n) => Pending(r, n)'
        /\ \A r, n : AtHand(r, n) => AtHand(r, n)'
        /\ \A r, f : LeafLeft(r, f) => LeafLeft(r, f)'
        /\ \A t, f : HeldBy(t, f) => HeldBy(t, f)'
    BY <2>1 DEF Known, Pending, AtHand, LeafLeft, HeldBy, Holding
  <2>4. \A f \in Frames : Kept(f)'
    BY <1>0, <2>1, <2>3, KeptStays DEF KInv
  <2> QED BY <2>1, <2>4 DEF KInv, TakesPage
<1>2. ASSUME NEW t \in Thread, NewCall(t) PROVE KInv'
  <2>1. ASSUME NEW r \in roots, FreePageTable(t, r) PROVE KInv'
    BY <1>0, <2>1, FreePageTableKept
  <2>2. CASE AllocatePageTable(t)
    BY <1>0, <2>2, CallKept DEF AllocatePageTable
  <2>3. ASSUME NEW r, NEW v, NEW n,
               \/ AllocateVmPages(t, r, v, n) \/ UnsafeMapIdentity(t, r, v, n)
               \/ Translate(t, r, v) \/ TranslateOrElseAllocatePage(t, r, v)
        PROVE  KInv'
    <3>1. CASE AllocateVmPages(t, r, v, n)
      BY <1>0, <3>1, CallKept DEF AllocateVmPages
    <3>2. CASE UnsafeMapIdentity(t, r, v, n)
      BY <1>0, <3>2, CallKept DEF UnsafeMapIdentity
    <3>3. CASE Translate(t, r, v)
      BY <1>0, <3>3, CallKept DEF Translate
    <3>4. CASE TranslateOrElseAllocatePage(t, r, v)
      BY <1>0, <3>4, CallKept DEF TranslateOrElseAllocatePage
    <3> QED BY <2>3, <3>1, <3>2, <3>3, <3>4
  <2> QED BY <1>2, <2>1, <2>2, <2>3 DEF NewCall
<1>3. ASSUME NEW t \in Thread, Step(t) PROVE KInv'
  <2>1. CASE SkipHole(t) \/ TakePage(t) \/ TakeNode(t)
    BY <1>0, <2>1, SkipHoleKept, TakePageKept, TakeNodeKept
  <2>2. CASE OutOfPages(t)
    BY <1>0, <2>2, ThrowKept DEF OutOfPages, Allocating, Freeing
  <2>3. CASE AlreadyMapped(t)
    BY <1>0, <2>3, ThrowKept DEF AlreadyMapped, Freeing
  <2>4. CASE ZeroTable(t) \/ BeginMap(t) \/ InstallLeaf(t)
    BY <1>0, <2>4, ZeroTableKept, BeginMapKept, InstallLeafKept
  <2>5. CASE WalkTop(t) \/ WalkLeaf(t) \/ WalkReturns(t)
    BY <1>0, <2>5, WalkKept
  <2>6. CASE ReadTop(t) \/ ReadNode(t)
    BY <1>0, <2>6, ReadTopKept, ReadNodeKept
  <2>7. CASE ReleaseLeaf(t) \/ ReleaseNode(t) \/ ReleaseTop(t)
    BY <1>0, <2>7, ReleaseLeafKept, ReleaseNodeKept, ReleaseTopKept
  <2> QED BY <1>3, <2>1, <2>2, <2>3, <2>4, <2>5, <2>6, <2>7 DEF Step
<1> QED BY <1>1, <1>2, <1>3 DEF Next, Quiet

(***************************************************************************)
(* Each frame the allocator handed out is accounted for at every moment.   *)
(***************************************************************************)
THEOREM EveryPageIsKept ==
  ASSUME OneHoleFrame
  PROVE  Spec => []KInv
<1>1. Init => KInv
  BY DEF Init, KInv, Kept, TakesPage
<1> QED BY <1>1, KeptNext, Invariance, PTL DEF Spec

(***************************************************************************)
(* When every call has returned, none threw and every table was freed, the *)
(* allocator has all pages back but those passed over in a hole (see       *)
(* NoPageLost).                                                            *)
(***************************************************************************)
THEOREM AllPagesReturn ==
  ASSUME OneHoleFrame
  PROVE  Spec => []NoPageLost
<1>1. ASSUME IInv, KInv PROVE NoPageLost
  <2> SUFFICES ASSUME Idle, roots = {}, ~SomeThrew, NEW f \in used
               PROVE  InHole(f)
    BY DEF NoPageLost
  <2>1. f \in Frames /\ owner[f] \notin {Free, Leaked} /\ Kept(f)
    BY <1>1 DEF IInv, TypeOK, UsedOwned, SomeThrew, KInv
  <2>2. ~Known(f) /\ \A t \in Thread : ~HeldBy(t, f)
    BY DEF Known, Idle, Freeing, HeldBy, Holding
  <2>3. \A r, n : ~Pending(r, n) /\ ~AtHand(r, n) /\ ~LeafLeft(r, n)
    BY DEF Pending, AtHand, LeafLeft, Idle
  <2> QED BY <2>1, <2>2, <2>3 DEF Kept, NodeKept, LeafKept
<1> QED BY <1>1, Invariance, EveryPageIsKept, PTL
=============================================================================
