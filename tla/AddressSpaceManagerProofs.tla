--------------------- MODULE AddressSpaceManagerProofs ---------------------
(***************************************************************************)
(* AddressSpaceInvariant!IInv is an invariant of AddressSpaceManager for   *)
(* any number of threads, frames and pages, and what follows from it.      *)
(***************************************************************************)
EXTENDS AddressSpaceInvariant, TLAPS

(***************************************************************************)
(* A page number is its two indices: va_vpn at level 1 and at level 0.     *)
(***************************************************************************)
LEMMA IndexOfVpn ==
  ASSUME NEW v \in Vpn
  PROVE  Hi(v) \in Index /\ Lo(v) \in Index
<1>1. Fanout \in Nat /\ Fanout > 0 /\ v \in Nat /\ v < Fanout * Fanout
  BY ConstAssumption, SMT DEF Vpn, Pfn
<1>2. Lo(v) \in Index
  BY <1>1, SMT DEF Lo, Index
<1>3. v \div Fanout \in Int /\ v = Fanout * (v \div Fanout) + (v % Fanout)
  BY <1>1, SMT
<1>4. v \div Fanout >= 0
  BY <1>1, SMT
<1>5. v \div Fanout < Fanout
  BY <1>1, <1>2, <1>3, SMT DEF Lo, Index
<1> QED BY <1>1, <1>2, <1>3, <1>4, <1>5, SMT DEF Hi, Index

LEMMA VpnByIndex ==
  ASSUME NEW v \in Vpn, NEW w \in Vpn, Hi(v) = Hi(w), Lo(v) = Lo(w)
  PROVE  v = w
<1>1. Fanout \in Nat /\ Fanout > 0 /\ v \in Nat /\ w \in Nat
  BY ConstAssumption, SMT DEF Vpn, Pfn
<1>2. v = Fanout * (v \div Fanout) + (v % Fanout) /\ w = Fanout * (w \div Fanout) + (w % Fanout)
  BY <1>1, SMT
<1> QED BY <1>1, <1>2 DEF Hi, Lo

LEMMA VpnOfIndex ==
  ASSUME NEW i \in Index, NEW j \in Index
  PROVE  \E v \in Vpn : Hi(v) = i /\ Lo(v) = j
<1> DEFINE v == Fanout * i + j
<1>1. Fanout \in Nat /\ Fanout > 0 /\ i \in Nat /\ j \in Nat /\ i <= Fanout - 1 /\ j < Fanout
  BY ConstAssumption, SMT DEF Index
<1>2. Fanout * i \in Nat /\ Fanout * i <= Fanout * (Fanout - 1)
  BY <1>1, SMT
<1>3. v \in Vpn
  BY <1>1, <1>2, SMT DEF Vpn, Pfn
<1>4. v \div Fanout = i /\ v % Fanout = j
  BY <1>1, SMT
<1> QED BY <1>3, <1>4 DEF Hi, Lo

(***************************************************************************)
(* The kinds of owner are apart, and an owner names one thread or place.   *)
(***************************************************************************)
LEMMA Owners ==
  /\ Free # Skipped /\ Free # Leaked /\ Free # Root /\ Skipped # Root
  /\ \A t : Held(t) \notin {Free, Skipped, Leaked, Root}
  /\ \A r, i : Node(r, i) \notin {Free, Skipped, Leaked, Root}
  /\ \A r, v : Leaf(r, v) \notin {Free, Skipped, Leaked, Root}
  /\ \A t, r, i : Held(t) # Node(r, i) /\ Held(t) # Leaf(r, i)
  /\ \A r, i, s, v : Node(r, i) # Leaf(s, v)
  /\ \A t, u : Held(t) = Held(u) => t = u
  /\ \A r, i, s, j : Node(r, i) = Node(s, j) => r = s /\ i = j
  /\ \A r, v, s, w : Leaf(r, v) = Leaf(s, w) => r = s /\ v = w
BY DEF Own, Free, Skipped, Leaked, Root, Held, Node, Leaf

(***************************************************************************)
(* The locals of a thread, and their updates, have the types of TypeOK.    *)
(***************************************************************************)
LEMMA Typed ==
  ASSUME TypeOK, NEW t \in Thread
  PROVE  /\ job[t] \in Job /\ job[t].root \in Frames \cup {0}
         /\ job[t].vpn \in Vpn /\ job[t].left \in 0 .. MaxPages + 1
         /\ todo[t] \in Todo /\ todo[t].nodes \subseteq Frames
         /\ todo[t].node \in Frames \cup {0} /\ todo[t].leaves \subseteq Pfn \cup {Unmapped}
         /\ frame[t] \in Pfn \cup {Unmapped}
<1>1. job[t] \in Job /\ todo[t] \in Todo /\ frame[t] \in Pfn \cup {Unmapped}
  BY DEF TypeOK
<1> QED BY <1>1 DEF Job, Todo

LEMMA JobUpdate ==
  ASSUME NEW j \in Job
  PROVE  /\ \A n \in 0 .. MaxPages + 1 : [j EXCEPT !.left = n] \in Job
         /\ \A w \in Pfn \cup {Unmapped} : [j EXCEPT !.was = w] \in Job
         /\ \A v \in Vpn, n \in 0 .. MaxPages + 1 : [j EXCEPT !.vpn = v, !.left = n] \in Job
BY DEF Job

LEMMA TodoUpdate ==
  ASSUME NEW d \in Todo
  PROVE  /\ \A n \in Frames \cup {0} : [d EXCEPT !.node = n] \in Todo
         /\ \A N \in SUBSET Frames : [d EXCEPT !.nodes = N] \in Todo
         /\ \A L \in SUBSET (Pfn \cup {Unmapped}) : [d EXCEPT !.leaves = L] \in Todo
BY DEF Todo

LEMMA NothingTyped ==
  NoJob \in Job /\ NoTodo \in Todo /\ 0 \in Pfn \cup {Unmapped} /\ 0 \in 0 .. MaxPages + 1
<1>1. Fanout \in Nat /\ Fanout > 0 /\ MaxPages \in Nat
  BY ConstAssumption
<1>2. 0 \in Pfn
  BY <1>1, SMT DEF Pfn
<1> QED BY <1>1, <1>2 DEF NoJob, NoTodo, Job, Todo, Vpn

LEMMA FramesTyped == Frames \subseteq Pfn /\ 0 \notin Frames /\ Unmapped \notin Pfn
BY ConstAssumption, SMT DEF Frames, Pfn, Unmapped

----------------------------------------------------------------------------
(* What a step leaves alone.                                               *)

\* The step changes no frame that table r is made of or maps.
Undisturbed(r) ==
  /\ mem'[r] = mem[r] /\ owner'[r] = owner[r]
  /\ \A n \in Frames : \A i \in Index :
       owner[n] = Node(r, i) => owner'[n] = owner[n] /\ mem'[n] = mem[n]
  /\ \A f \in Frames : \A v \in Vpn : owner[f] = Leaf(r, v) => owner'[f] = owner[f]

\* The step is not one of thread u.
Same(u) ==
  /\ pc'[u] = pc[u] /\ job'[u] = job[u]
  /\ frame'[u] = frame[u] /\ todo'[u] = todo[u]

(***************************************************************************)
(* A table of which no frame changes stays as it should be.                *)
(***************************************************************************)
LEMMA TableStays ==
  ASSUME NEW r, TableOK(r), Undisturbed(r)
  PROVE  TableOK(r)'
<1> SUFFICES ASSUME NEW v \in Vpn, mem[r][Hi(v)] # Unmapped
             PROVE  NodeOK(r, v, mem[r][Hi(v)])'
  BY DEF TableOK, Undisturbed
<1> DEFINE n == mem[r][Hi(v)]
<1>1. n' = n
  BY DEF Undisturbed
<1>2. NodeOK(r, v, n) /\ Hi(v) \in Index
  BY IndexOfVpn DEF TableOK
<1>3. owner'[n] = owner[n] /\ mem'[n] = mem[n]
  BY <1>2 DEF Undisturbed, NodeOK
<1>4. LeafOK(r, v, mem[n][Lo(v)])'
  BY <1>1, <1>2, <1>3 DEF NodeOK, LeafOK, Undisturbed
<1> QED BY <1>1, <1>2, <1>3, <1>4 DEF NodeOK

(***************************************************************************)
(* A free in progress is not disturbed by a step that leaves its table     *)
(* alone.                                                                  *)
(***************************************************************************)
LEMMA FreeStays ==
  ASSUME TypeOK, NEW u \in Thread, Same(u), pc[u] \in Freeing,
         Undisturbed(job[u].root), FreeBegins(u), NodesLeft(u), NodeAtHand(u)
  PROVE  FreeBegins(u)' /\ NodesLeft(u)' /\ NodeAtHand(u)'
<1> DEFINE r == job[u].root
<1>0. r' = r /\ Undisturbed(r)
  BY DEF Same
<1>1. FreeBegins(u)'
  <2>1. CASE pc[u] = "free"
    BY <2>1, <1>0, TableStays DEF FreeBegins, Same
  <2>2. CASE pc[u] = "free0"
    BY <2>2 DEF FreeBegins, Same
  <2> QED BY <2>1, <2>2 DEF Freeing
<1>2. NodesLeft(u)'
  <2> SUFFICES ASSUME pc[u] = "free0"
               PROVE  NodesLeft(u)'
    BY DEF NodesLeft, Same
  <2>1. todo'[u].nodes \subseteq Mapped(mem[r])' \ {todo'[u].node}
    BY <1>0 DEF NodesLeft, Same, Mapped, Undisturbed
  <2>2. ASSUME NEW v \in Vpn, mem[r][Hi(v)] \in todo[u].nodes
        PROVE  NodeOK(r, v, mem[r][Hi(v)])'
    <3> DEFINE n == mem[r][Hi(v)]
    <3>1. NodeOK(r, v, n) /\ Hi(v) \in Index
      BY <2>2, IndexOfVpn DEF NodesLeft
    <3>2. n' = n /\ owner'[n] = owner[n] /\ mem'[n] = mem[n]
      BY <1>0, <3>1 DEF Undisturbed, NodeOK
    <3>3. LeafOK(r, v, mem[n][Lo(v)])'
      BY <1>0, <3>1, <3>2 DEF NodeOK, LeafOK, Undisturbed
    <3> QED BY <1>0, <3>1, <3>2, <3>3 DEF NodeOK
  <2> QED BY <1>0, <2>1, <2>2 DEF NodesLeft, Same, Undisturbed
<1>3. NodeAtHand(u)'
  <2> SUFFICES ASSUME pc[u] = "free0", todo[u].node # 0
               PROVE  NodeAtHand(u)'
    BY DEF NodeAtHand, Same
  <2>1. PICK i \in Index : /\ todo[u].node \in Frames
                           /\ owner[todo[u].node] = Node(r, i)
                           /\ mem[r][i] = todo[u].node
                           /\ LeavesLeft(u, i)
    BY DEF NodeAtHand
  <2>2. LeavesLeft(u, i)'
    BY <1>0, <2>1 DEF LeavesLeft, Undisturbed, Same
  <2> QED BY <1>0, <2>1, <2>2 DEF NodeAtHand, Undisturbed, Same
<1> QED BY <1>1, <1>2, <1>3

(***************************************************************************)
(* A step of one thread keeps the invariant of another one if it leaves    *)
(* alone the table it works on, the frame it holds and the mutex it has.   *)
(***************************************************************************)
LEMMA OtherThread ==
  ASSUME TypeOK, NEW t \in Thread, NEW u \in Thread \ {t}, ThreadOK(u),
         \A w \in Thread \ {t} : Same(w),
         pc[u] \in Using => job[u].root \in roots',
         pc[u] \in InTransaction => lock' = u /\ LeafNode(u)' = LeafNode(u),
         pc[u] = "walk0" => LeafNode(u)' = LeafNode(u),
         Holding(u) => owner'[frame[u]] = owner[frame[u]],
         pc[u] \in Freeing =>
           /\ job[u].root \notin roots'
           /\ Undisturbed(job[u].root)
           /\ pc'[t] \in Freeing => job'[t].root # job[u].root
  PROVE  ThreadOK(u)'
<1>0. Same(u)
  OBVIOUS
<1>1. Transaction(u)'
  BY <1>0 DEF ThreadOK, Transaction, Same, InTransaction
<1>2. JobPages(u)'
  BY <1>0 DEF ThreadOK, JobPages, Same
<1>3. HeldOwned(u)'
  BY <1>0 DEF ThreadOK, HeldOwned, Holding, Same
<1>4. FreedOwned(u)'
  BY <1>0 DEF ThreadOK, FreedOwned, Undisturbed, Same
<1>5. FreeBegins(u)' /\ NodesLeft(u)' /\ NodeAtHand(u)'
  <2>1. CASE pc[u] \in Freeing
    BY <1>0, <2>1, FreeStays DEF ThreadOK
  <2>2. CASE pc[u] \notin Freeing
    BY <1>0, <2>2 DEF ThreadOK, FreeBegins, NodesLeft, NodeAtHand, Freeing, Same
  <2> QED BY <2>1, <2>2
<1> QED BY <1>1, <1>2, <1>3, <1>4, <1>5 DEF ThreadOK

(***************************************************************************)
(* A step that changes only the locals of one thread, and takes or gives   *)
(* back the mutex.                                                         *)
(***************************************************************************)
LEMMA LocalStep ==
  ASSUME IInv, NEW t \in Thread, UNCHANGED <<used, mem, roots, owner>>,
         \A u \in Thread \ {t} : lock = u => lock' = u,
         \A w \in Thread \ {t} : Same(w) /\ again'[w] = again[w],
         TypeOK', again'[t] => again[t], ThreadOK(t)',
         pc'[t] \in Freeing => pc[t] \in Freeing /\ job'[t].root = job[t].root
  PROVE  IInv'
<1>1. UsedOwned' /\ HolesUnused'
  BY DEF IInv, UsedOwned, HolesUnused
<1>2. \A r : Undisturbed(r)
  BY DEF Undisturbed
<1>3. ASSUME NEW r \in roots' PROVE owner'[r] = Root /\ TableOK(r)'
  BY <1>2, <1>3, TableStays DEF IInv
<1>4. ASSUME NEW u \in Thread \ {t} PROVE ThreadOK(u)'
  <2>1. ThreadOK(u) /\ ThreadOK(t) /\ TypeOK
    BY DEF IInv
  <2>2. LeafNode(u)' = LeafNode(u)
    BY DEF LeafNode, Same
  <2>3. pc[u] \in Freeing =>
          /\ job[u].root \notin roots'
          /\ pc'[t] \in Freeing => job'[t].root # job[u].root
    BY <2>1 DEF ThreadOK, FreedOwned
  <2>4. pc[u] \in Using => job[u].root \in roots'
    BY <2>1 DEF ThreadOK, JobPages
  <2>5. pc[u] \in InTransaction => lock' = u
    BY <2>1 DEF ThreadOK, Transaction
  <2> QED BY <1>2, <2>1, <2>2, <2>3, <2>4, <2>5, OtherThread
<1> QED BY <1>1, <1>3, <1>4 DEF IInv

(***************************************************************************)
(* The entry of a mapped page, and the node it is in.                      *)
(***************************************************************************)
LEMMA LeafNodeOK ==
  ASSUME IInv, NEW t \in Thread, pc[t] \in Using, LeafNode(t) # Unmapped
  PROVE  /\ LeafNode(t) \in Frames
         /\ owner[LeafNode(t)] = Node(job[t].root, Hi(job[t].vpn))
         /\ LeafOK(job[t].root, job[t].vpn, mem[LeafNode(t)][Lo(job[t].vpn)])
<1>1. job[t].root \in roots /\ job[t].vpn \in Vpn
  BY Typed DEF IInv, ThreadOK, JobPages
<1> QED BY <1>1 DEF IInv, TableOK, NodeOK, LeafNode

LEMMA WalkTopInv ==
  ASSUME IInv, NEW t \in Thread, WalkTop(t)
  PROVE  IInv'
<1>1. /\ pc[t] = "walk" /\ UNCHANGED shared /\ UNCHANGED <<again, calls>>
      /\ TypeOK /\ ThreadOK(t)
  BY DEF WalkTop, IInv
<1>2. todo[t].nodes = {} /\ todo[t].leaves = {} /\ todo[t].node = 0
  BY <1>1 DEF ThreadOK, FreeBegins
<1>3. /\ TypeOK' /\ ThreadOK(t)'
      /\ \A w \in Thread \ {t} : Same(w)
      /\ pc'[t] \notin Freeing
  <2>1. CASE LeafNode(t) = Unmapped /\ Fault(t) /\ UNCHANGED todo
    <3>1. TypeOK'
      <4>1. [job[t] EXCEPT !.left = 0] \in Job
        BY <1>1, Typed, JobUpdate, NothingTyped
      <4>2. job' \in [Thread -> Job]
        BY <1>1, <2>1, <4>1 DEF TypeOK, Fault
      <4> QED BY <1>1, <2>1, <4>2 DEF TypeOK, Fault, Goto, Pcs, shared
    <3>2. pc'[t] \in {"leaf", "result"} /\ \A w \in Thread \ {t} : Same(w)
      BY <1>1, <2>1 DEF TypeOK, Fault, Goto, Same
    <3>3. /\ job'[t].root = job[t].root /\ job'[t].vpn = job[t].vpn /\ job'[t].op = job[t].op
          /\ job'[t].left \in {0, job[t].left} /\ (job'[t].left = 0 => job[t].op # "identity" \/ job[t].left = 0)
          /\ todo'[t].nodes = {} /\ todo'[t].leaves = {} /\ todo'[t].node = 0
      <4>1. job'[t] \in {job[t], [job[t] EXCEPT !.left = 0]}
        BY <1>1, <2>1 DEF TypeOK, Fault
      <4>2. job[t].op = "identity" => job'[t] = job[t]
        BY <1>1, <2>1 DEF TypeOK, Fault
      <4>3. todo'[t] = todo[t]
        BY <2>1
      <4> QED BY <1>1, <1>2, <4>1, <4>2, <4>3, Typed DEF Job
    <3>4. JobPages(t)'
      BY <1>1, <3>2, <3>3 DEF ThreadOK, JobPages, Using, shared
    <3>5. ThreadOK(t)'
      BY <3>2, <3>3, <3>4 DEF ThreadOK, Transaction, InTransaction, HeldOwned, Holding,
         FreedOwned, Freeing, FreeBegins, NodesLeft, NodeAtHand
    <3> QED BY <3>1, <3>2, <3>5 DEF Freeing
  <2>2. CASE /\ LeafNode(t) # Unmapped
             /\ todo' = [todo EXCEPT ![t].node = LeafNode(t)]
             /\ Goto(t, "walk0") /\ UNCHANGED <<job, frame>>
    <3>1. LeafNode(t) \in Frames
      BY <1>1, <2>2, LeafNodeOK DEF Using
    <3>2. TypeOK'
      <4>1. [todo[t] EXCEPT !.node = LeafNode(t)] \in Todo
        BY <1>1, <3>1, Typed, TodoUpdate
      <4> QED BY <1>1, <2>2, <4>1 DEF TypeOK, Goto, Pcs, shared
    <3>3. /\ pc'[t] = "walk0" /\ LeafNode(t)' = LeafNode(t)
          /\ todo'[t].node = LeafNode(t) /\ todo'[t].nodes = {} /\ todo'[t].leaves = {}
          /\ job'[t] = job[t] /\ \A w \in Thread \ {t} : Same(w)
      <4>1. todo'[t] = [todo[t] EXCEPT !.node = LeafNode(t)] /\ todo[t] \in Todo
        BY <1>1, <2>2, Typed DEF TypeOK
      <4>2. todo'[t].node = LeafNode(t) /\ todo'[t].nodes = {} /\ todo'[t].leaves = {}
        BY <1>2, <4>1 DEF Todo
      <4> QED BY <1>1, <2>2, <4>2 DEF TypeOK, Goto, Same, LeafNode, shared
    <3>4. ThreadOK(t)'
      BY <1>1, <2>2, <3>3 DEF ThreadOK, Transaction, InTransaction, JobPages, Using, HeldOwned,
         Holding, FreedOwned, Freeing, FreeBegins, NodesLeft, NodeAtHand, shared
    <3> QED BY <3>2, <3>3, <3>4 DEF Freeing
  <2> QED BY <2>1, <2>2 DEF WalkTop
<1> QED BY <1>1, <1>3, LocalStep DEF shared

(***************************************************************************)
(* A call that returns leaves nothing behind.                              *)
(***************************************************************************)
LEMMA Returned ==
  ASSUME TypeOK, NEW t \in Thread, Return(t)
  PROVE  /\ pc' \in [Thread -> Pcs] /\ job' \in [Thread -> Job]
         /\ frame' \in [Thread -> Pfn \cup {Unmapped}]
         /\ again' \in [Thread -> BOOLEAN] /\ todo' \in [Thread -> Todo]
         /\ pc'[t] = "idle" /\ again'[t] = FALSE
         /\ \A w \in Thread \ {t} : Same(w) /\ again'[w] = again[w]
         /\ ThreadOK(t)'
<1>1. pc'[t] = "idle" /\ todo'[t] = NoTodo /\ again'[t] = FALSE
  BY DEF Return, Goto, TypeOK
<1>2. ThreadOK(t)'
  BY <1>1 DEF ThreadOK, Transaction, InTransaction, JobPages, Using, HeldOwned, Holding,
     FreedOwned, Freeing, FreeBegins, NodesLeft, NodeAtHand, NoTodo
<1>3. \A w \in Thread \ {t} : Same(w) /\ again'[w] = again[w]
  BY DEF Return, Goto, TypeOK, Same
<1>4. pc' \in [Thread -> Pcs] /\ again' \in [Thread -> BOOLEAN]
  BY DEF Return, Goto, TypeOK, Pcs
<1>5. job' \in [Thread -> Job] /\ todo' \in [Thread -> Todo]
  BY NothingTyped DEF Return, TypeOK
<1>6. frame' \in [Thread -> Pfn \cup {Unmapped}]
  BY NothingTyped DEF Return, TypeOK
<1> QED BY <1>1, <1>2, <1>3, <1>4, <1>5, <1>6

LEMMA WalkReturnsInv ==
  ASSUME IInv, NEW t \in Thread, WalkReturns(t)
  PROVE  IInv'
<1>1. TypeOK /\ Return(t) /\ UNCHANGED shared /\ UNCHANGED calls
  BY DEF WalkReturns, IInv
<1>2. TypeOK'
  BY <1>1, Returned DEF TypeOK, shared
<1> QED BY <1>1, <1>2, Returned, LocalStep DEF Freeing, shared

LEMMA WalkLeafInv ==
  ASSUME IInv, NEW t \in Thread, WalkLeaf(t)
  PROVE  IInv'
<1> DEFINE pte == mem[LeafNode(t)][Lo(job[t].vpn)]
<1>1. /\ pc[t] = "walk0" /\ UNCHANGED shared /\ UNCHANGED <<again, calls>>
      /\ TypeOK /\ ThreadOK(t) /\ todo' = [todo EXCEPT ![t].node = 0]
  BY DEF WalkLeaf, IInv
<1>2. todo[t].node = LeafNode(t) /\ pte \in Pfn \cup {Unmapped}
  <2>1. todo[t].node = LeafNode(t) /\ LeafNode(t) # Unmapped
    BY <1>1 DEF ThreadOK, Transaction
  <2>2. LeafNode(t) \in Frames
    BY <1>1, <2>1, LeafNodeOK DEF Using
  <2>3. Lo(job[t].vpn) \in Index
    BY <1>1, Typed, IndexOfVpn
  <2> QED BY <1>1, <2>1, <2>2, <2>3 DEF TypeOK
<1>3. todo' \in [Thread -> Todo] /\ todo'[t].node = 0
      /\ todo'[t].nodes = todo[t].nodes /\ todo'[t].leaves = todo[t].leaves
  <2>1. todo[t] \in Todo /\ [todo[t] EXCEPT !.node = 0] \in Todo
    BY <1>1, Typed, TodoUpdate
  <2>2. LET d == [todo[t] EXCEPT !.node = 0] IN
          d.node = 0 /\ d.nodes = todo[t].nodes /\ d.leaves = todo[t].leaves
    BY <2>1 DEF Todo
  <2> QED BY <1>1, <2>1, <2>2 DEF TypeOK
<1>4. \/ Fault(t)
      \/ /\ frame' = [frame EXCEPT ![t] = pte] /\ Goto(t, "result") /\ UNCHANGED job
  BY <1>2 DEF WalkLeaf
<1>5. TypeOK'
  <2>1. [job[t] EXCEPT !.left = 0] \in Job
    BY <1>1, Typed, JobUpdate, NothingTyped
  <2>2. job' \in [Thread -> Job]
    BY <1>1, <1>4, <2>1 DEF TypeOK, Fault
  <2>3. pc' \in [Thread -> Pcs] /\ frame' \in [Thread -> Pfn \cup {Unmapped}]
    BY <1>1, <1>2, <1>4 DEF TypeOK, Fault, Goto, Pcs
  <2> QED BY <1>1, <1>3, <2>2, <2>3 DEF TypeOK, shared
<1>6. pc'[t] \in {"leaf", "result"} /\ \A w \in Thread \ {t} : Same(w)
  BY <1>1, <1>4 DEF TypeOK, Fault, Goto, Same
<1>7. /\ job'[t] \in {job[t], [job[t] EXCEPT !.left = 0]}
      /\ job[t].op = "identity" => job'[t] = job[t]
  BY <1>1, <1>4 DEF TypeOK, Fault
<1>8. todo'[t].nodes = {} /\ todo'[t].leaves = {}
  BY <1>1, <1>3 DEF ThreadOK, FreeBegins
<1>9. JobPages(t)'
  <2>1. job'[t].root = job[t].root /\ job'[t].vpn = job[t].vpn /\ job'[t].op = job[t].op
        /\ job'[t].left \in {0, job[t].left} /\ (job[t].op = "identity" => job'[t] = job[t])
    BY <1>1, <1>7, Typed DEF Job
  <2> QED BY <1>1, <1>6, <2>1 DEF ThreadOK, JobPages, Using, shared
<1>10. ThreadOK(t)'
  BY <1>3, <1>6, <1>8, <1>9 DEF ThreadOK, Transaction, InTransaction, HeldOwned, Holding,
     FreedOwned, Freeing, FreeBegins, NodesLeft, NodeAtHand
<1> QED BY <1>1, <1>5, <1>6, <1>10, LocalStep DEF Freeing, shared

LEMMA BeginMapInv ==
  ASSUME IInv, NEW t \in Thread, BeginMap(t)
  PROVE  IInv'
<1>1. /\ TypeOK /\ ThreadOK(t) /\ pc[t] = "map" /\ lock = NoThread /\ lock' = t
      /\ UNCHANGED <<used, mem, roots, owner>> /\ UNCHANGED <<locals, calls>>
      /\ pc' = [pc EXCEPT ![t] = IF LeafNode(t) = Unmapped THEN "node" ELSE "install"]
  BY DEF BeginMap, Goto, LeafNode, IInv
<1>2. TypeOK'
  BY <1>1 DEF TypeOK, Pcs, locals
<1>3. \A w \in Thread \ {t} : Same(w) /\ again'[w] = again[w]
  BY <1>1 DEF TypeOK, Same, locals
<1>4. /\ pc'[t] = (IF LeafNode(t) = Unmapped THEN "node" ELSE "install")
      /\ LeafNode(t)' = LeafNode(t) /\ again' = again
  BY <1>1 DEF TypeOK, LeafNode, locals
<1>5. ThreadOK(t)'
  BY <1>1, <1>4 DEF ThreadOK, Transaction, InTransaction, JobPages, Using, HeldOwned, Holding,
     FreedOwned, Freeing, FreeBegins, NodesLeft, NodeAtHand, locals
<1>6. \A u \in Thread \ {t} : lock # u
  BY <1>1, ConstAssumption
<1> QED BY <1>1, <1>2, <1>3, <1>4, <1>5, <1>6, LocalStep DEF Freeing

LEMMA ReadTopInv ==
  ASSUME IInv, NEW t \in Thread, ReadTop(t)
  PROVE  IInv'
<1> DEFINE r == job[t].root
           N == Mapped(mem[r])
<1>1. /\ TypeOK /\ ThreadOK(t) /\ pc[t] = "free" /\ UNCHANGED shared
      /\ UNCHANGED <<job, frame, again, calls>>
      /\ todo' = [todo EXCEPT ![t].nodes = N] /\ Goto(t, "free0")
  BY DEF ReadTop, IInv
<1>2. TableOK(r) /\ r \in Frames \ roots /\ owner[r] = Root
  BY <1>1 DEF ThreadOK, FreeBegins, FreedOwned, Freeing
<1>3. N \subseteq Frames
  <2> SUFFICES ASSUME NEW i \in Index, mem[r][i] # Unmapped
               PROVE  mem[r][i] \in Frames
    BY DEF Mapped
  <2>1. PICK v \in Vpn : Hi(v) = i
    BY VpnOfIndex
  <2> QED BY <1>2, <2>1 DEF TableOK, NodeOK
<1>4. /\ todo' \in [Thread -> Todo] /\ todo'[t].nodes = N
      /\ todo'[t].node = 0 /\ todo'[t].leaves = {}
  <2>1. todo[t] \in Todo /\ [todo[t] EXCEPT !.nodes = N] \in Todo
    BY <1>1, <1>3, Typed, TodoUpdate
  <2>2. LET d == [todo[t] EXCEPT !.nodes = N] IN
          d.nodes = N /\ d.node = todo[t].node /\ d.leaves = todo[t].leaves
    BY <2>1 DEF Todo
  <2>3. todo[t].node = 0 /\ todo[t].leaves = {}
    BY <1>1 DEF ThreadOK, FreeBegins
  <2> QED BY <1>1, <2>1, <2>2, <2>3 DEF TypeOK
<1>5. TypeOK'
  BY <1>1, <1>4 DEF TypeOK, Goto, Pcs, shared
<1>6. pc'[t] = "free0" /\ \A w \in Thread \ {t} : Same(w)
  BY <1>1 DEF TypeOK, Goto, Same
<1>7. NodesLeft(t)'
  <2>1. 0 \notin N
    BY <1>3, FramesTyped
  <2>2. \A v \in Vpn : mem[r][Hi(v)] \in N => NodeOK(r, v, mem[r][Hi(v)])
    BY <1>2 DEF TableOK, Mapped
  <2> QED BY <1>1, <1>4, <2>1, <2>2 DEF NodesLeft, NodeOK, LeafOK, shared
<1>8. FreedOwned(t)'
  BY <1>1, <1>6 DEF ThreadOK, FreedOwned, Freeing, Same, shared
<1>9. ThreadOK(t)'
  BY <1>4, <1>6, <1>7, <1>8 DEF ThreadOK, Transaction, InTransaction, JobPages, Using, HeldOwned,
     Holding, FreeBegins, NodeAtHand
<1> QED BY <1>1, <1>5, <1>6, <1>9, LocalStep DEF Freeing, shared

LEMMA ReadNodeInv ==
  ASSUME IInv, NEW t \in Thread, ReadNode(t)
  PROVE  IInv'
<1> DEFINE r == job[t].root
<1>1. /\ TypeOK /\ ThreadOK(t) /\ pc[t] = "free0" /\ todo[t].node = 0
      /\ UNCHANGED shared /\ UNCHANGED <<pc, job, frame, again, calls>>
  BY DEF ReadNode, IInv
<1>2. PICK n \in todo[t].nodes :
        todo' = [todo EXCEPT ![t] = [nodes |-> todo[t].nodes \ {n}, node |-> n,
                                     leaves |-> Mapped(mem[n])]]
  BY DEF ReadNode
<1>3. PICK i \in Index : mem[r][i] = n
  BY <1>1 DEF ThreadOK, NodesLeft, Mapped
<1>4. \A v \in Vpn : Hi(v) = i => NodeOK(r, v, n)
  BY <1>1, <1>3 DEF ThreadOK, NodesLeft
<1>5. n \in Frames /\ n # 0 /\ owner[n] = Node(r, i)
  <2>1. PICK v \in Vpn : Hi(v) = i
    BY VpnOfIndex
  <2> QED BY <1>4, <2>1, FramesTyped DEF NodeOK
<1>6. /\ todo'[t].nodes = todo[t].nodes \ {n} /\ todo'[t].node = n
      /\ todo'[t].leaves = Mapped(mem[n])
  BY <1>1, <1>2 DEF TypeOK
<1>7. TypeOK'
  <2>1. Mapped(mem[n]) \subseteq Pfn \cup {Unmapped} /\ todo[t].nodes \subseteq Frames
    BY <1>1, <1>5, Typed DEF TypeOK, Mapped
  <2>2. [nodes |-> todo[t].nodes \ {n}, node |-> n, leaves |-> Mapped(mem[n])] \in Todo
    BY <1>5, <2>1 DEF Todo
  <2> QED BY <1>1, <1>2, <2>2 DEF TypeOK, shared
<1>8. \A w \in Thread \ {t} : Same(w)
  BY <1>1, <1>2 DEF TypeOK, Same
<1>9. NodesLeft(t)'
  BY <1>1, <1>6 DEF ThreadOK, NodesLeft, NodeOK, LeafOK, shared
<1>10. LeavesLeft(t, i)'
  <2> SUFFICES ASSUME NEW j \in Index, mem[n][j] # Unmapped, mem[n][j] \notin Reserved
               PROVE  /\ mem[n][j] \in Frames
                      /\ \E v \in Vpn : Hi(v) = i /\ owner[mem[n][j]] = Leaf(r, v)
    BY <1>1, <1>6 DEF LeavesLeft, Mapped, shared
  <2>1. PICK v \in Vpn : Hi(v) = i /\ Lo(v) = j
    BY VpnOfIndex
  <2> QED BY <1>4, <2>1 DEF NodeOK, LeafOK
<1>11. NodeAtHand(t)'
  BY <1>1, <1>3, <1>5, <1>6, <1>10 DEF NodeAtHand, shared
<1>12. ThreadOK(t)'
  BY <1>1, <1>8, <1>9, <1>11 DEF ThreadOK, Transaction, InTransaction, JobPages, Using, HeldOwned,
     Holding, FreedOwned, Freeing, FreeBegins, Same, shared
<1> QED BY <1>1, <1>7, <1>8, <1>12, LocalStep DEF Freeing, shared

(***************************************************************************)
(* A call that begins to use a table, or to make one.                      *)
(***************************************************************************)
LEMMA CallInv ==
  ASSUME IInv, NEW t \in Thread, NEW op \in Calling, NEW r \in Frames \cup {0},
         NEW v \in Vpn, NEW n \in 0 .. MaxPages + 1, NEW was \in Pfn \cup {Unmapped},
         NEW p \in {"table", "leaf", "map", "walk"},
         Call(t, op, r, v, n, was, p), UNCHANGED roots,
         p = "map" <=> op = "identity",
         p # "table" => /\ r \in roots /\ n > 0
                        /\ \A k \in 0 .. n - 1 : v + k \in Vpn,
         p = "map" => \A k \in 0 .. n - 1 : v + k \in Reserved
  PROVE  IInv'
<1> DEFINE j == [op |-> op, root |-> r, vpn |-> v, left |-> n, was |-> was]
<1>1. /\ TypeOK /\ ThreadOK(t) /\ pc[t] = "idle" /\ calls < MaxCalls /\ calls' = calls + 1
      /\ job' = [job EXCEPT ![t] = j] /\ pc' = [pc EXCEPT ![t] = p]
      /\ UNCHANGED <<used, mem, roots, lock, owner, frame, again, todo>>
  BY DEF Call, Goto, IInv
<1>2. TypeOK'
  <2>1. j \in Job
    BY DEF Job
  <2>2. calls' \in 0 .. MaxCalls
    BY <1>1, ConstAssumption DEF TypeOK
  <2> QED BY <1>1, <2>1, <2>2 DEF TypeOK, Pcs
<1>3. pc'[t] = p /\ job'[t] = j /\ \A w \in Thread \ {t} : Same(w)
  BY <1>1 DEF TypeOK, Same
<1>4. JobPages(t)'
  BY <1>1, <1>3 DEF JobPages, Using
<1>5. ThreadOK(t)'
  BY <1>1, <1>3, <1>4 DEF ThreadOK, Transaction, InTransaction, HeldOwned, Holding,
     FreedOwned, Freeing, FreeBegins, NodesLeft, NodeAtHand
<1> QED BY <1>1, <1>2, <1>3, <1>5, LocalStep DEF Freeing

LEMMA TranslationTyped ==
  ASSUME TypeOK, NEW r \in Frames, TableOK(r), NEW v \in Vpn
  PROVE  Translation(r, v) \in Pfn \cup {Unmapped}
<1>1. Hi(v) \in Index /\ Lo(v) \in Index
  BY IndexOfVpn
<1>2. mem[r][Hi(v)] # Unmapped => mem[r][Hi(v)] \in Frames
  BY DEF TableOK, NodeOK
<1> QED BY <1>1, <1>2 DEF Translation, TypeOK

(***************************************************************************)
(* A table leaves the clients' reach; nothing uses it.                     *)
(***************************************************************************)
LEMMA FreePageTableInv ==
  ASSUME IInv, NEW t \in Thread, NEW r \in roots, FreePageTable(t, r)
  PROVE  IInv'
<1> DEFINE j == [op |-> "free", root |-> r, vpn |-> 0, left |-> 0, was |-> Unmapped]
<1>1. /\ TypeOK /\ ThreadOK(t) /\ pc[t] = "idle" /\ calls < MaxCalls /\ calls' = calls + 1
      /\ job' = [job EXCEPT ![t] = j] /\ pc' = [pc EXCEPT ![t] = "free"]
      /\ UNCHANGED <<used, mem, lock, owner, frame, again, todo>>
      /\ roots' = roots \ {r} /\ \A u \in Thread : job[u].root # r
  BY DEF FreePageTable, Call, Goto, Busy, IInv
<1>2. r \in Frames /\ owner[r] = Root /\ TableOK(r)
  BY <1>1 DEF IInv, TypeOK
<1>3. TypeOK'
  <2>1. j \in Job
    BY <1>2, NothingTyped DEF Job, Calling, Vpn, NoJob
  <2>2. calls' \in 0 .. MaxCalls
    BY <1>1, ConstAssumption DEF TypeOK
  <2> QED BY <1>1, <2>1, <2>2 DEF TypeOK, Pcs
<1>4. pc'[t] = "free" /\ job'[t] = j /\ \A w \in Thread \ {t} : Same(w)
  BY <1>1 DEF TypeOK, Same
<1>5. \A s : Undisturbed(s)
  BY <1>1 DEF Undisturbed
<1>6. UsedOwned' /\ HolesUnused'
  BY <1>1 DEF IInv, UsedOwned, HolesUnused
<1>7. ASSUME NEW s \in roots' PROVE owner'[s] = Root /\ TableOK(s)'
  BY <1>1, <1>5, <1>7, TableStays DEF IInv
<1>8. ASSUME NEW u \in Thread \ {t} PROVE ThreadOK(u)'
  <2>1. ThreadOK(u)
    BY DEF IInv
  <2>2. LeafNode(u)' = LeafNode(u)
    BY <1>1, <1>4 DEF LeafNode, Same
  <2>3. pc[u] \in Using => job[u].root \in roots'
    BY <1>1, <2>1 DEF ThreadOK, JobPages
  <2>4. pc[u] \in Freeing => job[u].root \notin roots' /\ job'[t].root # job[u].root
    BY <1>1, <1>4, <2>1 DEF ThreadOK, FreedOwned
  <2>5. pc[u] \in InTransaction => lock' = u
    BY <1>1, <2>1 DEF ThreadOK, Transaction
  <2> QED BY <1>1, <1>4, <1>5, <2>1, <2>2, <2>3, <2>4, <2>5, OtherThread
<1>9. FreedOwned(t)'
  <2>1. \A u \in Thread \ {t} : job'[u].root # r
    BY <1>1, <1>4 DEF Same
  <2> QED BY <1>1, <1>2, <1>4, <2>1 DEF FreedOwned
<1>10. FreeBegins(t)'
  BY <1>1, <1>2, <1>4, <1>5, TableStays DEF ThreadOK, FreeBegins
<1>11. ThreadOK(t)'
  BY <1>4, <1>9, <1>10 DEF ThreadOK, Transaction, InTransaction, JobPages, Using,
     HeldOwned, Holding, NodesLeft, NodeAtHand
<1> QED BY <1>3, <1>6, <1>7, <1>8, <1>11 DEF IInv

LEMMA NewCallInv ==
  ASSUME IInv, NEW t \in Thread, NewCall(t)
  PROVE  IInv'
<1>1. TypeOK /\ \A r \in roots : r \in Frames /\ TableOK(r)
  BY DEF IInv, TypeOK
<1>2. UserVpns \subseteq Vpn /\ Reserved \subseteq Vpn /\ MaxPages \in Nat /\ 0 \in Vpn
  BY ConstAssumption, SMT DEF Reserved, Vpn, Pfn
<1>3. CASE AllocatePageTable(t)
  BY <1>2, <1>3, CallInv DEF AllocatePageTable, Calling
<1>4. ASSUME NEW r \in roots, NEW v \in UserVpns, NEW n \in 1 .. MaxPages,
             Run(v, n) \subseteq UserVpns, AllocateVmPages(t, r, v, n)
      PROVE  IInv'
  <2>1. \A k \in 0 .. n - 1 : v + k \in Vpn
    BY <1>2, <1>4 DEF Run, Vpn, Pfn
  <2>2. n \in 0 .. MaxPages + 1 /\ n > 0 /\ r \in Frames /\ v \in Vpn
    BY <1>1, <1>2
  <2> QED BY <1>4, <2>1, <2>2, CallInv DEF AllocateVmPages, Calling
<1>5. ASSUME NEW r \in roots, NEW v \in Reserved, NEW n \in 1 .. MaxPages,
             Run(v, n) \subseteq Reserved, UnsafeMapIdentity(t, r, v, n)
      PROVE  IInv'
  <2>1. v \in Int
    BY DEF Reserved, Pfn
  <2>2. \A k \in 0 .. n - 1 : v + k \in Reserved
    BY <1>5, <2>1 DEF Run
  <2>3. \A k \in 0 .. n - 1 : v + k \in Vpn
    BY <1>2, <2>2
  <2>4. n \in 0 .. MaxPages + 1 /\ n > 0 /\ r \in Frames /\ v \in Vpn
    BY <1>1, <1>2
  <2> QED BY <1>5, <2>2, <2>3, <2>4, CallInv DEF UnsafeMapIdentity, Calling
<1>6. ASSUME NEW r \in roots, NEW v \in UserVpns,
             Translate(t, r, v) \/ TranslateOrElseAllocatePage(t, r, v)
      PROVE  IInv'
  <2>1. r \in Frames /\ v \in Vpn /\ Translation(r, v) \in Pfn \cup {Unmapped}
    BY <1>1, <1>2, TranslationTyped
  <2>2. 1 \in 0 .. MaxPages + 1 /\ \A k \in 0 .. 1 - 1 : v + k \in Vpn
    BY <1>2, <2>1 DEF Vpn, Pfn
  <2> QED BY <1>6, <2>1, <2>2, CallInv DEF Translate, TranslateOrElseAllocatePage, Calling
<1>7. ASSUME NEW r \in roots, FreePageTable(t, r) PROVE IInv'
  BY <1>7, FreePageTableInv
<1> QED BY <1>3, <1>4, <1>5, <1>6, <1>7 DEF NewCall

(***************************************************************************)
(* A step that moves only free frames, and frames that its thread holds.   *)
(***************************************************************************)
LEMMA OwnerStep ==
  ASSUME IInv, NEW t \in Thread, UNCHANGED <<mem, roots>>,
         \A w \in Thread \ {t} : Same(w),
         \A u \in Thread \ {t} : lock = u => lock' = u,
         \A f \in Frames : owner'[f] # owner[f] => owner[f] \in {Free, Held(t)},
         TypeOK', UsedOwned', HolesUnused', ThreadOK(t)', pc'[t] \notin Freeing
  PROVE  IInv'
<1>1. \A r \in Frames : owner[r] = Root => Undisturbed(r)
  BY Owners DEF Undisturbed
<1>2. ASSUME NEW r \in roots' PROVE owner'[r] = Root /\ TableOK(r)'
  <2>1. r \in Frames /\ owner[r] = Root /\ TableOK(r)
    BY DEF IInv, TypeOK
  <2> QED BY <1>1, <2>1, TableStays DEF Undisturbed
<1>3. ASSUME NEW u \in Thread \ {t} PROVE ThreadOK(u)'
  <2>1. ThreadOK(u) /\ TypeOK
    BY DEF IInv
  <2>2. LeafNode(u)' = LeafNode(u)
    BY DEF LeafNode, Same
  <2>3. pc[u] \in Freeing => job[u].root \notin roots' /\ Undisturbed(job[u].root)
    BY <1>1, <2>1 DEF ThreadOK, FreedOwned
  <2>4. pc[u] \in Using => job[u].root \in roots'
    BY <2>1 DEF ThreadOK, JobPages
  <2>5. pc[u] \in InTransaction => lock' = u
    BY <2>1 DEF ThreadOK, Transaction
  <2>6. Holding(u) => owner'[frame[u]] = owner[frame[u]]
    BY <2>1, Owners DEF ThreadOK, HeldOwned
  <2> QED BY <2>1, <2>2, <2>3, <2>4, <2>5, <2>6, OtherThread
<1> QED BY <1>2, <1>3 DEF IInv

LEMMA SkipHoleInv ==
  ASSUME OneHoleFrame, IInv, NEW t \in Thread, SkipHole(t)
  PROVE  IInv'
<1>1. PICK f \in Frames : /\ f \notin used /\ InHole(f)
                         /\ used' = used \cup {f} /\ owner' = [owner EXCEPT ![f] = Skipped]
  BY DEF SkipHole, Pool!Take, Pool!Lowest
<1>2. /\ TypeOK /\ UsedOwned /\ HolesUnused /\ ThreadOK(t) /\ pc[t] \in Allocating
      /\ again' = [again EXCEPT ![t] = TRUE]
      /\ UNCHANGED <<mem, roots, lock, pc, job, frame, todo, calls>>
  BY DEF SkipHole, IInv
<1>3. Skipped \in Kinds \X (Thread \cup Nat) \X Nat
  BY DEF Skipped, Own, Kinds
<1>4. TypeOK'
  BY <1>1, <1>2, <1>3 DEF TypeOK
<1>5. owner[f] = Free
  BY <1>1, <1>2 DEF UsedOwned
<1>6. \A g \in Frames : owner'[g] = IF g = f THEN Skipped ELSE owner[g]
  BY <1>1, <1>2 DEF TypeOK
<1>7. UsedOwned'
  BY <1>1, <1>2, <1>6, Owners DEF UsedOwned
<1>8. HolesUnused'
  <2>1. \A g \in Frames : InHole(g) => g = f
    BY <1>1 DEF OneHoleFrame
  <2> QED BY <1>1, <1>2, <1>6, <2>1 DEF HolesUnused
<1>9. ThreadOK(t)'
  <2>1. HeldOwned(t)'
    BY <1>2, <1>5, <1>6, Owners DEF ThreadOK, HeldOwned, Holding
  <2> QED BY <1>2, <2>1 DEF ThreadOK, Transaction, LeafNode, JobPages, Allocating,
             FreedOwned, Freeing, FreeBegins, NodesLeft, NodeAtHand
<1>10. pc'[t] \notin Freeing /\ \A w \in Thread \ {t} : Same(w)
  BY <1>2 DEF Allocating, Freeing, Same
<1> QED BY <1>2, <1>4, <1>5, <1>6, <1>7, <1>8, <1>9, <1>10, OwnerStep

LEMMA TakePageInv ==
  ASSUME IInv, NEW t \in Thread, TakePage(t)
  PROVE  IInv'
<1>1. PICK f \in Frames : /\ f \notin used /\ (InHole(f) => again[t])
                         /\ used' = used \cup {f} /\ owner' = [owner EXCEPT ![f] = Held(t)]
                         /\ frame' = [frame EXCEPT ![t] = f]
  BY DEF TakePage, TakeFrame, Pool!Take, Pool!Lowest
<1>2. /\ TypeOK /\ UsedOwned /\ HolesUnused /\ ThreadOK(t)
      /\ pc[t] \in {"table", "leaf"} /\ again' = [again EXCEPT ![t] = FALSE]
      /\ pc' = [pc EXCEPT ![t] = IF pc[t] = "table" THEN "zero" ELSE "map"]
      /\ UNCHANGED <<mem, roots, lock, job, todo, calls>>
  BY DEF TakePage, Goto, IInv
<1>3. Held(t) \in Kinds \X (Thread \cup Nat) \X Nat
  BY DEF Held, Own, Kinds
<1>4. TypeOK'
  BY <1>1, <1>2, <1>3, FramesTyped DEF TypeOK, Pcs
<1>5. owner[f] = Free /\ ~InHole(f)
  BY <1>1, <1>2 DEF UsedOwned, HolesUnused
<1>6. /\ \A g \in Frames : owner'[g] = IF g = f THEN Held(t) ELSE owner[g]
      /\ frame'[t] = f /\ again'[t] = FALSE
      /\ pc'[t] = IF pc[t] = "table" THEN "zero" ELSE "map"
      /\ \A w \in Thread \ {t} : Same(w) /\ again'[w] = again[w]
  BY <1>1, <1>2 DEF TypeOK, Same
<1>7. UsedOwned'
  BY <1>1, <1>2, <1>6, Owners DEF UsedOwned
<1>8. HolesUnused'
  BY <1>1, <1>2, <1>5, <1>6 DEF HolesUnused
<1>9. ThreadOK(t)'
  <2>1. HeldOwned(t)'
    BY <1>6 DEF HeldOwned
  <2> QED BY <1>2, <1>6, <2>1 DEF ThreadOK, Transaction, InTransaction, LeafNode, JobPages, Using,
             FreedOwned, Freeing, FreeBegins, NodesLeft, NodeAtHand
<1>10. pc'[t] \notin Freeing
  BY <1>6 DEF Freeing
<1> QED BY <1>2, <1>4, <1>5, <1>6, <1>7, <1>8, <1>9, <1>10, OwnerStep

(***************************************************************************)
(* A call that throws: its page is lost, the mutex is given back.          *)
(***************************************************************************)
LEMMA ThrowInv ==
  ASSUME IInv, NEW t \in Thread, owner' = Abandoned(t), Return(t),
         UNCHANGED <<used, mem, roots, calls>>,
         lock' \in Thread \cup {NoThread},
         \A u \in Thread \ {t} : lock = u => lock' = u
  PROVE  IInv'
<1>1. TypeOK /\ UsedOwned /\ HolesUnused
  BY DEF IInv
<1>2. \A f \in Frames : owner'[f] = IF owner[f] = Held(t) THEN Leaked ELSE owner[f]
  BY DEF Abandoned
<1>3. owner' \in [Frames -> Kinds \X (Thread \cup Nat) \X Nat]
  <2>1. Leaked \in Kinds \X (Thread \cup Nat) \X Nat
    BY DEF Leaked, Own, Kinds
  <2> QED BY <1>1, <2>1 DEF Abandoned, TypeOK
<1>4. TypeOK'
  BY <1>1, <1>3, Returned DEF TypeOK
<1>5. UsedOwned'
  BY <1>1, <1>2, Owners DEF UsedOwned
<1>6. HolesUnused'
  <2>1. \A f \in Frames : InHole(f) => owner'[f] \in {Free, Skipped}
    BY <1>1, <1>2, Owners DEF HolesUnused
  <2>2. \A u \in Thread : again'[u] => again[u]
    BY <1>1, Returned
  <2> QED BY <1>1, <2>1, <2>2 DEF HolesUnused, InHole
<1> QED BY <1>1, <1>2, <1>4, <1>5, <1>6, Returned, OwnerStep DEF Freeing

LEMMA OutOfPagesInv ==
  ASSUME IInv, NEW t \in Thread, OutOfPages(t)
  PROVE  IInv'
<1>1. pc[t] = "node" => lock = t
  BY DEF IInv, ThreadOK, Transaction, InTransaction
<1> QED BY <1>1, ThrowInv DEF OutOfPages, IInv, TypeOK

LEMMA AlreadyMappedInv ==
  ASSUME IInv, NEW t \in Thread, AlreadyMapped(t)
  PROVE  IInv'
<1>1. lock = t
  BY DEF AlreadyMapped, IInv, ThreadOK, Transaction, InTransaction
<1> QED BY <1>1, ThrowInv DEF AlreadyMapped, IInv, TypeOK

(***************************************************************************)
(* A zeroed page becomes the root of an empty table.                       *)
(***************************************************************************)
LEMMA ZeroTableInv ==
  ASSUME IInv, NEW t \in Thread, ZeroTable(t)
  PROVE  IInv'
<1> DEFINE g == frame[t]
<1>1. /\ TypeOK /\ UsedOwned /\ HolesUnused /\ ThreadOK(t) /\ Return(t)
      /\ mem' = [mem EXCEPT ![g] = [i \in Index |-> Unmapped]]
      /\ roots' = roots \cup {g} /\ owner' = [owner EXCEPT ![g] = Root]
      /\ UNCHANGED <<used, lock, calls>>
  BY DEF ZeroTable, IInv
<1>2. g \in Frames /\ owner[g] = Held(t)
  BY DEF ZeroTable, IInv, ThreadOK, HeldOwned, Holding
<1>3. /\ \A f \in Frames : owner'[f] = IF f = g THEN Root ELSE owner[f]
      /\ \A f \in Frames : f # g => mem'[f] = mem[f]
      /\ \A i \in Index : mem'[g][i] = Unmapped
  BY <1>1, <1>2 DEF TypeOK
<1>4. TypeOK'
  <2>1. Root \in Kinds \X (Thread \cup Nat) \X Nat
    BY DEF Root, Own, Kinds
  <2>2. [i \in Index |-> Unmapped] \in [Index -> Pfn \cup {Unmapped}]
    OBVIOUS
  <2> QED BY <1>1, <1>2, <2>1, <2>2, Returned DEF TypeOK
<1>5. UsedOwned' /\ HolesUnused'
  <2>1. ~InHole(g) /\ g \in used
    BY <1>1, <1>2, Owners DEF UsedOwned, HolesUnused
  <2>2. UsedOwned'
    BY <1>1, <1>3, <2>1, Owners DEF UsedOwned
  <2>3. \A f \in Frames : InHole(f) => owner'[f] \in {Free, Skipped}
    BY <1>1, <1>3, <2>1 DEF HolesUnused
  <2>4. \A u \in Thread : again'[u] => again[u]
    BY <1>1, Returned
  <2> QED BY <1>1, <2>2, <2>3, <2>4 DEF HolesUnused, InHole
<1>6. \A r \in Frames : owner[r] = Root => Undisturbed(r)
  BY <1>2, <1>3, Owners DEF Undisturbed
<1>7. ASSUME NEW r \in roots' PROVE owner'[r] = Root /\ TableOK(r)'
  <2>1. CASE r = g
    BY <1>2, <1>3, <2>1, IndexOfVpn DEF TableOK
  <2>2. CASE r \in roots
    <3>1. r \in Frames /\ owner[r] = Root /\ TableOK(r)
      BY <2>2 DEF IInv, TypeOK
    <3> QED BY <1>6, <3>1, TableStays DEF Undisturbed
  <2> QED BY <1>1, <1>7, <2>1, <2>2
<1>8. ASSUME NEW u \in Thread \ {t} PROVE ThreadOK(u)'
  <2>1. ThreadOK(u) /\ Same(u)
    BY <1>1, Returned DEF IInv
  <2>2. pc[u] \in Using => LeafNode(u)' = LeafNode(u) /\ job[u].root \in roots'
    <3> SUFFICES ASSUME job[u].root \in roots
                 PROVE  LeafNode(u)' = LeafNode(u) /\ job[u].root \in roots'
      BY <2>1 DEF ThreadOK, JobPages
    <3>1. job[u].root \in Frames /\ owner[job[u].root] = Root
      BY DEF IInv, TypeOK
    <3> QED BY <1>1, <1>6, <2>1, <3>1 DEF LeafNode, Undisturbed, Same
  <2>3. pc[u] \in Freeing => job[u].root \notin roots' /\ Undisturbed(job[u].root)
    BY <1>1, <1>2, <1>6, <2>1, Owners DEF ThreadOK, FreedOwned
  <2>4. Holding(u) => owner'[frame[u]] = owner[frame[u]]
    BY <1>2, <1>3, <2>1, Owners DEF ThreadOK, HeldOwned
  <2>5. pc[u] \in InTransaction => lock' = u
    BY <1>1, <2>1 DEF ThreadOK, Transaction
  <2>6. pc'[t] \notin Freeing
    BY <1>1, Returned DEF Freeing
  <2> QED BY <1>1, <2>1, <2>2, <2>3, <2>4, <2>5, <2>6, Returned, OtherThread
          DEF InTransaction, Using
<1> QED BY <1>1, <1>4, <1>5, <1>7, <1>8, Returned DEF IInv

(***************************************************************************)
(* A zeroed page becomes a node, at an entry that was empty; no other      *)
(* thread can see that entry while the mutex is held.                      *)
(***************************************************************************)
LEMMA TakeNodeInv ==
  ASSUME IInv, NEW t \in Thread, TakeNode(t)
  PROVE  IInv'
<1>0. PICK r \in roots, h \in Index : r = job[t].root /\ h = Hi(job[t].vpn)
  BY Typed, IndexOfVpn DEF TakeNode, IInv, ThreadOK, JobPages, Using
<1>1. PICK f \in Frames : /\ f \notin used /\ (InHole(f) => again[t])
                         /\ used' = used \cup {f} /\ owner' = [owner EXCEPT ![f] = Node(r, h)]
                         /\ mem' = Linked(r, h, f)
  BY <1>0 DEF TakeNode, TakeFrame, Pool!Take, Pool!Lowest
<1>2. /\ TypeOK /\ UsedOwned /\ HolesUnused /\ ThreadOK(t) /\ pc[t] = "node"
      /\ again' = [again EXCEPT ![t] = FALSE] /\ pc' = [pc EXCEPT ![t] = "install"]
      /\ UNCHANGED <<roots, lock, job, frame, todo, calls>>
  BY DEF TakeNode, Goto, IInv
<1>3. owner[f] = Free /\ ~InHole(f)
  BY <1>1, <1>2 DEF UsedOwned, HolesUnused
<1>4. /\ r \in roots /\ r \in Frames /\ owner[r] = Root /\ TableOK(r) /\ r # f
      /\ mem[r][h] = Unmapped /\ lock = t
  <2>1. r \in roots /\ mem[r][h] = Unmapped /\ lock = t
    BY <1>0, <1>2 DEF ThreadOK, JobPages, Using, Transaction, InTransaction, LeafNode
  <2> QED BY <1>3, <2>1, Owners DEF IInv, TypeOK
<1>5. h \in Index
  OBVIOUS
<1>6. /\ \A g \in Frames : owner'[g] = IF g = f THEN Node(r, h) ELSE owner[g]
      /\ mem'[f] = [i \in Index |-> Unmapped] /\ mem'[r] = [mem[r] EXCEPT ![h] = f]
      /\ \A g \in Frames : g # f /\ g # r => mem'[g] = mem[g]
      /\ mem' \in [Frames -> [Index -> Pfn \cup {Unmapped}]]
  <2>1. [i \in Index |-> Unmapped] \in [Index -> Pfn \cup {Unmapped}]
    OBVIOUS
  <2>2. [mem[r] EXCEPT ![h] = f] \in [Index -> Pfn \cup {Unmapped}]
    BY <1>2, <1>4, FramesTyped DEF TypeOK
  <2> QED BY <1>1, <1>2, <1>4, <2>1, <2>2 DEF TypeOK, Linked
<1>7. /\ pc'[t] = "install" /\ again'[t] = FALSE
      /\ \A w \in Thread \ {t} : Same(w) /\ again'[w] = again[w]
  BY <1>2 DEF TypeOK, Same
<1>8. TypeOK'
  <2>1. Node(r, h) \in Kinds \X (Thread \cup Nat) \X Nat
    BY <1>4, <1>5, ConstAssumption DEF Node, Own, Kinds, Frames, Index
  <2> QED BY <1>1, <1>2, <1>6, <2>1 DEF TypeOK, Pcs
<1>9. UsedOwned' /\ HolesUnused'
  BY <1>1, <1>2, <1>3, <1>6, <1>7, Owners DEF UsedOwned, HolesUnused
<1>10. \A s \in Frames : owner[s] = Root /\ s # r => Undisturbed(s)
  BY <1>3, <1>4, <1>6, Owners DEF Undisturbed
<1>11. TableOK(r)'
  <2> SUFFICES ASSUME NEW v \in Vpn, mem'[r][Hi(v)] # Unmapped
               PROVE  NodeOK(r, v, mem[r][Hi(v)])'
    BY <1>2 DEF TableOK
  <2>1. Hi(v) \in Index /\ Lo(v) \in Index
    BY IndexOfVpn
  <2>2. CASE Hi(v) = h
    <3>1. mem'[r][Hi(v)] = f /\ mem'[f][Lo(v)] = Unmapped /\ owner'[f] = Node(r, h)
      BY <1>2, <1>4, <1>6, <2>1, <2>2 DEF TypeOK
    <3> QED BY <2>2, <3>1 DEF NodeOK, LeafOK
  <2>3. CASE Hi(v) # h
    <3>1. mem'[r][Hi(v)] = mem[r][Hi(v)]
      BY <1>2, <1>4, <1>6, <2>1, <2>3 DEF TypeOK
    <3>2. NodeOK(r, v, mem[r][Hi(v)])
      BY <1>4, <3>1 DEF TableOK
    <3>3. mem[r][Hi(v)] \notin {f, r}
      BY <1>3, <1>4, <3>2, Owners DEF NodeOK
    <3>4. \A g \in Frames : owner[g] = Leaf(r, v) => owner'[g] = owner[g]
      BY <1>3, <1>6, Owners
    <3> QED BY <1>2, <1>6, <3>1, <3>2, <3>3, <3>4 DEF NodeOK, LeafOK
  <2> QED BY <2>2, <2>3
<1>12. ASSUME NEW s \in roots' PROVE owner'[s] = Root /\ TableOK(s)'
  <2>1. s \in Frames /\ owner[s] = Root /\ TableOK(s)
    BY <1>2 DEF IInv, TypeOK
  <2>2. CASE s = r
    BY <1>4, <1>6, <1>11, <2>2
  <2>3. CASE s # r
    BY <1>10, <2>1, <2>3, TableStays DEF Undisturbed
  <2> QED BY <2>2, <2>3
<1>13. ASSUME NEW u \in Thread \ {t} PROVE ThreadOK(u)'
  <2>1. ThreadOK(u) /\ Same(u)
    BY <1>7 DEF IInv
  <2>2. pc[u] \notin InTransaction
    BY <1>4, <2>1 DEF ThreadOK, Transaction
  <2>3. ASSUME pc[u] = "walk0" PROVE LeafNode(u)' = LeafNode(u)
    <3>1. /\ job[u].root \in roots /\ job[u].root \in Frames /\ owner[job[u].root] = Root
          /\ LeafNode(u) # Unmapped /\ Hi(job[u].vpn) \in Index
      BY <1>2, <2>1, <2>3, Typed, IndexOfVpn DEF IInv, TypeOK, ThreadOK, JobPages, Using, Transaction
    <3>2. CASE job[u].root = r
      <4>1. mem[r][Hi(job[u].vpn)] # Unmapped /\ Hi(job[u].vpn) # h
        BY <1>4, <3>1, <3>2 DEF LeafNode
      <4>2. mem'[r][Hi(job[u].vpn)] = mem[r][Hi(job[u].vpn)]
        BY <1>2, <1>4, <1>6, <3>1, <4>1 DEF TypeOK
      <4> QED BY <2>1, <3>2, <4>2 DEF LeafNode, Same
    <3>3. CASE job[u].root # r
      BY <1>10, <2>1, <3>1, <3>3 DEF LeafNode, Same, Undisturbed
    <3> QED BY <3>2, <3>3
  <2>4. pc[u] \in Using => job[u].root \in roots'
    BY <1>2, <2>1 DEF ThreadOK, JobPages
  <2>5. pc[u] \in Freeing => job[u].root \notin roots' /\ Undisturbed(job[u].root)
    BY <1>2, <1>4, <1>10, <2>1 DEF ThreadOK, FreedOwned
  <2>6. Holding(u) => owner'[frame[u]] = owner[frame[u]]
    BY <1>3, <1>6, <2>1, Owners DEF ThreadOK, HeldOwned
  <2>7. pc'[t] \notin Freeing
    BY <1>7 DEF Freeing
  <2> QED BY <1>2, <1>7, <2>1, <2>2, <2>3, <2>4, <2>5, <2>6, <2>7, OtherThread
<1>14. ThreadOK(t)'
  <2>1. LeafNode(t)' = f /\ f # Unmapped
    BY <1>0, <1>2, <1>4, <1>5, <1>6, FramesTyped DEF LeafNode, TypeOK
  <2>2. Transaction(t)'
    BY <1>2, <1>4, <1>7, <2>1 DEF Transaction, InTransaction
  <2>3. HeldOwned(t)'
    BY <1>2, <1>3, <1>6, <1>7, Owners DEF ThreadOK, HeldOwned, Holding
  <2> QED BY <1>2, <1>7, <2>2, <2>3 DEF ThreadOK, JobPages, Using, FreedOwned, Freeing,
             FreeBegins, NodesLeft, NodeAtHand
<1> QED BY <1>8, <1>9, <1>12, <1>13, <1>14 DEF IInv

(***************************************************************************)
(* One more page is mapped, and the frame behind it is owned there.        *)
(***************************************************************************)
LEMMA InstallLeafInv ==
  ASSUME IInv, NEW t \in Thread, InstallLeaf(t)
  PROVE  IInv'
<1>1. PICK r \in roots, v \in Vpn : r = job[t].root /\ v = job[t].vpn
  BY Typed DEF InstallLeaf, IInv, ThreadOK, JobPages, Using
<1>2. PICK n \in Frames : n = LeafNode(t) /\ owner[n] = Node(r, Hi(v))
  BY <1>1, LeafNodeOK DEF InstallLeaf, Using, IInv, ThreadOK, Transaction
<1>3. PICK p : p = Target(t)
  OBVIOUS
<1>4. /\ TypeOK /\ UsedOwned /\ HolesUnused /\ ThreadOK(t) /\ pc[t] = "install"
      /\ mem' = [mem EXCEPT ![n] = [@ EXCEPT ![Lo(v)] = p]]
      /\ owner' = Installed(t) /\ lock' = NoThread /\ UNCHANGED <<used, roots, calls>>
  BY <1>1, <1>2, <1>3 DEF InstallLeaf, IInv
<1>5. \/ job[t].op # "ensure" /\ Return(t)
      \/ /\ job[t].op # "ensure" /\ job[t].left > 1
         /\ job' = [job EXCEPT ![t] = [@ EXCEPT !.vpn = v + 1, !.left = job[t].left - 1]]
         /\ frame' = [frame EXCEPT ![t] = 0]
         /\ Goto(t, IF job[t].op = "identity" THEN "map" ELSE "leaf")
         /\ UNCHANGED <<again, todo>>
      \/ /\ job[t].op = "ensure"
         /\ frame' = [frame EXCEPT ![t] = 0]
         /\ job' = [job EXCEPT ![t] = [@ EXCEPT !.was = p]]
         /\ Goto(t, "walk")
         /\ UNCHANGED <<again, todo>>
  BY <1>1, <1>3 DEF InstallLeaf
<1>6. /\ r \in Frames /\ owner[r] = Root /\ TableOK(r) /\ r # n /\ lock = t
      /\ mem[r][Hi(v)] = n /\ Hi(v) \in Index /\ Lo(v) \in Index
  <2>1. r \in Frames /\ owner[r] = Root /\ TableOK(r)
    BY <1>1 DEF IInv, TypeOK
  <2>2. r # n
    BY <1>2, <2>1, Owners
  <2>3. lock = t
    BY <1>4 DEF ThreadOK, Transaction, InTransaction
  <2>4. mem[r][Hi(v)] = n
    BY <1>1, <1>2 DEF LeafNode
  <2> QED BY <2>1, <2>2, <2>3, <2>4, IndexOfVpn
<1>7. \/ job[t].op = "identity" /\ p = v /\ v \in Reserved
      \/ job[t].op # "identity" /\ p \in Frames /\ owner[p] = Held(t)
  <2>1. CASE job[t].op = "identity"
    <3>1. job[t].left > 0 /\ \A k \in 0 .. job[t].left - 1 : v + k \in Reserved
      BY <1>1, <1>4, <2>1 DEF ThreadOK, JobPages, Using
    <3>2. v + 0 \in Reserved /\ v + 0 = v
      BY <1>4, <3>1, Typed DEF Vpn, Pfn
    <3> QED BY <1>1, <1>3, <2>1, <3>2 DEF Target
  <2>2. CASE job[t].op # "identity"
    BY <1>3, <1>4, <2>2 DEF Target, ThreadOK, HeldOwned, Holding
  <2> QED BY <2>1, <2>2
<1>8. /\ \A f \in Frames : owner'[f] = IF owner[f] = Held(t) THEN Leaf(r, v) ELSE owner[f]
      /\ mem'[n] = [mem[n] EXCEPT ![Lo(v)] = p]
      /\ \A g \in Frames : g # n => mem'[g] = mem[g]
  BY <1>1, <1>4 DEF Installed, TypeOK
<1>9. TypeOK'
  <2>1. p \in Pfn
    BY <1>7, FramesTyped DEF Vpn
  <2>2. mem' \in [Frames -> [Index -> Pfn \cup {Unmapped}]]
    BY <1>4, <2>1 DEF TypeOK
  <2>3. owner' \in [Frames -> Kinds \X (Thread \cup Nat) \X Nat]
    <3>1. Leaf(r, v) \in Kinds \X (Thread \cup Nat) \X Nat
      BY <1>6, ConstAssumption DEF Leaf, Own, Kinds, Frames, Vpn, Pfn
    <3>2. owner' = [f \in Frames |-> IF owner[f] = Held(t) THEN Leaf(r, v) ELSE owner[f]]
      BY <1>1, <1>4 DEF Installed
    <3> QED BY <1>4, <3>1, <3>2 DEF TypeOK
  <2>4. /\ pc' \in [Thread -> Pcs] /\ frame' \in [Thread -> Pfn \cup {Unmapped}]
        /\ again' \in [Thread -> BOOLEAN] /\ todo' \in [Thread -> Todo]
    <3>1. CASE Return(t)
      BY <1>4, <3>1, Returned
    <3>2. CASE /\ \E x \in {"map", "leaf", "walk"} : pc' = [pc EXCEPT ![t] = x]
               /\ frame' = [frame EXCEPT ![t] = 0] /\ UNCHANGED <<again, todo>>
      BY <1>4, <3>2, NothingTyped DEF TypeOK, Pcs
    <3> QED BY <1>5, <3>1, <3>2 DEF Goto
  <2>5. job' \in [Thread -> Job]
    <3>1. CASE Return(t)
      BY <1>4, <3>1, Returned
    <3>2. CASE /\ job[t].left > 1
               /\ job' = [job EXCEPT ![t] = [@ EXCEPT !.vpn = v + 1, !.left = job[t].left - 1]]
      <4>1. job[t].left - 1 \in 0 .. MaxPages + 1 /\ 1 \in 0 .. job[t].left - 1
        BY <1>4, <3>2, Typed, ConstAssumption
      <4>2. v + 1 \in Vpn
        BY <1>1, <1>4, <4>1 DEF ThreadOK, JobPages, Using
      <4>3. [job[t] EXCEPT !.vpn = v + 1, !.left = job[t].left - 1] \in Job
        BY <1>4, <4>1, <4>2, Typed, JobUpdate
      <4> QED BY <1>4, <3>2, <4>3 DEF TypeOK
    <3>3. CASE job' = [job EXCEPT ![t] = [@ EXCEPT !.was = p]]
      <4>1. [job[t] EXCEPT !.was = p] \in Job
        BY <1>4, <2>1, Typed, JobUpdate
      <4> QED BY <1>4, <3>3, <4>1 DEF TypeOK
    <3> QED BY <1>5, <3>1, <3>2, <3>3
  <2>6. /\ used' \subseteq Frames /\ roots' \subseteq Frames
        /\ lock' \in Thread \cup {NoThread} /\ calls' \in 0 .. MaxCalls
    BY <1>4 DEF TypeOK
  <2> QED BY <2>2, <2>3, <2>4, <2>5, <2>6 DEF TypeOK
<1>10. /\ pc'[t] \in {"idle", "map", "leaf", "walk"}
       /\ \A w \in Thread \ {t} : Same(w) /\ again'[w] = again[w]
       /\ again'[t] => again[t]
  BY <1>4, <1>5, Returned DEF TypeOK, Goto, Same
<1>11. UsedOwned' /\ HolesUnused'
  BY <1>4, <1>8, <1>10, Owners DEF UsedOwned, HolesUnused
<1>12. \A s \in Frames : owner[s] = Root /\ s # r => Undisturbed(s)
  BY <1>2, <1>6, <1>8, Owners DEF Undisturbed
<1>13. ASSUME NEW s \in roots' PROVE owner'[s] = Root /\ TableOK(s)'
  <2>1. s \in Frames /\ owner[s] = Root /\ TableOK(s)
    BY <1>4 DEF IInv, TypeOK
  <2>2. CASE s # r
    BY <1>12, <2>1, <2>2, TableStays DEF Undisturbed
  <2>3. CASE s = r
    <3>1. owner'[r] = Root /\ mem'[r] = mem[r]
      BY <1>6, <1>8, Owners
    <3>2. ASSUME NEW w \in Vpn, mem[r][Hi(w)] # Unmapped
          PROVE  NodeOK(r, w, mem[r][Hi(w)])'
      <4>1. PICK m \in Frames : m = mem[r][Hi(w)] /\ NodeOK(r, w, m)
        BY <1>6, <3>2 DEF TableOK, NodeOK
      <4>2. owner'[m] = owner[m] /\ owner[m] = Node(r, Hi(w))
        BY <1>8, <4>1, Owners DEF NodeOK
      <4>3. \A f \in Frames : owner[f] = Leaf(r, w) => owner'[f] = owner[f]
        BY <1>8, Owners
      <4>4. CASE m = n /\ Lo(w) = Lo(v)
        <5>1. w = v
          BY <1>2, <4>2, <4>4, Owners, VpnByIndex
        <5>2. mem'[m][Lo(w)] = p
          BY <1>4, <1>6, <1>8, <4>4 DEF TypeOK
        <5>3. LeafOK(r, w, p)'
          BY <1>7, <1>8, <5>1 DEF LeafOK
        <5> QED BY <3>1, <4>1, <4>2, <5>2, <5>3 DEF NodeOK, LeafOK
      <4>5. CASE ~(m = n /\ Lo(w) = Lo(v))
        <5>1. Lo(w) \in Index
          BY IndexOfVpn
        <5>2. mem'[m][Lo(w)] = mem[m][Lo(w)]
          BY <1>4, <1>8, <4>5, <5>1 DEF TypeOK
        <5> QED BY <3>1, <4>1, <4>2, <4>3, <5>2 DEF NodeOK, LeafOK
      <4> QED BY <4>4, <4>5
    <3> QED BY <2>3, <3>1, <3>2 DEF TableOK
  <2> QED BY <2>2, <2>3
<1>14. ASSUME NEW u \in Thread \ {t} PROVE ThreadOK(u)'
  <2>1. ThreadOK(u) /\ Same(u)
    BY <1>10 DEF IInv
  <2>2. pc[u] \notin InTransaction
    BY <1>6, <2>1 DEF ThreadOK, Transaction
  <2>3. pc[u] \in Using => job[u].root \in roots' /\ LeafNode(u)' = LeafNode(u)
    <3> SUFFICES ASSUME job[u].root \in roots
                 PROVE  LeafNode(u)' = LeafNode(u)
      BY <1>4, <2>1 DEF ThreadOK, JobPages
    <3>1. job[u].root \in Frames /\ job[u].root # n
      BY <1>2, Owners DEF IInv, TypeOK
    <3> QED BY <1>8, <2>1, <3>1 DEF LeafNode, Same
  <2>4. pc[u] \in Freeing => job[u].root \notin roots' /\ Undisturbed(job[u].root)
    BY <1>4, <1>12, <2>1 DEF ThreadOK, FreedOwned
  <2>5. Holding(u) => owner'[frame[u]] = owner[frame[u]]
    BY <1>8, <2>1, Owners DEF ThreadOK, HeldOwned
  <2>6. pc'[t] \notin Freeing
    BY <1>10 DEF Freeing
  <2> QED BY <1>4, <1>10, <2>1, <2>2, <2>3, <2>4, <2>5, <2>6, OtherThread DEF Using
<1>15. ThreadOK(t)'
  <2>1. CASE Return(t)
    BY <1>4, <2>1, Returned
  <2>2. CASE ~Return(t)
    <3>1. /\ todo' = todo /\ pc'[t] \in {"map", "leaf", "walk"}
          /\ pc'[t] = "map" => job'[t].op = "identity"
          /\ JobPages(t)'
      <4>1. job[t] \in Job
        BY <1>4, Typed
      <4>2. CASE job[t].op # "ensure"
        <5>1. job'[t] = [job[t] EXCEPT !.vpn = v + 1, !.left = job[t].left - 1] /\ job[t].left > 1
          BY <1>4, <1>5, <2>2, <4>2 DEF TypeOK
        <5>2. /\ job'[t].op = job[t].op /\ job'[t].root = r
              /\ job'[t].vpn = v + 1 /\ job'[t].left = job[t].left - 1
          BY <1>1, <4>1, <5>1 DEF Job
        <5>3. pc'[t] = (IF job[t].op = "identity" THEN "map" ELSE "leaf") /\ todo' = todo
          BY <1>4, <1>5, <2>2, <4>2 DEF Goto, TypeOK
        <5>4. \A k \in 0 .. job'[t].left - 1 :
                 k + 1 \in 0 .. job[t].left - 1 /\ (v + 1) + k = v + (k + 1)
          BY <4>1, <5>1, <5>2, ConstAssumption DEF Job, Vpn, Pfn
        <5>5. job'[t].left > 0
          BY <4>1, <5>1, <5>2, ConstAssumption DEF Job
        <5>6. JobPages(t)'
          BY <1>1, <1>4, <5>2, <5>4, <5>5 DEF ThreadOK, JobPages, Using
        <5> QED BY <5>2, <5>3, <5>6
      <4>3. CASE job[t].op = "ensure"
        <5>1. job'[t] = [job[t] EXCEPT !.was = p] /\ pc'[t] = "walk" /\ todo' = todo
          BY <1>4, <1>5, <2>2, <4>3 DEF TypeOK, Goto
        <5>2. /\ job'[t].op = job[t].op /\ job'[t].root = job[t].root
              /\ job'[t].vpn = job[t].vpn /\ job'[t].left = job[t].left
          BY <4>1, <5>1 DEF Job
        <5>3. JobPages(t)'
          BY <1>4, <4>3, <5>2 DEF ThreadOK, JobPages, Using
        <5> QED BY <5>1, <5>3
      <4> QED BY <4>2, <4>3
    <3> QED BY <1>4, <3>1 DEF ThreadOK, Transaction, InTransaction, HeldOwned, Holding,
               FreedOwned, Freeing, FreeBegins, NodesLeft, NodeAtHand
  <2> QED BY <2>1, <2>2
<1> QED BY <1>9, <1>11, <1>13, <1>14, <1>15 DEF IInv

(***************************************************************************)
(* release_one_page gives back the frame it is called with and no other,   *)
(* and only if the frame is outside the holes.                             *)
(***************************************************************************)
LEMMA ReleaseOne ==
  ASSUME TypeOK, UsedOwned, HolesUnused, NEW f, Release(f),
         again' \in [Thread -> BOOLEAN], \A t \in Thread : again'[t] => again[t]
  PROVE  /\ used' \subseteq Frames /\ owner' \in [Frames -> Kinds \X (Thread \cup Nat) \X Nat]
         /\ UsedOwned' /\ HolesUnused'
         /\ \A g \in Frames : g # f => owner'[g] = owner[g]
         /\ f \in Frames /\ ~InHole(f) => owner'[f] = Free
         /\ InHole(f) => UNCHANGED owner
<1>1. /\ used' = IF InHole(f) THEN used ELSE used \ {f}
      /\ owner' = [g \in Frames |-> IF g = f /\ g \notin used' THEN Free ELSE owner[g]]
  BY DEF Release, Released
<1>2. Free \in Kinds \X (Thread \cup Nat) \X Nat
  BY DEF Free, Own, Kinds
<1>3. owner' \in [Frames -> Kinds \X (Thread \cup Nat) \X Nat]
  BY <1>1, <1>2 DEF TypeOK
<1>4. used' \subseteq Frames
  BY <1>1 DEF TypeOK
<1>5. UsedOwned'
  BY <1>1 DEF UsedOwned
<1>6. InHole(f) => UNCHANGED owner
  BY <1>1 DEF UsedOwned, TypeOK
<1>7. ASSUME NEW g \in Frames, InHole(g) PROVE owner'[g] = owner[g] /\ (g \in used => g \in used')
  BY <1>1, <1>6, <1>7
<1>8. HolesUnused'
  BY <1>7 DEF HolesUnused
<1> QED BY <1>1, <1>3, <1>4, <1>5, <1>6, <1>8

(***************************************************************************)
(* A step of a thread that frees a table, and changes only the frames of   *)
(* that table.                                                             *)
(***************************************************************************)
LEMMA FreeStep ==
  ASSUME IInv, NEW t \in Thread, pc[t] = "free0", UNCHANGED <<mem, roots, lock>>,
         \A w \in Thread \ {t} : Same(w),
         NEW r, r = job[t].root,
         \A f \in Frames : owner'[f] # owner[f] =>
           \/ f = r
           \/ \E i \in Index : owner[f] = Node(r, i)
           \/ \E v \in Vpn : owner[f] = Leaf(r, v),
         TypeOK', UsedOwned', HolesUnused', ThreadOK(t)',
         pc'[t] \in Freeing => job'[t].root = r
  PROVE  IInv'
<1>1. TypeOK /\ ThreadOK(t) /\ r \in Frames \ roots /\ owner[r] = Root
  BY DEF IInv, ThreadOK, FreedOwned, Freeing
<1>2. \A s \in Frames : owner[s] = Root /\ s # r => Undisturbed(s)
  BY <1>1, Owners DEF Undisturbed
<1>3. ASSUME NEW s \in roots' PROVE owner'[s] = Root /\ TableOK(s)'
  <2>1. s \in Frames /\ owner[s] = Root /\ TableOK(s) /\ s # r
    BY <1>1 DEF IInv, TypeOK
  <2> QED BY <1>2, <2>1, TableStays DEF Undisturbed
<1>4. ASSUME NEW u \in Thread \ {t} PROVE ThreadOK(u)'
  <2>1. ThreadOK(u)
    BY DEF IInv
  <2>2. LeafNode(u)' = LeafNode(u)
    BY DEF LeafNode, Same
  <2>3. pc[u] \in Freeing =>
          /\ job[u].root \notin roots' /\ Undisturbed(job[u].root)
          /\ pc'[t] \in Freeing => job'[t].root # job[u].root
    BY <1>1, <1>2, <2>1 DEF ThreadOK, FreedOwned, Freeing
  <2>4. pc[u] \in Using => job[u].root \in roots'
    BY <2>1 DEF ThreadOK, JobPages
  <2>5. pc[u] \in InTransaction => lock' = u
    BY <2>1 DEF ThreadOK, Transaction
  <2>6. Holding(u) => owner'[frame[u]] = owner[frame[u]]
    BY <1>1, <2>1, Owners DEF ThreadOK, HeldOwned
  <2> QED BY <1>1, <2>1, <2>2, <2>3, <2>4, <2>5, <2>6, OtherThread
<1> QED BY <1>3, <1>4 DEF IInv

LEMMA ReleaseLeafInv ==
  ASSUME IInv, NEW t \in Thread, ReleaseLeaf(t)
  PROVE  IInv'
<1>1. PICK r : r = job[t].root
  OBVIOUS
<1>2. PICK f \in todo[t].leaves :
        Release(f) /\ todo' = [todo EXCEPT ![t].leaves = @ \ {f}]
  BY DEF ReleaseLeaf
<1>3. /\ pc[t] = "free0" /\ UNCHANGED <<mem, roots, lock, pc, job, frame, again, calls>>
      /\ TypeOK /\ UsedOwned /\ HolesUnused /\ ThreadOK(t)
  BY DEF ReleaseLeaf, IInv
<1>4. /\ used' \subseteq Frames /\ owner' \in [Frames -> Kinds \X (Thread \cup Nat) \X Nat]
      /\ UsedOwned' /\ HolesUnused'
      /\ \A g \in Frames : g # f => owner'[g] = owner[g]
      /\ InHole(f) => UNCHANGED owner
  BY <1>2, <1>3, ReleaseOne DEF TypeOK
<1>5. r \in Frames \ roots /\ owner[r] = Root
  BY <1>1, <1>3 DEF ThreadOK, FreedOwned, Freeing
<1>6. todo[t].node # 0
  BY <1>2, <1>3 DEF ThreadOK, NodeAtHand
<1>7. PICK i \in Index : /\ todo[t].node \in Frames /\ owner[todo[t].node] = Node(r, i)
                         /\ mem[r][i] = todo[t].node
                         /\ LeavesLeft(t, i)
  BY <1>1, <1>3, <1>6 DEF ThreadOK, NodeAtHand
<1>8. \A g \in Frames : owner'[g] # owner[g] =>
        \E v \in Vpn : Hi(v) = i /\ owner[g] = Leaf(r, v)
  <2>1. CASE f \in Reserved
    BY <1>4, <2>1 DEF Reserved
  <2>2. CASE f \notin Reserved
    BY <1>1, <1>2, <1>4, <1>7, <2>2 DEF LeavesLeft
  <2> QED BY <2>1, <2>2
<1>9. /\ todo'[t].nodes = todo[t].nodes /\ todo'[t].node = todo[t].node
      /\ todo'[t].leaves = todo[t].leaves \ {f} /\ todo' \in [Thread -> Todo]
      /\ \A w \in Thread \ {t} : todo'[w] = todo[w]
  <2>1. todo'[t] = [todo[t] EXCEPT !.leaves = todo[t].leaves \ {f}] /\ todo[t] \in Todo
    BY <1>2, <1>3, Typed DEF TypeOK
  <2>2. [todo[t] EXCEPT !.leaves = todo[t].leaves \ {f}] \in Todo
    BY <1>3, <2>1, Typed, TodoUpdate
  <2>3. todo' \in [Thread -> Todo] /\ \A w \in Thread \ {t} : todo'[w] = todo[w]
    BY <1>2, <1>3, <2>1, <2>2 DEF TypeOK
  <2> QED BY <2>1, <2>3 DEF Todo
<1>10. TypeOK'
  BY <1>3, <1>4, <1>9 DEF TypeOK
<1>11. \A w \in Thread \ {t} : Same(w)
  BY <1>3, <1>9 DEF Same
<1>12. NodesLeft(t)'
  <2>1. todo'[t].nodes \subseteq Mapped(mem[job[t].root])' \ {todo'[t].node}
    BY <1>3, <1>9 DEF ThreadOK, NodesLeft, Mapped
  <2>2. ASSUME NEW v \in Vpn, mem[r][Hi(v)] \in todo[t].nodes
        PROVE  NodeOK(r, v, mem[r][Hi(v)])'
    <3> DEFINE n == mem[r][Hi(v)]
    <3>1. NodeOK(r, v, n) /\ Hi(v) # i
      BY <1>1, <1>3, <1>7, <2>2 DEF ThreadOK, NodesLeft
    <3>2. owner'[n] = owner[n]
      BY <1>8, <3>1, Owners DEF NodeOK
    <3>3. \A g \in Frames : owner[g] = Leaf(r, v) => owner'[g] = owner[g]
      BY <1>8, <3>1, Owners
    <3> QED BY <1>3, <3>1, <3>2, <3>3 DEF NodeOK, LeafOK
  <2> QED BY <1>1, <1>3, <1>9, <2>1, <2>2 DEF NodesLeft
<1>13. LeavesLeft(t, i)'
  <2> SUFFICES ASSUME NEW g \in todo[t].leaves, g # f, g \notin Reserved
               PROVE  g \in Frames /\ \E v \in Vpn : Hi(v) = i /\ owner'[g] = Leaf(r, v)
    BY <1>1, <1>3, <1>9 DEF LeavesLeft
  <2> QED BY <1>1, <1>4, <1>7 DEF LeavesLeft
<1>14. NodeAtHand(t)'
  <2>1. owner'[todo[t].node] = owner[todo[t].node]
    BY <1>7, <1>8, Owners
  <2>2. /\ todo'[t].node \in Frames /\ owner'[todo'[t].node] = Node(r, i)
        /\ mem'[r][i] = todo'[t].node
    BY <1>3, <1>7, <1>9, <2>1
  <2>3. job'[t].root = r /\ todo'[t].node # 0
    BY <1>1, <1>3, <1>6, <1>9
  <2> QED BY <1>13, <2>2, <2>3 DEF NodeAtHand
<1>15. owner'[r] = Root
  BY <1>5, <1>8, Owners
<1>16. FreedOwned(t)'
  BY <1>1, <1>3, <1>5, <1>15 DEF ThreadOK, FreedOwned
<1>17. ThreadOK(t)'
  BY <1>3, <1>12, <1>14, <1>16 DEF ThreadOK, Transaction, InTransaction, JobPages, Using,
     HeldOwned, Holding, FreeBegins
<1> QED BY <1>1, <1>3, <1>4, <1>8, <1>10, <1>11, <1>17, FreeStep

LEMMA ReleaseNodeInv ==
  ASSUME IInv, NEW t \in Thread, ReleaseNode(t)
  PROVE  IInv'
<1>1. PICK r, f : r = job[t].root /\ f = todo[t].node
  OBVIOUS
<1>2. /\ pc[t] = "free0" /\ f # 0 /\ todo[t].leaves = {} /\ Release(f)
      /\ todo' = [todo EXCEPT ![t].node = 0]
      /\ UNCHANGED <<mem, roots, lock, pc, job, frame, again, calls>>
      /\ TypeOK /\ UsedOwned /\ HolesUnused /\ ThreadOK(t)
  BY <1>1 DEF ReleaseNode, IInv
<1>3. /\ used' \subseteq Frames /\ owner' \in [Frames -> Kinds \X (Thread \cup Nat) \X Nat]
      /\ UsedOwned' /\ HolesUnused'
      /\ \A g \in Frames : g # f => owner'[g] = owner[g]
  BY <1>2, ReleaseOne DEF TypeOK
<1>4. r \in Frames \ roots /\ owner[r] = Root
  BY <1>1, <1>2 DEF ThreadOK, FreedOwned, Freeing
<1>5. PICK i \in Index : f \in Frames /\ owner[f] = Node(r, i) /\ mem[r][i] = f
  BY <1>1, <1>2 DEF ThreadOK, NodeAtHand
<1>6. /\ todo'[t].nodes = todo[t].nodes /\ todo'[t].node = 0 /\ todo'[t].leaves = {}
      /\ todo' \in [Thread -> Todo]
      /\ \A w \in Thread \ {t} : todo'[w] = todo[w]
  <2>1. todo'[t] = [todo[t] EXCEPT !.node = 0] /\ todo[t] \in Todo
    BY <1>2, Typed DEF TypeOK
  <2>2. [todo[t] EXCEPT !.node = 0] \in Todo
    BY <1>2, <2>1, TodoUpdate
  <2>3. todo' \in [Thread -> Todo] /\ \A w \in Thread \ {t} : todo'[w] = todo[w]
    BY <1>2, <2>1, <2>2 DEF TypeOK
  <2> QED BY <1>2, <2>1, <2>3 DEF Todo
<1>7. TypeOK'
  BY <1>2, <1>3, <1>6 DEF TypeOK
<1>8. \A w \in Thread \ {t} : Same(w)
  BY <1>2, <1>6 DEF Same
<1>9. NodesLeft(t)'
  <2>1. 0 \notin todo[t].nodes
    BY <1>2, Typed, FramesTyped
  <2>2. todo'[t].nodes \subseteq Mapped(mem[job[t].root])' \ {todo'[t].node}
    BY <1>2, <1>6, <2>1 DEF ThreadOK, NodesLeft, Mapped
  <2>3. ASSUME NEW v \in Vpn, mem[r][Hi(v)] \in todo[t].nodes
        PROVE  NodeOK(r, v, mem[r][Hi(v)])'
    <3> DEFINE n == mem[r][Hi(v)]
    <3>1. NodeOK(r, v, n) /\ n # f
      BY <1>1, <1>2, <2>3 DEF ThreadOK, NodesLeft
    <3>2. \A g \in Frames : owner[g] = Leaf(r, v) => owner'[g] = owner[g]
      BY <1>3, <1>5, Owners
    <3> QED BY <1>2, <1>3, <3>1, <3>2 DEF NodeOK, LeafOK
  <2> QED BY <1>1, <1>2, <1>6, <2>2, <2>3 DEF NodesLeft
<1>10. NodeAtHand(t)'
  BY <1>6 DEF NodeAtHand
<1>11. owner'[r] = Root
  BY <1>3, <1>4, <1>5, Owners
<1>12. FreedOwned(t)'
  BY <1>1, <1>2, <1>4, <1>11 DEF ThreadOK, FreedOwned
<1>13. ThreadOK(t)'
  BY <1>2, <1>9, <1>10, <1>12 DEF ThreadOK, Transaction, InTransaction, JobPages, Using,
     HeldOwned, Holding, FreeBegins
<1>14. \A g \in Frames : owner'[g] # owner[g] => owner[g] = Node(r, i)
  BY <1>3, <1>5
<1> QED BY <1>1, <1>2, <1>3, <1>7, <1>8, <1>13, <1>14, FreeStep

LEMMA ReleaseTopInv ==
  ASSUME IInv, NEW t \in Thread, ReleaseTop(t)
  PROVE  IInv'
<1>1. PICK r : r = job[t].root
  OBVIOUS
<1>2. /\ pc[t] = "free0" /\ Release(r) /\ Return(t)
      /\ UNCHANGED <<mem, roots, lock, calls>>
      /\ TypeOK /\ UsedOwned /\ HolesUnused
  BY <1>1 DEF ReleaseTop, IInv
<1>3. /\ pc' \in [Thread -> Pcs] /\ job' \in [Thread -> Job]
      /\ frame' \in [Thread -> Pfn \cup {Unmapped}]
      /\ again' \in [Thread -> BOOLEAN] /\ todo' \in [Thread -> Todo]
      /\ pc'[t] = "idle" /\ again'[t] = FALSE
      /\ \A w \in Thread \ {t} : Same(w) /\ again'[w] = again[w]
      /\ ThreadOK(t)'
  BY <1>2, Returned
<1>4. \A w \in Thread : again'[w] => again[w]
  BY <1>3
<1>5. /\ used' \subseteq Frames /\ owner' \in [Frames -> Kinds \X (Thread \cup Nat) \X Nat]
      /\ UsedOwned' /\ HolesUnused'
      /\ \A g \in Frames : g # r => owner'[g] = owner[g]
  BY <1>2, <1>3, <1>4, ReleaseOne
<1>6. TypeOK'
  BY <1>2, <1>3, <1>5 DEF TypeOK
<1> QED BY <1>1, <1>2, <1>3, <1>5, <1>6, FreeStep DEF Freeing

----------------------------------------------------------------------------
(* The invariant holds in every behaviour.                                 *)

LEMMA InitInv == Init => IInv
<1> SUFFICES ASSUME Init PROVE IInv
  OBVIOUS
<1>1. used \subseteq Frames /\ roots \subseteq Frames /\ lock \in Thread \cup {NoThread}
  BY DEF Init
<1>2. mem \in [Frames -> [Index -> Pfn \cup {Unmapped}]]
  BY DEF Init
<1>3. pc \in [Thread -> Pcs] /\ again \in [Thread -> BOOLEAN] /\ calls \in 0 .. MaxCalls
  BY ConstAssumption DEF Init, Pcs
<1>4. /\ job \in [Thread -> Job] /\ todo \in [Thread -> Todo]
      /\ frame \in [Thread -> Pfn \cup {Unmapped}]
  BY NothingTyped DEF Init
<1>5. owner \in [Frames -> Kinds \X (Thread \cup Nat) \X Nat]
  <2>1. Free \in Kinds \X (Thread \cup Nat) \X Nat
    BY DEF Free, Own, Kinds
  <2> QED BY <2>1 DEF Init
<1>6. UsedOwned /\ HolesUnused
  BY DEF Init, UsedOwned, HolesUnused
<1>7. ASSUME NEW t \in Thread PROVE ThreadOK(t)
  <2>1. pc[t] = "idle" /\ todo[t] = NoTodo
    BY DEF Init
  <2> QED BY <2>1 DEF ThreadOK, Transaction, InTransaction, JobPages, Using, HeldOwned, Holding,
     FreedOwned, Freeing, FreeBegins, NodesLeft, NodeAtHand, NoTodo
<1>8. roots = {}
  BY DEF Init
<1> QED BY <1>1, <1>2, <1>3, <1>4, <1>5, <1>6, <1>7, <1>8 DEF IInv, TypeOK

LEMMA StutterInv == IInv /\ UNCHANGED vars => IInv'
<1> SUFFICES ASSUME IInv, UNCHANGED vars PROVE IInv'
  OBVIOUS
<1>1. UNCHANGED <<used, mem, roots, lock, owner, pc, job, frame, again, todo, calls>>
  BY DEF vars, shared, locals
<1>2. TypeOK' /\ UsedOwned' /\ HolesUnused'
  BY <1>1 DEF IInv, TypeOK, UsedOwned, HolesUnused
<1>3. \A r : Undisturbed(r)
  BY <1>1 DEF Undisturbed
<1>4. \A r \in roots' : owner'[r] = Root /\ TableOK(r)'
  BY <1>1, <1>3, TableStays DEF IInv
<1>5. ASSUME NEW t \in Thread PROVE ThreadOK(t)'
  <2>1. ThreadOK(t) /\ TypeOK /\ Same(t)
    BY <1>1 DEF IInv, Same
  <2>2. Transaction(t)' /\ JobPages(t)' /\ HeldOwned(t)' /\ FreedOwned(t)'
    BY <1>1, <2>1 DEF ThreadOK, Transaction, JobPages, HeldOwned, Holding, FreedOwned, LeafNode
  <2>3. FreeBegins(t)' /\ NodesLeft(t)' /\ NodeAtHand(t)'
    <3>1. CASE pc[t] \in Freeing
      BY <1>3, <2>1, <3>1, FreeStays DEF ThreadOK
    <3>2. CASE pc[t] \notin Freeing
      BY <2>1, <3>2 DEF ThreadOK, FreeBegins, NodesLeft, NodeAtHand, Freeing, Same
    <3> QED BY <3>1, <3>2
  <2> QED BY <2>2, <2>3 DEF ThreadOK
<1> QED BY <1>2, <1>4, <1>5 DEF IInv

LEMMA NextInv ==
  ASSUME OneHoleFrame, IInv, [Next]_vars
  PROVE  IInv'
<1>1. CASE UNCHANGED vars
  BY <1>1, StutterInv
<1>2. CASE Quiet
  BY <1>2, StutterInv DEF Quiet
<1>3. ASSUME NEW t \in Thread, NewCall(t) PROVE IInv'
  BY <1>3, NewCallInv
<1>4. ASSUME NEW t \in Thread, Step(t) PROVE IInv'
  <2>1. CASE SkipHole(t)
    BY <2>1, SkipHoleInv
  <2>2. CASE TakePage(t)
    BY <2>2, TakePageInv
  <2>3. CASE TakeNode(t)
    BY <2>3, TakeNodeInv
  <2>4. CASE OutOfPages(t)
    BY <2>4, OutOfPagesInv
  <2>5. CASE ZeroTable(t)
    BY <2>5, ZeroTableInv
  <2>6. CASE BeginMap(t)
    BY <2>6, BeginMapInv
  <2>7. CASE AlreadyMapped(t)
    BY <2>7, AlreadyMappedInv
  <2>8. CASE InstallLeaf(t)
    BY <2>8, InstallLeafInv
  <2>9. CASE WalkTop(t)
    BY <2>9, WalkTopInv
  <2>10. CASE WalkLeaf(t)
    BY <2>10, WalkLeafInv
  <2>11. CASE WalkReturns(t)
    BY <2>11, WalkReturnsInv
  <2>12. CASE ReadTop(t)
    BY <2>12, ReadTopInv
  <2>13. CASE ReadNode(t)
    BY <2>13, ReadNodeInv
  <2>14. CASE ReleaseLeaf(t)
    BY <2>14, ReleaseLeafInv
  <2>15. CASE ReleaseNode(t)
    BY <2>15, ReleaseNodeInv
  <2>16. CASE ReleaseTop(t)
    BY <2>16, ReleaseTopInv
  <2> QED BY <1>4, <2>1, <2>2, <2>3, <2>4, <2>5, <2>6, <2>7, <2>8, <2>9, <2>10, <2>11,
             <2>12, <2>13, <2>14, <2>15, <2>16 DEF Step
<1> QED BY <1>1, <1>2, <1>3, <1>4 DEF Next

(***************************************************************************)
(* The history of every frame, the tables and the calls in progress agree  *)
(* at every moment, however the steps of the threads interleave, for any   *)
(* number of threads, frames and calls; and whatever the holes are, if at  *)
(* most one frame of the allocator counts as inside one.                   *)
(***************************************************************************)
THEOREM Invariance ==
  ASSUME OneHoleFrame
  PROVE  Spec => []IInv
<1>1. Init => IInv
  BY InitInv
<1>2. IInv /\ [Next]_vars => IInv'
  BY NextInv
<1> QED BY <1>1, <1>2, PTL DEF Spec

(***************************************************************************)
(* The type invariant: among others, a page table entry is a page of the   *)
(* physical address space or not valid.                                    *)
(***************************************************************************)
THEOREM TypeCorrect ==
  ASSUME OneHoleFrame
  PROVE  Spec => []TypeOK
<1>1. IInv => TypeOK
  BY DEF IInv
<1> QED BY <1>1, Invariance, PTL

----------------------------------------------------------------------------
(* What the invariant says of the clients' tables.                         *)

\* Each valid entry of a root is a frame owned at that place.
LEMMA TopEntry ==
  ASSUME IInv, NEW r \in roots, NEW i \in Index, mem[r][i] # Unmapped
  PROVE  mem[r][i] \in Frames /\ owner[mem[r][i]] = Node(r, i)
<1>1. PICK v \in Vpn : Hi(v) = i
  BY VpnOfIndex
<1> QED BY <1>1 DEF IInv, TableOK, NodeOK

\* The frames of a table are owned by it.
LEMMA TableFramesOwned ==
  ASSUME IInv, NEW r \in roots, NEW f \in TableFrames(r)
  PROVE  /\ f \in Frames /\ f \in used /\ ~InHole(f)
         /\ (f = r /\ owner[f] = Root) \/ \E i \in Index : owner[f] = Node(r, i)
<1>1. f \in Frames /\ ((f = r /\ owner[f] = Root) \/ \E i \in Index : owner[f] = Node(r, i))
  <2>1. CASE f = r
    BY <2>1 DEF IInv, TypeOK
  <2>2. CASE f # r
    BY <2>2, TopEntry DEF TableFrames, Mapped
  <2> QED BY <2>1, <2>2
<1> QED BY <1>1, Owners DEF IInv, UsedOwned, HolesUnused

\* A mapped page is a reserved one at its own address, or owned at that page.
LEMMA TranslationOwned ==
  ASSUME IInv, NEW r \in roots, NEW v \in Vpn, Translation(r, v) # Unmapped
  PROVE  \/ Translation(r, v) \in Reserved /\ Translation(r, v) = v
         \/ /\ Translation(r, v) \in Frames /\ owner[Translation(r, v)] = Leaf(r, v)
            /\ Translation(r, v) \in used /\ ~InHole(Translation(r, v))
<1>1. LeafOK(r, v, Translation(r, v))
  BY DEF IInv, TableOK, NodeOK, Translation
<1> QED BY <1>1, Owners DEF LeafOK, IInv, UsedOwned, HolesUnused

(***************************************************************************)
(* The frames of a kernel's page table hold nothing else: no part of       *)
(* another table and no page any kernel can reach (see TablesPrivate).     *)
(***************************************************************************)
THEOREM TablesArePrivate ==
  ASSUME OneHoleFrame
  PROVE  Spec => []TablesPrivate
<1>1. ASSUME IInv PROVE TablesPrivate
  <2> SUFFICES ASSUME NEW r1 \in roots, NEW r2 \in roots
               PROVE  /\ r1 # r2 => TableFrames(r1) \cap TableFrames(r2) = {}
                      /\ \A i, j \in Index :
                           mem[r1][i] = mem[r1][j] => i = j \/ mem[r1][i] = Unmapped
                      /\ \A v \in Vpn : Translation(r1, v) \notin TableFrames(r2)
    BY DEF TablesPrivate
  <2>1. ASSUME NEW f \in TableFrames(r1) \cap TableFrames(r2) PROVE r1 = r2
    <3>1. /\ (f = r1 /\ owner[f] = Root) \/ \E i \in Index : owner[f] = Node(r1, i)
          /\ (f = r2 /\ owner[f] = Root) \/ \E i \in Index : owner[f] = Node(r2, i)
      BY <1>1, <2>1, TableFramesOwned
    <3> QED BY <3>1, Owners
  <2>2. ASSUME NEW i \in Index, NEW j \in Index, mem[r1][i] = mem[r1][j], mem[r1][i] # Unmapped
        PROVE  i = j
    <3>1. Node(r1, i) = Node(r1, j)
      BY <1>1, <2>2, TopEntry
    <3> QED BY <3>1, Owners
  <2>3. ASSUME NEW v \in Vpn PROVE Translation(r1, v) \notin TableFrames(r2)
    <3> SUFFICES ASSUME Translation(r1, v) \in TableFrames(r2)
                 PROVE  FALSE
      OBVIOUS
    <3> DEFINE f == Translation(r1, v)
    <3>1. /\ f \in Frames /\ ~InHole(f)
          /\ owner[f] = Root \/ \E i \in Index : owner[f] = Node(r2, i)
      BY <1>1, TableFramesOwned
    <3>2. f # Unmapped /\ f \notin Reserved
      BY <3>1, FramesTyped DEF Reserved
    <3>3. owner[f] = Leaf(r1, v)
      BY <1>1, <3>2, TranslationOwned
    <3> QED BY <3>1, <3>3, Owners
  <2> QED BY <2>1, <2>2, <2>3
<1> QED BY <1>1, Invariance, PTL

(***************************************************************************)
(* A frame that allocate_one_vm_page mapped is mapped at one page of one   *)
(* kernel (see PagesPrivate).                                              *)
(***************************************************************************)
THEOREM PagesArePrivate ==
  ASSUME OneHoleFrame
  PROVE  Spec => []PagesPrivate
<1>1. ASSUME IInv PROVE PagesPrivate
  <2> SUFFICES ASSUME NEW r1 \in roots, NEW r2 \in roots,
                      NEW v1 \in Backed(r1), NEW v2 \in Backed(r2),
                      Translation(r1, v1) = Translation(r2, v2)
               PROVE  r1 = r2 /\ v1 = v2
    BY DEF PagesPrivate
  <2>1. owner[Translation(r1, v1)] = Leaf(r1, v1)
    BY <1>1, TranslationOwned DEF Backed
  <2>2. owner[Translation(r2, v2)] = Leaf(r2, v2)
    BY <1>1, TranslationOwned DEF Backed
  <2> QED BY <2>1, <2>2, Owners
<1> QED BY <1>1, Invariance, PTL

(***************************************************************************)
(* Nothing that a live table reaches is free in the allocator (see         *)
(* ReachableInUse).                                                        *)
(***************************************************************************)
THEOREM ReachableStaysInUse ==
  ASSUME OneHoleFrame
  PROVE  Spec => []ReachableInUse
<1>1. ASSUME IInv PROVE ReachableInUse
  BY <1>1, TableFramesOwned, TranslationOwned DEF ReachableInUse
<1> QED BY <1>1, Invariance, PTL

\* What a call has still to release is owned by the table it frees.
LEMMA ToReleaseOwned ==
  ASSUME IInv, NEW t \in Thread, NEW f \in ToRelease(t)
  PROVE  /\ pc[t] = "free0" /\ f \in Frames
         /\ \/ f = job[t].root /\ owner[f] = Root
            \/ \E i \in Index : owner[f] = Node(job[t].root, i)
            \/ \E v \in Vpn : owner[f] = Leaf(job[t].root, v)
<1>1. PICK r : r = job[t].root
  OBVIOUS
<1>2. /\ pc[t] = "free0" /\ f \in Frames \ Reserved /\ ThreadOK(t)
      /\ f \in todo[t].nodes \/ f \in todo[t].leaves \/ f = todo[t].node \/ f = r
  BY <1>1 DEF IInv, ToRelease
<1>3. CASE f \in todo[t].nodes
  <2>1. PICK i \in Index : mem[r][i] = f
    BY <1>1, <1>2, <1>3 DEF ThreadOK, NodesLeft, Mapped
  <2>2. PICK v \in Vpn : Hi(v) = i
    BY VpnOfIndex
  <2>3. owner[f] = Node(r, i)
    BY <1>1, <1>2, <1>3, <2>1, <2>2 DEF ThreadOK, NodesLeft, NodeOK
  <2> QED BY <1>1, <1>2, <2>3
<1>4. CASE f \in todo[t].leaves
  BY <1>2, <1>4 DEF ThreadOK, NodeAtHand, LeavesLeft
<1>5. CASE f = todo[t].node
  BY <1>2, <1>5, FramesTyped DEF ThreadOK, NodeAtHand
<1>6. CASE f = r
  BY <1>1, <1>2, <1>6 DEF ThreadOK, FreedOwned, Freeing
<1> QED BY <1>2, <1>3, <1>4, <1>5, <1>6

(***************************************************************************)
(* free_page_table_inner releases only frames in use that no live table    *)
(* and no other running free reaches (see FreeReleasesOwnPages).           *)
(***************************************************************************)
THEOREM FreeReleasesOnlyItsOwn ==
  ASSUME OneHoleFrame
  PROVE  Spec => []FreeReleasesOwnPages
<1>1. ASSUME IInv PROVE FreeReleasesOwnPages
  <2> SUFFICES ASSUME NEW t \in Thread
               PROVE  /\ ToRelease(t) \subseteq used
                      /\ \A u \in Thread \ {t} : ToRelease(t) \cap ToRelease(u) = {}
                      /\ \A r \in roots :
                           /\ TableFrames(r) \cap ToRelease(t) = {}
                           /\ \A v \in Vpn : Translation(r, v) \notin ToRelease(t)
    BY DEF FreeReleasesOwnPages
  <2>1. ToRelease(t) \subseteq used
    BY <1>1, ToReleaseOwned, Owners DEF IInv, UsedOwned
  <2>2. ASSUME NEW u \in Thread \ {t}, NEW f \in ToRelease(t) \cap ToRelease(u)
        PROVE  FALSE
    <3>1. job[t].root # job[u].root
      BY <1>1, <2>2, ToReleaseOwned DEF IInv, ThreadOK, FreedOwned, Freeing
    <3> QED BY <1>1, <2>2, <3>1, ToReleaseOwned, Owners
  <2>3. ASSUME NEW r \in roots, NEW f \in ToRelease(t)
        PROVE  f \notin TableFrames(r) /\ \A v \in Vpn : Translation(r, v) # f
    <3>1. job[t].root # r
      BY <1>1, <2>3, ToReleaseOwned DEF IInv, ThreadOK, FreedOwned, Freeing
    <3>2. f \notin TableFrames(r)
      BY <1>1, <2>3, <3>1, ToReleaseOwned, TableFramesOwned, Owners
    <3>3. ASSUME NEW v \in Vpn, Translation(r, v) = f PROVE FALSE
      <4>1. f \in Frames \ Reserved
        BY <2>3 DEF ToRelease
      <4>2. owner[f] = Leaf(r, v)
        BY <1>1, <3>3, <4>1, TranslationOwned, FramesTyped
      <4> QED BY <1>1, <2>3, <3>1, <4>2, ToReleaseOwned, Owners
    <3> QED BY <3>2, <3>3
  <2> QED BY <2>1, <2>2, <2>3
<1> QED BY <1>1, Invariance, PTL
=============================================================================
