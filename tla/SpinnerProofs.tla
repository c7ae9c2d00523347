--------------------------- MODULE SpinnerProofs ---------------------------
(***************************************************************************)
(* Any number of kernels, threads, frames and calls, loads at once with    *)
(* loads and frees among them.  A kernel id names one kernel and every     *)
(* page table has an owner, until two loads at once are given one slot;    *)
(* and, until a client frees a kernel before its run is over, what the     *)
(* device runs is the kernel that was started and its results stay until   *)
(* they are overwritten.                                                   *)
(***************************************************************************)
EXTENDS Spinner, TLAPS

----------------------------------------------------------------------------
(* The inductive invariant, first half: who owns which kernel and table.   *)

Job == [kid : Kids \cup {0}, binary : Binary \cup {NoBinary}, root : Roots,
        page : Heap \cup {0}, args : BOOLEAN, size : 0 .. MaxKernels,
        todo : Seq(Mapped), had : SUBSET Page]
Run == {NoRun} \cup [root : Frame, args : Heap \cup {0}]

Typed ==
  /\ TypeOK
  /\ job \in [Thread -> Job]
  /\ asked \in Run /\ run \in Run

(***************************************************************************)
(* What the page table manager and the allocator promise: a table is in no *)
(* reserved frame, and a frame behind a page that is not reserved backs    *)
(* that page of that table only, and is no table.                          *)
(***************************************************************************)
SpaceOK(r) ==
  /\ r \in Frame \ Fixed
  /\ DOMAIN space[r] \subseteq Page
  /\ \A p \in DOMAIN space[r] :
       IF p \in Fixed THEN space[r][p] = p
                      ELSE space[r][p] \in Frame \ (Fixed \cup VS!Live)

OwnFrame(q, r) ==
  \A p \in DOMAIN space[q] \ Fixed, o \in DOMAIN space[r] :
    space[q][p] = space[r][o] => q = r /\ p = o

SpacesApart ==
  /\ \A r \in VS!Live : SpaceOK(r)
  /\ \A q, r \in VS!Live : OwnFrame(q, r)

(***************************************************************************)
(* A thread claims the kernels its client holds and the one it loads or    *)
(* frees; it owns those that have a control block and a table.             *)
(***************************************************************************)
Loads == {"table", "read"}
Frees == {"free", "slot"}
Uses  == {"heap", "copy", "map", "binary", "pages", "start", "wait"}

Owns(t)   == mine[t] \cup (IF pc[t] = "free" THEN {job[t].kid} ELSE {})
Claims(t) == mine[t] \cup (IF pc[t] \in Loads \cup Frees THEN {job[t].kid} ELSE {})
Owned     == UNION {Owns(t) : t \in Thread}

CallOK(t) ==
  /\ pc[t] = "idle" => job[t] = NoJob
  /\ pc[t] \in Uses => job[t].kid \in mine[t]
  /\ pc[t] \in Loads \cup Frees => job[t].kid \notin mine[t]
  /\ pc[t] \in Loads => job[t].binary \in Binary
  /\ pc[t] = "heap" => Kcb(t).top \in Heap
  /\ pc[t] = "copy" => job[t].page \in Heap
  /\ pc[t] = "slot" => Kcb(t).value
  /\ Claims(t) \subseteq 1 .. slots

(***************************************************************************)
(* Every table has one owner: a kernel, a load or nobody any more.         *)
(***************************************************************************)
KernelOK(k) == kcbs[k].value /\ kcbs[k].root \in VS!Live \ lost /\ kcbs[k].top \in Top

LoadOK(t) ==
  pc[t] = "read" => /\ job[t].root \in VS!Live \ lost
                    /\ \A k \in Owned : kcbs[k].root # job[t].root

OneClaim == \A t, u \in Thread : \A k \in Claims(t) \cap Claims(u) : t = u

OneTable ==
  \A t, u \in Thread :
    pc[t] = "read" /\ pc[u] = "read" /\ job[t].root = job[u].root => t = u

OneRoot == \A j, k \in Owned : kcbs[j].root = kcbs[k].root => j = k

HasOwner(r) ==
  \/ \E k \in Owned : kcbs[k].root = r
  \/ \E t \in Thread : pc[t] = "read" /\ job[t].root = r

TablesOwned ==
  /\ lost \subseteq VS!Live
  /\ \A r \in VS!Live \ lost : HasOwner(r)

OwnersInv ==
  /\ OneClaim /\ OneTable /\ OneRoot /\ TablesOwned
  /\ \A t \in Thread : CallOK(t) /\ LoadOK(t)
  /\ \A k \in Owned : KernelOK(k)

IInv == Typed /\ SpacesApart /\ OwnersInv

----------------------------------------------------------------------------
(***************************************************************************)
(* Types and owners, in the form the steps need them.                      *)
(***************************************************************************)
LEMMA Constants ==
  /\ 0 \notin Frame /\ Fixed \subseteq Frame /\ Fixed \subseteq Mapped
  /\ Heap \cap Mapped = {} /\ Mapped \subseteq Page /\ Heap \subseteq Page
  /\ Heap \cap Fixed = {} /\ Segment \cap Fixed = {} /\ Segment \subseteq Mapped
  /\ Kids \subseteq Nat /\ 0 \notin Kids /\ 0 \notin Heap /\ HeapBase \in Top
  /\ \A a \in Heap : a + 1 \in Top
  /\ Layout \in Seq(Mapped)
<1>1. Layout \in Seq(Mapped)
  BY SpinnerAssumption DEF Mapped
<1> QED BY <1>1, SpinnerAssumption DEF Heap, Page, Kids, Top

LEMMA Thing ==
  ASSUME Typed, NEW t \in Thread
  PROVE  /\ job[t] \in Job /\ pc[t] \in Pcs /\ mine[t] \subseteq Kids
         /\ job[t].kid \in Kids \cup {0} /\ job[t].root \in Frame \cup {0}
         /\ job[t].page \in Heap \cup {0} /\ job[t].args \in BOOLEAN
         /\ job[t].todo \in Seq(Mapped) /\ job[t].had \subseteq Page
         /\ job[t].binary \in Binary \cup {NoBinary}
BY DEF Typed, TypeOK, Job, Roots

LEMMA OwnsIn ==
  ASSUME Typed, NEW t \in Thread
  PROVE  Owns(t) \subseteq Claims(t) /\ mine[t] \subseteq Owns(t)
BY DEF Owns, Claims, Frees

LEMMA OwnedIn ==
  ASSUME IInv, NEW k \in Owned
  PROVE  k \in Kids /\ kcbs[k] \in Kernel /\ kcbs[k].root \in Frame \ Fixed
<1>1. PICK t \in Thread : k \in Owns(t)
  BY DEF Owned
<1>2. k \in 1 .. slots /\ slots \in 0 .. MaxKernels /\ kcbs \in [Kids -> Kernel]
  BY <1>1, OwnsIn DEF IInv, OwnersInv, CallOK, Typed, TypeOK
<1>3. k \in Kids
  BY <1>2, SpinnerAssumption DEF Kids
<1> QED BY <1>2, <1>3 DEF IInv, OwnersInv, KernelOK, SpacesApart, SpaceOK

(***************************************************************************)
(* The part of TypeOK that speaks of spaces.                               *)
(***************************************************************************)
SpaceTyped ==
  /\ VS!Live \subseteq Frame
  /\ \A r \in VS!Live : DOMAIN space[r] \subseteq Page /\ VS!Backing \subseteq Frame

LEMMA SpacesTyped ==
  ASSUME SpacesApart'
  PROVE  SpaceTyped'
<1>1. ASSUME NEW r \in VS!Live', NEW p \in DOMAIN space'[r] PROVE space'[r][p] \in Frame
  BY <1>1, Constants DEF SpacesApart, SpaceOK
<1>2. VS!Backing' \subseteq Frame
  BY <1>1 DEF VS!Backing
<1> QED BY <1>2 DEF SpaceTyped, SpacesApart, SpaceOK

(***************************************************************************)
(* Thread t goes on at p with job j: the types of what else it changes.    *)
(***************************************************************************)
Moves(t, p, j) == pc' = [pc EXCEPT ![t] = p] /\ job' = [job EXCEPT ![t] = j]

LEMMA StepTyped ==
  ASSUME Typed, SpacesApart', NEW t \in Thread, NEW p \in Pcs, NEW j \in Job,
         Moves(t, p, j),
         kcbs' \in [Kids -> Kernel], slots' \in 0 .. MaxKernels,
         DOMAIN mem' = Frame,
         \A f \in Frame : mem'[f].kind \in {"empty", "code", "args", "data", "result", "table"},
         asked' \in Run, run' \in Run, mine' \in [Thread -> SUBSET Kids],
         over' \subseteq Kids, early' \in BOOLEAN, twice' \in BOOLEAN, lost' \subseteq Frame,
         calls' \in 0 .. MaxCalls
  PROVE  Typed'
<1>1. pc' \in [Thread -> Pcs] /\ job' \in [Thread -> Job]
  BY DEF Moves, Typed, TypeOK
<1>2. \A u \in Thread : job'[u].kid \in Kids \cup {0} /\ job'[u].root \in Roots
  BY <1>1 DEF Job
<1>3. asked'.root \in Roots /\ run'.root \in Roots
  BY DEF Run, Roots, NoRun
<1>4. SpaceTyped'
  BY SpacesTyped
<1> QED BY <1>1, <1>2, <1>3, <1>4 DEF Typed, TypeOK, SpaceTyped

LEMMA CallTyped ==
  ASSUME Typed, SpacesApart, NEW t \in Thread, NEW p \in Pcs, NEW j \in Job, Call(t, p, j),
         kcbs' \in [Kids -> Kernel], slots' \in 0 .. MaxKernels, mine' \in [Thread -> SUBSET Kids],
         twice' \in BOOLEAN
  PROVE  Typed' /\ SpacesApart'
<1>1. /\ space' = space /\ mem' = mem /\ asked' = asked /\ run' = run
      /\ over' = over /\ early' = early /\ lost' = lost
      /\ pc' = [pc EXCEPT ![t] = p] /\ job' = [job EXCEPT ![t] = j]
      /\ calls < MaxCalls /\ calls' = calls + 1
  BY DEF Call, accel, Goto
<1>2. SpacesApart'
  BY <1>1 DEF SpacesApart, SpaceOK, OwnFrame, VS!Live
<1>3. calls' \in 0 .. MaxCalls
  BY <1>1, SpinnerAssumption DEF Typed, TypeOK
<1>4. Moves(t, p, j)
  BY <1>1 DEF Moves
<1> QED BY <1>1, <1>2, <1>3, <1>4, StepTyped DEF Typed, TypeOK

----------------------------------------------------------------------------
(* Spaces.                                                                 *)

(***************************************************************************)
(* The frame the allocator hands out is new.                               *)
(***************************************************************************)
LEMMA LowestNew ==
  ASSUME NEW f, Lowest(f)
  PROVE  /\ f \in Frame \ Fixed /\ f \notin VS!Live
         /\ \A r \in VS!Live : \A p \in DOMAIN space[r] : space[r][p] # f
BY DEF Lowest, Vacant, VS!Backing

(***************************************************************************)
(* One more page of one table.                                             *)
(***************************************************************************)
LEMMA MapSpace ==
  ASSUME NEW r, NEW p, NEW f, VS!Map(r, p, f)
  PROVE  /\ r \in VS!Live /\ p \notin DOMAIN space[r]
         /\ VS!Live' = VS!Live
         /\ \A q \in VS!Live : q # r => space'[q] = space[q]
         /\ DOMAIN space'[r] = DOMAIN space[r] \cup {p}
         /\ space'[r][p] = f
         /\ \A o \in DOMAIN space[r] : space'[r][o] = space[r][o]
<1>1. /\ r \in DOMAIN space /\ p \notin DOMAIN space[r]
      /\ space' = [space EXCEPT ![r] =
                     [o \in DOMAIN @ \cup {p} |-> IF o = p THEN f ELSE @[o]]]
  BY DEF VS!Map, VS!Live
<1>2. DOMAIN space' = DOMAIN space /\ \A q \in DOMAIN space : q # r => space'[q] = space[q]
  BY <1>1
<1>3. space'[r] = [o \in DOMAIN space[r] \cup {p} |-> IF o = p THEN f ELSE space[r][o]]
  BY <1>1
<1> QED BY <1>1, <1>2, <1>3 DEF VS!Live

LEMMA MapApart ==
  ASSUME SpacesApart, NEW r, NEW p \in Page, NEW f, VS!Map(r, p, f),
         IF p \in Fixed THEN f = p ELSE Lowest(f)
  PROVE  SpacesApart'
<1>1. /\ r \in VS!Live /\ p \notin DOMAIN space[r] /\ VS!Live' = VS!Live
      /\ \A q \in VS!Live : q # r => space'[q] = space[q]
      /\ DOMAIN space'[r] = DOMAIN space[r] \cup {p}
      /\ space'[r][p] = f
      /\ \A o \in DOMAIN space[r] : space'[r][o] = space[r][o]
  BY MapSpace
<1>2. p \notin Fixed => /\ f \in Frame \ Fixed /\ f \notin VS!Live
                        /\ \A q \in VS!Live : \A o \in DOMAIN space[q] : space[q][o] # f
  BY LowestNew
<1>3. ASSUME NEW q \in VS!Live PROVE SpaceOK(q)'
  BY <1>1, <1>2, <1>3 DEF SpacesApart, SpaceOK
<1>4. ASSUME NEW q \in VS!Live, NEW s \in VS!Live, NEW o \in DOMAIN space'[q] \ Fixed,
             NEW n \in DOMAIN space'[s], space'[q][o] = space'[s][n]
      PROVE  q = s /\ o = n
  <2>1. CASE q = r /\ o = p
    <3>1. n \in Fixed => space'[s][n] \in Fixed
      BY <1>1, <1>3 DEF SpaceOK
    <3> QED BY <1>1, <1>2, <1>4, <2>1, <3>1
  <2>2. CASE s = r /\ n = p
    <3>1. space'[q][o] \notin Fixed
      BY <1>1, <1>3, <1>4 DEF SpaceOK
    <3> QED BY <1>1, <1>2, <1>4, <2>2, <3>1
  <2>3. CASE ~(q = r /\ o = p) /\ ~(s = r /\ n = p)
    <3>1. /\ o \in DOMAIN space[q] /\ space'[q][o] = space[q][o]
          /\ n \in DOMAIN space[s] /\ space'[s][n] = space[s][n]
      BY <1>1, <1>4, <2>3
    <3>2. OwnFrame(q, s) /\ space[q][o] = space[s][n] /\ o \in DOMAIN space[q] \ Fixed
      BY <1>4, <3>1 DEF SpacesApart
    <3> QED BY <3>1, <3>2 DEF OwnFrame
  <2> QED BY <2>1, <2>2, <2>3
<1> QED BY <1>1, <1>3, <1>4 DEF SpacesApart, OwnFrame

(***************************************************************************)
(* An empty table.                                                         *)
(***************************************************************************)
LEMMA CreateApart ==
  ASSUME SpacesApart, NEW f, Lowest(f), VS!Create(f)
  PROVE  /\ SpacesApart' /\ VS!Live' = VS!Live \cup {f} /\ f \notin VS!Live
         /\ \A q \in VS!Live : space'[q] = space[q]
<1>1. /\ VS!Live' = VS!Live \cup {f} /\ DOMAIN space'[f] = {} /\ f \notin VS!Live
      /\ \A q \in VS!Live : space'[q] = space[q]
  BY DEF VS!Create, VS!Live
<1>2. /\ f \in Frame \ Fixed
      /\ \A q \in VS!Live : \A o \in DOMAIN space[q] : space[q][o] # f
  BY LowestNew
<1>3. ASSUME NEW q \in VS!Live' PROVE SpaceOK(q)'
  BY <1>1, <1>2, <1>3 DEF SpacesApart, SpaceOK
<1>4. ASSUME NEW q \in VS!Live', NEW s \in VS!Live' PROVE OwnFrame(q, s)'
  BY <1>1, <1>4 DEF SpacesApart, OwnFrame
<1> QED BY <1>1, <1>3, <1>4 DEF SpacesApart

(***************************************************************************)
(* A table less.                                                           *)
(***************************************************************************)
LEMMA DestroyApart ==
  ASSUME SpacesApart, NEW r, VS!Destroy(r)
  PROVE  /\ SpacesApart' /\ r \in VS!Live /\ VS!Live' = VS!Live \ {r}
         /\ \A q \in VS!Live' : space'[q] = space[q]
<1>1. /\ r \in VS!Live /\ VS!Live' = VS!Live \ {r}
      /\ \A q \in VS!Live' : space'[q] = space[q]
  BY DEF VS!Destroy, VS!Live
<1>3. ASSUME NEW q \in VS!Live' PROVE SpaceOK(q)'
  BY <1>1, <1>3 DEF SpacesApart, SpaceOK
<1>4. ASSUME NEW q \in VS!Live', NEW s \in VS!Live' PROVE OwnFrame(q, s)'
  BY <1>1, <1>4 DEF SpacesApart, OwnFrame
<1> QED BY <1>1, <1>3, <1>4 DEF SpacesApart

----------------------------------------------------------------------------
(* Owners.                                                                 *)

(***************************************************************************)
(* What a step of t leaves to the other threads.                           *)
(***************************************************************************)
OthersSame(t) ==
  \A u \in Thread : u # t => pc'[u] = pc[u] /\ job'[u] = job[u] /\ mine'[u] = mine[u]

LEMMA SameClaims ==
  ASSUME NEW t \in Thread, OthersSame(t), NEW u \in Thread, u # t
  PROVE  Owns(u)' = Owns(u) /\ Claims(u)' = Claims(u)
BY DEF OthersSame, Owns, Claims

(***************************************************************************)
(* A kernel that one thread claims is no other's: its call goes on as it   *)
(* was, if only kernels that t claims change.                              *)
(***************************************************************************)
LEMMA OtherCall ==
  ASSUME Typed, OwnersInv, NEW t \in Thread, OthersSame(t), NEW u \in Thread, u # t,
         slots' \in Nat, slots' >= slots,
         \A k \in Kids : k \in Claims(t) \/ k > slots
                         \/ (kcbs'[k].top = kcbs[k].top /\ kcbs'[k].value = kcbs[k].value)
  PROVE  CallOK(u)'
<1>1. /\ pc'[u] = pc[u] /\ job'[u] = job[u] /\ mine'[u] = mine[u] /\ Claims(u)' = Claims(u)
      /\ CallOK(u) /\ mine[u] \subseteq Claims(u) /\ slots \in Nat
  BY SameClaims DEF OthersSame, OwnersInv, Claims, Typed, TypeOK
<1>2. Claims(u)' \subseteq 1 .. slots'
  BY <1>1 DEF CallOK
<1>3. ASSUME pc[u] = "heap" PROVE Kcb(u).top' = Kcb(u).top
  <2>1. job[u].kid \in mine[u] /\ job[u].kid \in 1 .. slots
    BY <1>1, <1>3 DEF CallOK, Uses
  <2>2. job[u].kid \notin Claims(t) /\ job[u].kid \in Kids
    BY <1>1, <2>1, Thing DEF OwnersInv, OneClaim
  <2> QED BY <1>1, <1>3, <2>1, <2>2 DEF Kcb
<1>4. ASSUME pc[u] = "slot" PROVE Kcb(u).value' = Kcb(u).value
  <2>1. job[u].kid \in Claims(u) /\ job[u].kid \in 1 .. slots
    BY <1>1, <1>4 DEF CallOK, Claims, Frees
  <2>2. job[u].kid \notin Claims(t) /\ job[u].kid \in Kids
    BY <1>1, <2>1, Thing, Constants DEF OwnersInv, OneClaim
  <2> QED BY <1>1, <1>4, <2>1, <2>2 DEF Kcb
<1> QED BY <1>1, <1>2, <1>3, <1>4 DEF CallOK

(***************************************************************************)
(* A step of t that changes no ownership: only control blocks of kernels   *)
(* that t claims change, and neither their root nor that they have a       *)
(* value.                                                                  *)
(***************************************************************************)
LEMMA QuietOwners ==
  ASSUME IInv, NEW t \in Thread, OthersSame(t), mine'[t] = mine[t],
         pc[t] \notin Loads \cup Frees, pc'[t] \notin Loads \cup Frees,
         slots' = slots, lost' = lost, VS!Live' = VS!Live,
         \A k \in Kids : /\ kcbs'[k].value = kcbs[k].value /\ kcbs'[k].root = kcbs[k].root
                         /\ \/ kcbs'[k].top = kcbs[k].top
                            \/ k \in mine[t] /\ kcbs'[k].top \in Top,
         CallOK(t)'
  PROVE  OwnersInv' /\ Owned' = Owned /\ \A u \in Thread : Claims(u)' = Claims(u)
<1>1. \A u \in Thread : Owns(u)' = Owns(u) /\ Claims(u)' = Claims(u)
  <2>1. Owns(t)' = Owns(t) /\ Claims(t)' = Claims(t)
    BY DEF Owns, Claims, Frees
  <2> QED BY <2>1, SameClaims
<1>2. Owned' = Owned
  BY <1>1 DEF Owned
<1>3. OneClaim'
  BY <1>1 DEF IInv, OwnersInv, OneClaim
<1>4. \A k \in Owned : k \in Kids
  BY OwnedIn
<1>5. ASSUME NEW u \in Thread PROVE CallOK(u)'
  <2>1. CASE u = t
    BY <2>1
  <2>2. CASE u # t
    <3>1. mine[t] \subseteq Claims(t)
      BY DEF Claims
    <3>2. slots \in Nat
      BY DEF IInv, Typed, TypeOK
    <3> QED BY <2>2, <3>1, <3>2, OtherCall DEF IInv
  <2> QED BY <2>1, <2>2
<1>6. \A u \in Thread : pc'[u] = "read" <=> pc[u] = "read"
  BY DEF OthersSame, Loads
<1>7. \A u \in Thread : pc[u] = "read" => job'[u] = job[u]
  BY DEF OthersSame, Loads
<1>8. ASSUME NEW u \in Thread PROVE LoadOK(u)'
  BY <1>2, <1>4, <1>6, <1>7 DEF LoadOK, IInv, OwnersInv
<1>11. OneTable'
  BY <1>6, <1>7 DEF OneTable, IInv, OwnersInv
<1>9. OneRoot' /\ \A k \in Owned' : KernelOK(k)'
  BY <1>2, <1>4 DEF OneRoot, KernelOK, IInv, OwnersInv
<1>10. TablesOwned'
  BY <1>2, <1>4, <1>6, <1>7 DEF TablesOwned, HasOwner, IInv, OwnersInv
<1> QED BY <1>1, <1>2, <1>3, <1>5, <1>8, <1>9, <1>10, <1>11 DEF OwnersInv

----------------------------------------------------------------------------
(* Actions that change no ownership.                                       *)

(***************************************************************************)
(* A call on a kernel that the client holds.                               *)
(***************************************************************************)
LEMMA UseCall ==
  ASSUME IInv, NEW t \in Thread, NEW k \in mine[t], NEW p \in Uses, NEW j \in Job, j.kid = k,
         Call(t, p, j), UNCHANGED <<table, mine, twice>>,
         p = "heap" => kcbs[k].top \in Heap, p = "copy" => j.page \in Heap
  PROVE  IInv' /\ Owned' = Owned
<1>1. p \in Pcs /\ p \notin Loads \cup Frees /\ p \notin {"idle", "table"}
  BY DEF Uses, Pcs, Loads, Frees
<1>2. /\ kcbs' = kcbs /\ slots' = slots /\ mine' = mine /\ space' = space /\ lost' = lost
      /\ twice' = twice
      /\ pc[t] = "idle" /\ pc' = [pc EXCEPT ![t] = p] /\ job' = [job EXCEPT ![t] = j]
  BY DEF Call, Goto, table
<1>3. Typed' /\ SpacesApart'
  BY <1>1, <1>2, CallTyped DEF IInv, Typed, TypeOK
<1>4. OthersSame(t) /\ pc'[t] = p /\ job'[t] = j
  BY <1>2 DEF OthersSame, IInv, Typed, TypeOK
<1>5. CallOK(t)'
  <2>1. Claims(t)' = mine[t] /\ mine[t] \subseteq Claims(t) /\ CallOK(t)
    BY <1>1, <1>2, <1>4 DEF Claims, IInv, OwnersInv
  <2> QED BY <1>1, <1>2, <1>4, <2>1 DEF CallOK, Kcb, Frees
<1>6. OwnersInv' /\ Owned' = Owned
  <2>1. pc[t] \notin Loads \cup Frees
    BY <1>2 DEF Loads, Frees
  <2>2. VS!Live' = VS!Live
    BY <1>2 DEF VS!Live
  <2> QED BY <1>1, <1>2, <1>4, <1>5, <2>1, <2>2, QuietOwners
<1> QED BY <1>3, <1>6 DEF IInv

LEMMA OnTyped ==
  ASSUME IInv, NEW t \in Thread, NEW k \in mine[t]
  PROVE  /\ k \in Kids /\ kcbs[k] \in Kernel /\ On(k) \in Job /\ On(k).kid = k
         /\ k \in Owned /\ kcbs[k].root \in VS!Live
<1>1. k \in Kids /\ kcbs[k] \in Kernel /\ k \in Owned /\ kcbs[k].root \in VS!Live
  BY Thing DEF Owned, Owns, IInv, Typed, TypeOK, OwnersInv, KernelOK
<1>2. <<>> \in Seq(Mapped) /\ 0 \in 0 .. MaxKernels
  BY SpinnerAssumption
<1>3. On(k) \in Job /\ On(k).kid = k
  BY <1>1, <1>2 DEF On, NoJob, Job, Roots
<1> QED BY <1>1, <1>3

LEMMA UseCalls ==
  ASSUME IInv, NEW t \in Thread, NEW k \in mine[t],
         \/ AllocateHeap(t, k) \/ UploadArgs(t, k) \/ \E p \in Heap : Upload(t, k, p)
         \/ StartKernel(t, k) \/ WaitKernel(t, k)
  PROVE  IInv' /\ Owned' = Owned
<1>1. /\ k \in Kids /\ kcbs[k] \in Kernel /\ On(k) \in Job /\ On(k).kid = k
      /\ kcbs[k].root \in VS!Live
  BY OnTyped
<1>2. {"heap", "copy", "map", "wait"} \subseteq Uses
  BY DEF Uses
<1>3. kcbs[k].top <= HeapEnd => kcbs[k].top \in Heap
  <2>1. kcbs[k].root \in Frame /\ kcbs[k].top \in Top
    BY <1>1, OwnedIn, OnTyped DEF IInv, OwnersInv, KernelOK
  <2> QED BY <2>1, SpinnerAssumption DEF Top, Heap
<1>4. CASE AllocateHeap(t, k)
  BY <1>1, <1>2, <1>3, <1>4, UseCall DEF AllocateHeap
<1>5. CASE UploadArgs(t, k)
  <2> DEFINE j == [On(k) EXCEPT !.args = TRUE, !.size = slots]
  <2>1. j \in Job /\ j.kid = k
    BY <1>1 DEF Job, IInv, Typed, TypeOK
  <2> QED BY <1>2, <1>3, <1>5, <2>1, UseCall DEF UploadArgs
<1>6. ASSUME NEW p \in Heap, Upload(t, k, p) PROVE IInv' /\ Owned' = Owned
  <2>1. /\ [On(k) EXCEPT !.page = p] \in Job /\ [On(k) EXCEPT !.page = p].kid = k
        /\ [On(k) EXCEPT !.page = p].page = p
    BY <1>1 DEF Job
  <2> QED BY <1>2, <1>6, <2>1, UseCall DEF Upload
<1>7. CASE StartKernel(t, k)
  <2> DEFINE had == DOMAIN space[kcbs[k].root]
             j == [On(k) EXCEPT !.todo = Layout, !.had = had]
  <2>1. had \subseteq Page
    BY <1>1 DEF IInv, SpacesApart, SpaceOK
  <2>2. j \in Job /\ j.kid = k
    BY <1>1, <2>1, Constants DEF Job
  <2> QED BY <1>2, <1>7, <2>2, UseCall DEF StartKernel
<1>8. CASE WaitKernel(t, k)
  BY <1>1, <1>2, <1>8, UseCall DEF WaitKernel
<1> QED BY <1>4, <1>5, <1>6, <1>7, <1>8

\* Thread t goes on at p with job j; nothing that others own changes.
Becomes(t, p, j) ==
  /\ Moves(t, p, j)
  /\ UNCHANGED <<table, space, mine, early, lost, twice, calls>>

(***************************************************************************)
(* A step of such a call that leaves the spaces and the control blocks.    *)
(***************************************************************************)
LEMMA UseStep ==
  ASSUME IInv, NEW t \in Thread, pc[t] \in Uses, NEW p \in Uses \cup {"idle"}, NEW j \in Job,
         Becomes(t, p, j),
         p \in Uses => j.kid = job[t].kid /\ p \notin {"heap", "copy"},
         p = "idle" => j = NoJob,
         DOMAIN mem' = Frame,
         \A f \in Frame : mem'[f].kind \in {"empty", "code", "args", "data", "result", "table"},
         asked' \in Run, run' \in Run, over' \subseteq Kids
  PROVE  IInv' /\ Owned' = Owned
<1>1. /\ p \in Pcs /\ p \notin Loads \cup Frees /\ pc[t] \notin Loads \cup Frees
      /\ "idle" \notin Loads \cup Frees \cup Uses
  BY DEF Uses, Pcs, Loads, Frees
<1>2. /\ kcbs' = kcbs /\ slots' = slots /\ VS!Live' = VS!Live /\ space' = space /\ mine' = mine
      /\ early' = early /\ lost' = lost /\ twice' = twice /\ calls' = calls
      /\ pc' = [pc EXCEPT ![t] = p] /\ job' = [job EXCEPT ![t] = j]
  BY DEF Becomes, Moves, table, VS!Live
<1>3. SpacesApart'
  BY <1>2 DEF IInv, SpacesApart, SpaceOK, OwnFrame, VS!Live
<1>4. OthersSame(t) /\ pc'[t] = p /\ job'[t] = j
  BY <1>2 DEF OthersSame, IInv, Typed, TypeOK
<1>5. Typed'
  BY <1>1, <1>2, <1>3, StepTyped DEF IInv, Typed, TypeOK, Moves
<1>6. CallOK(t)'
  <2>1. Claims(t)' = mine[t] /\ mine[t] \subseteq Claims(t) /\ CallOK(t)
    BY <1>1, <1>2, <1>4 DEF Claims, IInv, OwnersInv
  <2> QED BY <1>1, <1>2, <1>4, <2>1 DEF CallOK, Frees
<1> QED BY <1>1, <1>2, <1>3, <1>4, <1>5, <1>6, QuietOwners DEF IInv

LEMMA NoJobTyped == NoJob \in Job /\ "idle" \notin Uses
<1>1. <<>> \in Seq(Mapped)
  OBVIOUS
<1> QED BY <1>1, SpinnerAssumption DEF NoJob, Job, Roots, Uses

LEMMA SameMemory ==
  ASSUME Typed, mem' = mem
  PROVE  /\ DOMAIN mem' = Frame
         /\ \A f \in Frame :
              mem'[f].kind \in {"empty", "code", "args", "data", "result", "table"}
BY DEF Typed, TypeOK

LEMMA UseSteps ==
  ASSUME IInv, NEW t \in Thread,
         \/ MapHeapThrows(t) \/ CopyPage(t) \/ AllMapped(t) \/ StartThrows(t)
         \/ UploadVxbin(t) \/ UploadPageTable(t) \/ Start(t) \/ WaitReady(t) \/ WaitTimesOut(t)
  PROVE  IInv' /\ Owned' = Owned
<1>1. /\ Typed /\ job[t] \in Job /\ job = [job EXCEPT ![t] = job[t]]
      /\ asked \in Run /\ run \in Run /\ over \subseteq Kids
  BY Thing DEF IInv, Typed, TypeOK
<1>2. {"binary", "pages", "start", "map", "heap", "copy", "wait"} \subseteq Uses
  BY DEF Uses
<1>3. CASE MapHeapThrows(t) \/ StartThrows(t) \/ WaitTimesOut(t)
  <2>1. Becomes(t, "idle", NoJob) /\ pc[t] \in Uses
    BY <1>2, <1>3 DEF MapHeapThrows, StartThrows, WaitTimesOut, Return, Goto, Becomes, Moves
  <2>2. mem' = mem /\ asked' = asked /\ run' = run /\ over' = over
    BY <1>3 DEF MapHeapThrows, StartThrows, WaitTimesOut, accel
  <2> QED BY <1>1, <2>1, <2>2, UseStep, NoJobTyped, SameMemory
<1>4. CASE AllMapped(t)
  <2>1. Becomes(t, "binary", job[t]) /\ pc[t] \in Uses
    BY <1>1, <1>2, <1>4 DEF AllMapped, Goto, Becomes, Moves
  <2>2. mem' = mem /\ asked' = asked /\ run' = run /\ over' = over
    BY <1>4 DEF AllMapped, accel
  <2> QED BY <1>1, <1>2, <2>1, <2>2, UseStep, SameMemory
<1>6. pc[t] \in Uses => job[t].kid \in Kids /\ job[t].kid \in Owned
  BY OnTyped DEF IInv, OwnersInv, CallOK
<1>7. CASE WaitReady(t)
  <2>1. Becomes(t, "idle", NoJob) /\ pc[t] \in Uses
    BY <1>2, <1>7 DEF WaitReady, Return, Goto, Becomes, Moves
  <2>2. mem' = mem /\ asked' = asked /\ run' = run /\ over' \subseteq Kids
    BY <1>1, <1>6, <1>7, <2>1 DEF WaitReady, accel
  <2> QED BY <1>1, <2>1, <2>2, UseStep, NoJobTyped, SameMemory
<1>9. CASE CopyPage(t)
  <2>1. Becomes(t, "idle", NoJob) /\ pc[t] \in Uses
    BY <1>2, <1>9 DEF CopyPage, Return, Goto, Becomes, Moves
  <2>2. /\ DOMAIN mem' = Frame
        /\ \A f \in Frame : mem'[f].kind \in {"empty", "code", "args", "data", "result", "table"}
    BY <1>1, <1>9 DEF CopyPage, Piece, Typed, TypeOK
  <2>3. asked' = asked /\ run' = run /\ over' = over
    BY <1>9 DEF CopyPage, accel
  <2> QED BY <1>1, <2>1, <2>2, <2>3, UseStep, NoJobTyped
<1>10. CASE UploadVxbin(t)
  <2>1. Becomes(t, "pages", job[t]) /\ pc[t] \in Uses
    BY <1>1, <1>2, <1>10 DEF UploadVxbin, Goto, Becomes, Moves
  <2>2. /\ DOMAIN mem' = Frame
        /\ \A f \in Frame : mem'[f].kind \in {"empty", "code", "args", "data", "result", "table"}
    BY <1>1, <1>10 DEF UploadVxbin, Piece, Typed, TypeOK
  <2>3. asked' = asked /\ run' = run /\ over' = over
    BY <1>10 DEF UploadVxbin, accel
  <2> QED BY <1>1, <1>2, <2>1, <2>2, <2>3, UseStep
<1>11. CASE UploadPageTable(t)
  <2>1. Becomes(t, "start", job[t]) /\ pc[t] \in Uses
    BY <1>1, <1>2, <1>11 DEF UploadPageTable, Goto, Becomes, Moves
  <2>2. /\ DOMAIN mem' = Frame
        /\ \A f \in Frame : mem'[f].kind \in {"empty", "code", "args", "data", "result", "table"}
    BY <1>1, <1>11 DEF UploadPageTable, Table, Typed, TypeOK
  <2>3. asked' = asked /\ run' = run /\ over' = over
    BY <1>11 DEF UploadPageTable, accel
  <2> QED BY <1>1, <1>2, <2>1, <2>2, <2>3, UseStep
<1>12. CASE Start(t)
  <2>1. Becomes(t, "idle", NoJob) /\ pc[t] \in Uses
    BY <1>2, <1>12 DEF Start, Return, Goto, Becomes, Moves
  <2>2. Kcb(t).root \in Frame /\ Kcb(t).args \in Heap \cup {0}
    BY <1>6, <2>1, OwnedIn DEF Kcb, Kernel
  <2>3. asked' \in Run /\ run' \in Run
    BY <1>1, <1>12, <2>2 DEF Start, DR!Request, Run, Root
  <2>4. mem' = mem /\ over' \subseteq Kids
    BY <1>1, <1>12 DEF Start
  <2> QED BY <1>1, <2>1, <2>3, <2>4, UseStep, NoJobTyped, SameMemory
<1> QED BY <1>3, <1>4, <1>7, <1>9, <1>10, <1>11, <1>12

(***************************************************************************)
(* A page of the heap, which moves the bump pointer, and of the image.     *)
(***************************************************************************)
LEMMA MapHeapInv ==
  ASSUME IInv, NEW t \in Thread, MapHeap(t)
  PROVE  IInv' /\ Owned' = Owned
<1> DEFINE k == job[t].kid
           a == kcbs[k].top
           p == IF job[t].args THEN "copy" ELSE "idle"
           j == IF job[t].args THEN [job[t] EXCEPT !.page = a] ELSE NoJob
<1>1. /\ pc[t] = "heap" /\ pc[t] \in Uses /\ k \in mine[t] /\ k \in Kids /\ k \in Owned /\ a \in Heap
      /\ kcbs[k] \in Kernel /\ kcbs[k].root \in VS!Live /\ Claims(t) \subseteq 1 .. slots
      /\ Typed /\ SpacesApart
  <2>1. pc[t] = "heap" /\ pc[t] \in Uses
    BY DEF MapHeap, Uses
  <2>2. CallOK(t)
    BY DEF IInv, OwnersInv
  <2>3. k \in mine[t] /\ a \in Heap /\ Claims(t) \subseteq 1 .. slots
    BY <2>1, <2>2 DEF CallOK, Kcb
  <2> QED BY <2>1, <2>3, OnTyped DEF IInv
<1>2. PICK f \in Frame : Lowest(f) /\ VS!Map(kcbs[k].root, a, f)
  BY DEF MapHeap, Root, Kcb
<1>13. PICK g \in NewArgs(t) :
         kcbs' = [kcbs EXCEPT ![k] = [kcbs[k] EXCEPT !.top = @ + 1, !.args = g]]
  BY DEF MapHeap, Kcb
<1>14. g \in {kcbs[k].args, a}
  BY DEF NewArgs, Kcb
<1> DEFINE c == [kcbs[k] EXCEPT !.top = @ + 1, !.args = g]
<1>3. SpacesApart' /\ VS!Live' = VS!Live
  BY <1>1, <1>2, MapApart, MapSpace, Constants
<1>4. /\ kcbs' = [kcbs EXCEPT ![k] = c] /\ pc' = [pc EXCEPT ![t] = p]
      /\ job' = [job EXCEPT ![t] = j]
      /\ slots' = slots /\ mem' = mem /\ asked' = asked /\ run' = run
      /\ mine' = mine /\ over' = over /\ early' = early /\ lost' = lost /\ twice' = twice
      /\ calls' = calls
  <2>1. kcbs' = [kcbs EXCEPT ![k] = c]
    BY <1>13
  <2>2. pc' = [pc EXCEPT ![t] = p] /\ job' = [job EXCEPT ![t] = j]
    <3>1. CASE job[t].args
      BY <3>1 DEF MapHeap, Kcb, Goto
    <3>2. CASE ~job[t].args
      BY <3>2 DEF MapHeap, Return, Goto
    <3> QED BY <3>1, <3>2
  <2> QED BY <2>1, <2>2 DEF MapHeap, accel
<1>5. /\ c \in Kernel /\ c.value = kcbs[k].value /\ c.root = kcbs[k].root /\ c.top \in Top
  BY <1>1, <1>14, Constants DEF Kernel
<1>6. /\ kcbs' \in [Kids -> Kernel] /\ kcbs'[k] = c
      /\ \A i \in Kids : i # k => kcbs'[i] = kcbs[i]
  BY <1>1, <1>4, <1>5 DEF Typed, TypeOK
<1>7. /\ p \in Pcs /\ p \notin Loads \cup Frees /\ pc[t] \notin Loads \cup Frees
      /\ (p = "copy" /\ job[t].args) \/ p = "idle"
  BY <1>1 DEF Pcs, Loads, Frees
<1>8. /\ j \in Job
      /\ job[t].args => j.kid = k /\ j.page = a
      /\ p = "idle" => j = NoJob
  BY <1>1, Thing, NoJobTyped DEF Job
<1> HIDE DEF p, j, c, k, a
<1>9. Typed'
  BY <1>1, <1>3, <1>4, <1>6, <1>7, <1>8, SameMemory, StepTyped DEF Typed, TypeOK, Moves
<1>10. OthersSame(t) /\ pc'[t] = p /\ job'[t] = j /\ mine'[t] = mine[t]
  BY <1>1, <1>4 DEF OthersSame, Typed, TypeOK
<1>11. CallOK(t)'
  <2>1. Claims(t)' = mine[t] /\ mine[t] \subseteq Claims(t)
    BY <1>7, <1>10 DEF Claims
  <2> QED BY <1>1, <1>4, <1>7, <1>8, <1>10, <2>1, NoJobTyped DEF CallOK, Loads, Frees
<1>12. OwnersInv' /\ Owned' = Owned
  BY <1>1, <1>3, <1>4, <1>5, <1>6, <1>7, <1>10, <1>11, QuietOwners
<1> QED BY <1>3, <1>9, <1>12 DEF IInv

LEMMA MapPageInv ==
  ASSUME IInv, NEW t \in Thread, MapPage(t)
  PROVE  IInv' /\ Owned' = Owned
<1> DEFINE k == job[t].kid
           p == Head(job[t].todo)
           j == [job[t] EXCEPT !.todo = Tail(@)]
<1>1. /\ pc[t] = "map" /\ job[t].todo \in Seq(Mapped) /\ job[t].todo # <<>>
      /\ CallOK(t) /\ Typed /\ SpacesApart /\ job[t] \in Job
  BY Thing DEF MapPage, IInv, OwnersInv
<1>2. /\ p \in Mapped /\ Tail(job[t].todo) \in Seq(Mapped)
  BY <1>1
<1>3. j \in Job /\ j.kid = k
  BY <1>1, <1>2 DEF Job
<1>4. PICK f \in Frame : (IF p \in Fixed THEN f = p ELSE Lowest(f)) /\ VS!Map(kcbs[k].root, p, f)
  BY DEF MapPage, Root, Kcb
<1>5. SpacesApart' /\ VS!Live' = VS!Live
  BY <1>1, <1>2, <1>4, MapApart, MapSpace, Constants
<1>6. /\ pc' = [pc EXCEPT ![t] = "map"] /\ pc' = pc /\ job' = [job EXCEPT ![t] = j]
      /\ kcbs' = kcbs /\ slots' = slots /\ mem' = mem /\ asked' = asked /\ run' = run
      /\ mine' = mine /\ over' = over /\ early' = early /\ lost' = lost /\ twice' = twice
      /\ calls' = calls
  BY <1>1 DEF MapPage, accel, table, Typed, TypeOK
<1>7. "map" \in Pcs /\ "map" \notin Loads \cup Frees /\ "map" \in Uses
  BY DEF Pcs, Loads, Frees, Uses
<1> HIDE DEF k, p, j
<1>8. Typed'
  <2>1. /\ DOMAIN mem' = Frame
        /\ \A g \in Frame : mem'[g].kind \in {"empty", "code", "args", "data", "result", "table"}
    BY <1>1, <1>6, SameMemory
  <2>2. Moves(t, "map", j)
    BY <1>6 DEF Moves
  <2>3. kcbs' \in [Kids -> Kernel] /\ slots' \in 0 .. MaxKernels /\ mine' \in [Thread -> SUBSET Kids]
    BY <1>1, <1>6 DEF Typed, TypeOK
  <2>4. /\ asked' \in Run /\ run' \in Run /\ over' \subseteq Kids /\ early' \in BOOLEAN
        /\ twice' \in BOOLEAN /\ lost' \subseteq Frame /\ calls' \in 0 .. MaxCalls
    BY <1>1, <1>6 DEF Typed, TypeOK
  <2> QED BY <1>1, <1>3, <1>5, <1>7, <2>1, <2>2, <2>3, <2>4, StepTyped
<1>9. OthersSame(t) /\ pc'[t] = "map" /\ job'[t] = j
  BY <1>1, <1>6 DEF OthersSame, Typed, TypeOK
<1>10. CallOK(t)'
  <2>1. Claims(t)' = Claims(t)
    BY <1>1, <1>6, <1>7, <1>9 DEF Claims
  <2> QED BY <1>1, <1>3, <1>6, <1>7, <1>9, <2>1 DEF CallOK, Frees, k
<1>11. OwnersInv' /\ Owned' = Owned
  BY <1>1, <1>5, <1>6, <1>7, <1>9, <1>10, QuietOwners
<1> QED BY <1>5, <1>8, <1>11 DEF IInv

(***************************************************************************)
(* The device.                                                             *)
(***************************************************************************)
LEMMA DeviceInv ==
  ASSUME IInv, UNCHANGED <<table, space, pc, job, mine, over, early, lost, twice, calls>>,
         DOMAIN mem' = Frame,
         \A f \in Frame : mem'[f].kind \in {"empty", "code", "args", "data", "result", "table"},
         asked' \in Run, run' \in Run
  PROVE  IInv' /\ Owned' = Owned
<1>1. /\ kcbs' = kcbs /\ slots' = slots /\ space' = space /\ pc' = pc /\ job' = job
      /\ mine' = mine /\ over' = over /\ early' = early /\ lost' = lost /\ twice' = twice
      /\ calls' = calls
  BY DEF table
<1>2. VS!Live' = VS!Live
  BY <1>1 DEF VS!Live
<1>3. SpacesApart'
  BY <1>1, <1>2 DEF IInv, SpacesApart, SpaceOK, OwnFrame
<1>4. Typed'
  <2>1. asked'.root \in Roots /\ run'.root \in Roots
    BY DEF Run, Roots, NoRun
  <2>2. SpaceTyped'
    BY <1>3, SpacesTyped
  <2> QED BY <1>1, <2>1, <2>2 DEF IInv, Typed, TypeOK, SpaceTyped
<1>5. Owned' = Owned /\ \A t \in Thread : Claims(t)' = Claims(t)
  BY <1>1 DEF Owned, Owns, Claims
<1>6. OwnersInv'
  <2>1. OneClaim' /\ OneTable' /\ OneRoot'
    BY <1>1, <1>5 DEF IInv, OwnersInv, OneClaim, OneTable, OneRoot
  <2>2. TablesOwned'
    BY <1>1, <1>2, <1>5 DEF IInv, OwnersInv, TablesOwned, HasOwner
  <2>3. \A t \in Thread : CallOK(t)' /\ LoadOK(t)'
    BY <1>1, <1>2, <1>5 DEF IInv, OwnersInv, CallOK, LoadOK, Kcb
  <2>4. \A k \in Owned' : KernelOK(k)'
    BY <1>1, <1>2, <1>5 DEF IInv, OwnersInv, KernelOK
  <2> QED BY <2>1, <2>2, <2>3, <2>4 DEF OwnersInv
<1> QED BY <1>3, <1>4, <1>5, <1>6 DEF IInv

LEMMA RunBeginsInv ==
  ASSUME IInv, RunBegins
  PROVE  IInv' /\ Owned' = Owned
<1>1. asked' \in Run /\ run' \in Run
  BY DEF RunBegins, DR!Begin, IInv, Typed, Run
<1> QED BY <1>1, DeviceInv, SameMemory DEF RunBegins, Others, IInv

LEMMA RunEndsInv ==
  ASSUME IInv, RunEnds
  PROVE  IInv' /\ Owned' = Owned
<1>1. asked' \in Run /\ run' \in Run
  BY DEF RunEnds, DR!End, IInv, Typed, Run
<1>2. /\ DOMAIN mem' = Frame
      /\ \A f \in Frame : mem'[f].kind \in {"empty", "code", "args", "data", "result", "table"}
  BY DEF RunEnds, Piece, IInv, Typed, TypeOK
<1> QED BY <1>1, <1>2, DeviceInv DEF RunEnds, Others

----------------------------------------------------------------------------
(* Actions that change who claims or owns what.                            *)

(***************************************************************************)
(* What such a step keeps, whatever it does with the tables.               *)
(***************************************************************************)
LEMMA ClaimsStep ==
  ASSUME IInv, NEW t \in Thread, OthersSame(t), slots' \in Nat, slots' >= slots,
         \A u \in Thread : \A k \in Claims(u) : u # t => k \notin Claims(t)',
         \A k \in Kids : k \in Claims(t) \/ k > slots \/ kcbs'[k] = kcbs[k],
         CallOK(t)'
  PROVE  OneClaim' /\ \A u \in Thread : CallOK(u)'
<1>1. OneClaim'
  <2> SUFFICES ASSUME NEW u \in Thread, NEW w \in Thread, NEW k \in Claims(u)', k \in Claims(w)'
               PROVE  u = w
    BY DEF OneClaim
  <2>1. \A v \in Thread : v # t => Claims(v)' = Claims(v)
    BY SameClaims
  <2>2. CASE u = t \/ w = t
    BY <2>1, <2>2
  <2>3. CASE u # t /\ w # t
    BY <2>1, <2>3 DEF IInv, OwnersInv, OneClaim
  <2> QED BY <2>2, <2>3
<1>2. ASSUME NEW u \in Thread PROVE CallOK(u)'
  BY OtherCall DEF IInv
<1> QED BY <1>1, <1>2

(***************************************************************************)
(* What is claimed and not owned is owned by nobody.                       *)
(***************************************************************************)
LEMMA NotOwned ==
  ASSUME IInv, NEW t \in Thread, NEW k \in Claims(t) \ Owns(t)
  PROVE  k \notin Owned
<1> SUFFICES ASSUME NEW u \in Thread, k \in Owns(u) PROVE FALSE
  BY DEF Owned
<1>1. k \in Claims(u)
  BY OwnsIn DEF IInv
<1> QED BY <1>1 DEF IInv, OwnersInv, OneClaim

LEMMA OwnedStep ==
  ASSUME NEW t \in Thread, OthersSame(t)
  PROVE  /\ Owns(t)' = Owns(t) => Owned' = Owned
         /\ \A k : Owns(t)' = Owns(t) \cup {k} => Owned' = Owned \cup {k}
         /\ \A k : Owns(t)' = Owns(t) \ {k} /\ (\A u \in Thread : u # t => k \notin Owns(u))
                   => Owned' = Owned \ {k}
<1>1. \A u \in Thread : u # t => Owns(u)' = Owns(u)
  BY SameClaims
<1>2. \A k : (k \in Owned <=> \E u \in Thread : k \in Owns(u))
  BY DEF Owned
<1>3. \A k : (k \in Owned' <=> \E u \in Thread : k \in Owns(u)')
  BY DEF Owned
<1>4. ASSUME Owns(t)' = Owns(t) PROVE Owned' = Owned
  BY <1>1, <1>2, <1>3, <1>4
<1>5. ASSUME NEW k, Owns(t)' = Owns(t) \cup {k} PROVE Owned' = Owned \cup {k}
  BY <1>1, <1>2, <1>3, <1>5
<1>6. ASSUME NEW k, Owns(t)' = Owns(t) \ {k}, \A u \in Thread : u # t => k \notin Owns(u)
      PROVE  Owned' = Owned \ {k}
  BY <1>1, <1>2, <1>3, <1>6
<1> QED BY <1>4, <1>5, <1>6

(***************************************************************************)
(* The kernels that stay owned, and their tables, are as they were.        *)
(***************************************************************************)
LEMMA RootsStay ==
  ASSUME IInv, Owned' \subseteq Owned, lost' = lost,
         \A k \in Owned' : kcbs'[k] = kcbs[k] /\ kcbs[k].root \in VS!Live'
  PROVE  OneRoot' /\ \A k \in Owned' : KernelOK(k)'
BY DEF IInv, OwnersInv, OneRoot, KernelOK

\* The kernel id that a load gets is claimed by nobody.
LEMMA NewKidFree ==
  ASSUME IInv, NEW k \in Kids, NewKid(k), \A u \in Thread : Loading(u) => job[u].kid # k,
         NEW u \in Thread
  PROVE  k \notin Claims(u)
<1> SUFFICES ASSUME k \in Claims(u) PROVE FALSE
  OBVIOUS
<1>1. CallOK(u) /\ slots \in Nat /\ k \in 1 .. slots
  BY DEF IInv, OwnersInv, CallOK, Typed, TypeOK
<1>2. kcbs[k].value = FALSE \/ k = slots + 1
  BY DEF NewKid, FreeSlots, IInv, Typed, TypeOK, Kernel
<1>3. ~kcbs[k].value
  BY <1>1, <1>2
<1>4. CASE k \in Owns(u)
  BY <1>3, <1>4 DEF Owned, IInv, OwnersInv, KernelOK
<1>5. CASE k \notin Owns(u)
  <2>1. k = job[u].kid /\ pc[u] \in {"table", "read", "slot"}
    BY <1>5 DEF Claims, Owns, Loads, Frees
  <2> QED BY <1>1, <1>3, <2>1 DEF Loading, CallOK, Kcb
<1> QED BY <1>4, <1>5

LEMMA AllocateKernelInv ==
  ASSUME IInv, NEW t \in Thread, NEW b \in Binary, AllocateKernel(t, b), ~twice'
  PROVE  IInv' /\ Owned' = Owned /\ \A i \in Owned : kcbs'[i] = kcbs[i]
<1>1. /\ mine' = mine /\ Typed /\ SpacesApart /\ kcbs \in [Kids -> Kernel] /\ slots \in 0 .. MaxKernels
  BY DEF AllocateKernel, IInv, Typed, TypeOK
<1>2. PICK k \in Kids :
        /\ NewKid(k) /\ Call(t, "table", [On(k) EXCEPT !.binary = b])
        /\ IF k \in FreeSlots THEN UNCHANGED table
           ELSE slots' = k /\ kcbs' = [kcbs EXCEPT ![k] = Dummy]
        /\ twice' = (\E u \in Thread : Loading(u) /\ job[u].kid = k)
  BY DEF AllocateKernel
<1> DEFINE j == [On(k) EXCEPT !.binary = b]
<1>3. /\ space' = space /\ lost' = lost /\ pc[t] = "idle"
      /\ pc' = [pc EXCEPT ![t] = "table"] /\ job' = [job EXCEPT ![t] = j]
  BY <1>2 DEF Call, Goto
<1>4. /\ j \in Job /\ j.kid = k /\ j.binary = b
  <2>1. <<>> \in Seq(Mapped) /\ 0 \in 0 .. MaxKernels
    BY SpinnerAssumption
  <2> QED BY <2>1 DEF On, NoJob, Job, Roots
<1> HIDE DEF j
<1>5. /\ "table" \in Pcs /\ "table" \in Loads /\ "table" \notin Uses
      /\ "idle" \notin Loads \cup Frees
  BY DEF Pcs, Loads, Frees, Uses
<1>6. Dummy \in Kernel
  BY DEF Dummy, NoKcb, Kernel, Roots
<1>7. /\ k \in 1 .. slots' /\ slots' \in 0 .. MaxKernels /\ slots' >= slots
      /\ kcbs' \in [Kids -> Kernel]
      /\ \A i \in Kids : i > slots \/ kcbs'[i] = kcbs[i]
  <2>1. CASE k \in FreeSlots
    BY <1>1, <1>2, <2>1 DEF FreeSlots, table
  <2>2. CASE k \notin FreeSlots
    <3>1. k = slots + 1 /\ slots' = k /\ kcbs' = [kcbs EXCEPT ![k] = Dummy]
      BY <1>2, <2>2 DEF NewKid
    <3>2. k \in 1 .. MaxKernels
      BY DEF Kids
    <3> QED BY <1>1, <1>6, <3>1, <3>2, SpinnerAssumption
  <2> QED BY <2>1, <2>2
<1>8. Typed' /\ SpacesApart'
  <2>1. twice' \in BOOLEAN
    BY <1>2
  <2> QED BY <1>1, <1>2, <1>4, <1>5, <1>7, <2>1, CallTyped DEF Typed, TypeOK, j
<1>9. OthersSame(t) /\ pc'[t] = "table" /\ job'[t] = j
  BY <1>1, <1>3 DEF OthersSame, Typed, TypeOK
<1>10. Claims(t) = mine[t] /\ Owns(t) = mine[t] /\ \A u \in Thread : Claims(u) \subseteq 1 .. slots
  <2>1. Claims(t) = mine[t] /\ Owns(t) = mine[t]
    BY <1>3, <1>5 DEF Claims, Owns
  <2> QED BY <2>1 DEF IInv, OwnersInv, CallOK
<1>11. Owned' = Owned
  <2>1. Owns(t)' = Owns(t)
    BY <1>1, <1>9, <1>10 DEF Owns
  <2> QED BY <1>9, <2>1, OwnedStep
<1>12. \A u \in Thread : k \notin Claims(u)
  <2>1. \A u \in Thread : Loading(u) => job[u].kid # k
    BY <1>2
  <2> QED BY <1>2, <2>1, NewKidFree
<1>13. CallOK(t)' /\ Claims(t)' = mine[t] \cup {k}
  <2>1. Claims(t)' = mine[t] \cup {k}
    BY <1>1, <1>4, <1>5, <1>9 DEF Claims
  <2>2. Claims(t)' \subseteq 1 .. slots'
    BY <1>1, <1>7, <1>10, <2>1
  <2>3. k \notin mine[t]
    BY <1>10, <1>12
  <2> QED BY <1>1, <1>4, <1>5, <1>9, <2>1, <2>2, <2>3 DEF CallOK
<1>14. OneClaim' /\ \A u \in Thread : CallOK(u)'
  <2>1. \A u \in Thread : \A i \in Claims(u) : u # t => i \notin Claims(t)'
    BY <1>10, <1>12, <1>13 DEF IInv, OwnersInv, OneClaim
  <2> QED BY <1>1, <1>7, <1>9, <1>13, <2>1, ClaimsStep
<1>15. \A i \in Owned : kcbs'[i] = kcbs[i]
  <2>1. \A i \in Owned : i \in Kids /\ i \in 1 .. slots
    BY <1>1, <1>10, OwnedIn, OwnsIn DEF Owned
  <2> QED BY <1>1, <1>7, <2>1
<1>16. OneRoot' /\ \A i \in Owned' : KernelOK(i)'
  <2>1. \A i \in Owned : kcbs[i].root \in VS!Live'
    BY <1>3 DEF VS!Live, IInv, OwnersInv, KernelOK
  <2> QED BY <1>3, <1>11, <1>15, <2>1, RootsStay
<1>17. \A u \in Thread : /\ pc'[u] = "read" <=> pc[u] = "read"
                         /\ pc[u] = "read" => job'[u] = job[u]
  BY <1>3, <1>9 DEF OthersSame
<1>18. OneTable' /\ TablesOwned' /\ \A u \in Thread : LoadOK(u)'
  BY <1>3, <1>11, <1>15, <1>17
     DEF IInv, OwnersInv, OneTable, TablesOwned, HasOwner, LoadOK, VS!Live
<1> QED BY <1>8, <1>11, <1>14, <1>15, <1>16, <1>18 DEF IInv, OwnersInv

(***************************************************************************)
(* What a load or a free in progress knows of its kernel.                  *)
(***************************************************************************)
LEMMA ClaimTyped ==
  ASSUME IInv, NEW t \in Thread, pc[t] \in Loads \cup Frees
  PROVE  /\ job[t].kid \in Kids /\ job[t].kid \in 1 .. slots /\ job[t].kid \in Claims(t)
         /\ job[t].kid \notin mine[t] /\ CallOK(t) /\ LoadOK(t) /\ slots \in Nat
         /\ Claims(t) = mine[t] \cup {job[t].kid}
         /\ \A u \in Thread : \A k \in Claims(u) : u # t => k \notin Claims(t)
         /\ Typed /\ SpacesApart /\ kcbs \in [Kids -> Kernel]
<1>1. /\ CallOK(t) /\ LoadOK(t) /\ Claims(t) = mine[t] \cup {job[t].kid} /\ slots \in 0 .. MaxKernels
      /\ Typed /\ SpacesApart /\ kcbs \in [Kids -> Kernel]
  BY DEF IInv, OwnersInv, Claims, Typed, TypeOK
<1>2. job[t].kid \in 1 .. slots /\ job[t].kid \in Kids
  BY <1>1, SpinnerAssumption DEF CallOK, Kids
<1> QED BY <1>1, <1>2 DEF CallOK, IInv, OwnersInv, OneClaim

LEMMA AllocatePageTableInv ==
  ASSUME IInv, NEW t \in Thread, AllocatePageTable(t)
  PROVE  IInv' /\ Owned' = Owned
<1>1. pc[t] = "table" /\ pc[t] \in Loads /\ "read" \in Loads /\ "read" \in Pcs /\ "read" \notin Uses
  BY DEF AllocatePageTable, Loads, Pcs, Uses
<1>2. PICK f \in Frame : Lowest(f) /\ VS!Create(f) /\ job' = [job EXCEPT ![t].root = f]
  BY DEF AllocatePageTable
<1> DEFINE j == [job[t] EXCEPT !.root = f]
<1>3. /\ pc' = [pc EXCEPT ![t] = "read"] /\ job' = [job EXCEPT ![t] = j]
      /\ kcbs' = kcbs /\ slots' = slots /\ mem' = mem /\ asked' = asked /\ run' = run
      /\ mine' = mine /\ over' = over /\ early' = early /\ lost' = lost /\ twice' = twice
      /\ calls' = calls
  BY <1>2 DEF AllocatePageTable, Goto, table, accel
<1>4. /\ j \in Job /\ j.kid = job[t].kid /\ j.binary = job[t].binary /\ j.root = f
  BY Thing DEF IInv, Job, Roots
<1> HIDE DEF j
<1>5. /\ SpacesApart' /\ VS!Live' = VS!Live \cup {f} /\ f \notin VS!Live
  BY <1>2, CreateApart DEF IInv
<1>6. Typed'
  BY <1>1, <1>3, <1>4, <1>5, SameMemory, StepTyped DEF IInv, Typed, TypeOK, Moves
<1>7. OthersSame(t) /\ pc'[t] = "read" /\ job'[t] = j
  BY <1>3 DEF OthersSame, IInv, Typed, TypeOK
<1>8. Claims(t)' = Claims(t) /\ Owned' = Owned
  <2>1. Claims(t)' = Claims(t)
    BY <1>1, <1>3, <1>4, <1>7 DEF Claims
  <2>2. Owns(t)' = Owns(t)
    BY <1>1, <1>3, <1>7 DEF Owns
  <2> QED BY <1>7, <2>1, <2>2, OwnedStep
<1>9. CallOK(t)'
  BY <1>1, <1>3, <1>4, <1>7, <1>8, ClaimTyped DEF CallOK
<1>10. OneClaim' /\ \A u \in Thread : CallOK(u)'
  BY <1>1, <1>3, <1>7, <1>8, <1>9, ClaimTyped, ClaimsStep
<1>11. OneRoot' /\ \A k \in Owned' : KernelOK(k)'
  BY <1>3, <1>5, <1>8, RootsStay DEF IInv, OwnersInv, KernelOK
<1>12. \A u \in Thread : u # t =>
         /\ pc'[u] = "read" <=> pc[u] = "read"
         /\ pc[u] = "read" => job'[u] = job[u] /\ job[u].root \in VS!Live /\ LoadOK(u)
  BY <1>7 DEF OthersSame, IInv, OwnersInv, LoadOK
<1>13. OneTable' /\ \A u \in Thread : LoadOK(u)'
  <2>1. f \notin lost /\ \A k \in Owned : kcbs[k].root # f
    BY <1>5 DEF IInv, OwnersInv, TablesOwned, KernelOK
  <2>2. \A u \in Thread : LoadOK(u)'
    BY <1>3, <1>4, <1>5, <1>7, <1>8, <1>12, <2>1 DEF LoadOK
  <2>3. OneTable'
    BY <1>4, <1>5, <1>7, <1>12 DEF OneTable, IInv, OwnersInv
  <2> QED BY <2>2, <2>3
<1>14. TablesOwned'
  <2>1. lost' \subseteq VS!Live'
    BY <1>3, <1>5 DEF IInv, OwnersInv, TablesOwned
  <2>2. ASSUME NEW r \in VS!Live' \ lost' PROVE HasOwner(r)'
    <3>1. CASE r = f
      BY <1>4, <1>7, <3>1 DEF HasOwner
    <3>2. CASE r # f
      <4>1. HasOwner(r)
        BY <1>3, <1>5, <2>2, <3>2 DEF IInv, OwnersInv, TablesOwned
      <4> QED BY <1>1, <1>3, <1>8, <1>12, <4>1 DEF HasOwner
    <3> QED BY <3>1, <3>2
  <2> QED BY <2>1, <2>2 DEF TablesOwned
<1> QED BY <1>5, <1>6, <1>8, <1>10, <1>11, <1>13, <1>14 DEF IInv, OwnersInv

(***************************************************************************)
(* A step that ends a load or a free and gives up its kernel id, and at    *)
(* most one table.                                                         *)
(***************************************************************************)
LEMMA GiveUp ==
  ASSUME IInv, NEW t \in Thread, pc[t] \in {"table", "read", "slot"},
         Moves(t, "idle", NoJob), UNCHANGED <<slots, space, mem, accel, mine, early, twice, calls>>,
         kcbs' \in [Kids -> Kernel], \A k \in Kids : k # job[t].kid => kcbs'[k] = kcbs[k],
         over' \subseteq over,
         IF pc[t] = "read" THEN lost' = lost \cup {job[t].root} ELSE lost' = lost
  PROVE  IInv' /\ Owned' = Owned
<1>1. /\ pc[t] \in Loads \cup Frees /\ pc[t] # "free" /\ "idle" \in Pcs
      /\ "idle" \notin Loads \cup Frees \cup Uses
  BY DEF Loads, Frees, Pcs, Uses
<1>2. /\ pc' = [pc EXCEPT ![t] = "idle"] /\ job' = [job EXCEPT ![t] = NoJob]
      /\ slots' = slots /\ space' = space /\ mem' = mem /\ asked' = asked /\ run' = run
      /\ mine' = mine /\ early' = early /\ twice' = twice /\ calls' = calls
  BY DEF Moves, accel
<1>3. VS!Live' = VS!Live /\ SpacesApart'
  BY <1>2 DEF IInv, SpacesApart, SpaceOK, OwnFrame, VS!Live
<1>4. lost' \subseteq VS!Live /\ lost' \subseteq Frame
  BY <1>3, ClaimTyped, <1>1 DEF LoadOK, IInv, OwnersInv, TablesOwned, SpacesApart, SpaceOK
<1>5. Typed'
  BY <1>1, <1>2, <1>3, <1>4, NoJobTyped, SameMemory, StepTyped DEF IInv, Typed, TypeOK
<1>6. OthersSame(t) /\ pc'[t] = "idle" /\ job'[t] = NoJob
  BY <1>2 DEF OthersSame, IInv, Typed, TypeOK
<1>7. Claims(t)' = mine[t] /\ Owned' = Owned
  <2>1. Claims(t)' = mine[t]
    BY <1>1, <1>2, <1>6 DEF Claims
  <2>2. Owns(t)' = Owns(t)
    BY <1>1, <1>2, <1>6 DEF Owns
  <2> QED BY <1>6, <2>1, <2>2, OwnedStep
<1>8. CallOK(t)'
  BY <1>1, <1>2, <1>6, <1>7, ClaimTyped DEF CallOK, Uses
<1>9. OneClaim' /\ \A u \in Thread : CallOK(u)'
  <2>1. \A u \in Thread : \A k \in Claims(u) : u # t => k \notin Claims(t)'
    BY <1>1, <1>7, ClaimTyped
  <2> QED BY <1>1, <1>2, <1>6, <1>8, <2>1, ClaimTyped, ClaimsStep
<1>10. \A k \in Owned : k \in Kids /\ kcbs'[k] = kcbs[k]
  <2>1. job[t].kid \notin Owned
    <3>1. job[t].kid \in Claims(t) \ Owns(t)
      BY <1>1, ClaimTyped DEF Owns
    <3> QED BY <3>1, NotOwned
  <2> QED BY <2>1, OwnedIn
<1>11. OneRoot' /\ \A k \in Owned' : KernelOK(k)'
  <2>1. \A k \in Owned : kcbs[k].root \notin lost'
    BY <1>1, ClaimTyped DEF LoadOK, IInv, OwnersInv, KernelOK
  <2> QED BY <1>3, <1>7, <1>10, <2>1 DEF IInv, OwnersInv, OneRoot, KernelOK
<1>12. ASSUME NEW u \in Thread PROVE LoadOK(u)'
  <2>1. CASE u = t
    BY <1>6, <2>1 DEF LoadOK
  <2>2. CASE u # t
    <3>1. pc'[u] = pc[u] /\ job'[u] = job[u] /\ LoadOK(u)
      BY <1>6, <2>2 DEF OthersSame, IInv, OwnersInv
    <3>2. pc[u] = "read" => job[u].root \notin lost'
      BY <2>2, <3>1 DEF IInv, OwnersInv, OneTable, LoadOK
    <3> QED BY <1>3, <1>7, <1>10, <3>1, <3>2 DEF LoadOK
  <2> QED BY <2>1, <2>2
<1>13. TablesOwned'
  <2>1. ASSUME NEW r \in VS!Live' \ lost' PROVE HasOwner(r)'
    <3>1. HasOwner(r) /\ ~(pc[t] = "read" /\ job[t].root = r)
      BY <1>3, <2>1 DEF IInv, OwnersInv, TablesOwned
    <3>2. CASE \E k \in Owned : kcbs[k].root = r
      BY <1>7, <1>10, <3>2 DEF HasOwner
    <3>3. CASE \E u \in Thread : pc[u] = "read" /\ job[u].root = r
      BY <1>6, <3>1, <3>3 DEF HasOwner, OthersSame
    <3> QED BY <3>1, <3>2, <3>3 DEF HasOwner
  <2> QED BY <1>3, <1>4, <2>1 DEF TablesOwned
<1>14. OneTable'
  BY <1>6 DEF OneTable, OthersSame, IInv, OwnersInv
<1> QED BY <1>3, <1>5, <1>7, <1>9, <1>11, <1>12, <1>13, <1>14 DEF IInv, OwnersInv

LEMMA GiveUps ==
  ASSUME IInv, NEW t \in Thread, PageTableFails(t) \/ ReadVxbinThrows(t) \/ FreeKcb(t)
  PROVE  IInv' /\ Owned' = Owned
<1>1. NoKcb \in Kernel /\ kcbs \in [Kids -> Kernel]
  BY DEF NoKcb, Kernel, Roots, IInv, Typed, TypeOK
<1>2. CASE PageTableFails(t)
  <2>1. Moves(t, "idle", NoJob) /\ pc[t] = "table" /\ kcbs' = [kcbs EXCEPT ![job[t].kid] = NoKcb]
    BY <1>2 DEF PageTableFails, Return, Goto, Moves
  <2> QED BY <1>1, <1>2, <2>1, GiveUp DEF PageTableFails
<1>3. CASE ReadVxbinThrows(t)
  <2>1. Moves(t, "idle", NoJob) /\ pc[t] = "read" /\ kcbs' = kcbs /\ slots' = slots
    BY <1>3 DEF ReadVxbinThrows, Return, Goto, Moves, table
  <2>2. /\ UNCHANGED <<slots, space, mem, accel, mine, early, twice, calls>>
        /\ over' \subseteq over
        /\ IF pc[t] = "read" THEN lost' = lost \cup {job[t].root} ELSE lost' = lost
    BY <1>3, <2>1 DEF ReadVxbinThrows
  <2>3. kcbs' \in [Kids -> Kernel] /\ \A k \in Kids : k # job[t].kid => kcbs'[k] = kcbs[k]
    BY <1>1, <2>1
  <2> QED BY <2>1, <2>2, <2>3, GiveUp
<1>4. CASE FreeKcb(t)
  <2>1. Moves(t, "idle", NoJob) /\ pc[t] = "slot" /\ kcbs' = [kcbs EXCEPT ![job[t].kid] = NoKcb]
    BY <1>4 DEF FreeKcb, Return, Goto, Moves
  <2>2. /\ UNCHANGED <<slots, space, mem, accel, mine, early, twice, calls>>
        /\ over' \subseteq over
        /\ IF pc[t] = "read" THEN lost' = lost \cup {job[t].root} ELSE lost' = lost
    BY <1>4, <2>1 DEF FreeKcb
  <2>3. kcbs' \in [Kids -> Kernel] /\ \A k \in Kids : k # job[t].kid => kcbs'[k] = kcbs[k]
    BY <1>1, <2>1
  <2> QED BY <2>1, <2>2, <2>3, GiveUp
<1> QED BY <1>2, <1>3, <1>4

LEMMA ReadVxbinInv ==
  ASSUME IInv, NEW t \in Thread, ReadVxbin(t)
  PROVE  IInv' /\ Owned' = Owned \cup {job[t].kid}
<1> DEFINE k == job[t].kid
           c == [root |-> job[t].root, binary |-> job[t].binary, args |-> 0,
                 top |-> HeapBase, value |-> TRUE]
<1>1. /\ pc[t] = "read" /\ pc[t] \in Loads /\ "idle" \in Pcs
      /\ "idle" \notin Loads \cup Frees \cup Uses
  BY DEF ReadVxbin, Loads, Frees, Pcs, Uses
<1>2. /\ pc' = [pc EXCEPT ![t] = "idle"] /\ job' = [job EXCEPT ![t] = NoJob]
      /\ kcbs' = [kcbs EXCEPT ![k] = c] /\ mine' = [mine EXCEPT ![t] = @ \cup {k}]
      /\ slots' = slots /\ space' = space /\ mem' = mem /\ asked' = asked /\ run' = run
      /\ over' = over /\ early' = early /\ lost' = lost /\ twice' = twice /\ calls' = calls
  BY DEF ReadVxbin, Return, Goto, accel
<1>3. /\ k \in Kids /\ k \in Claims(t) /\ job[t].root \in VS!Live \ lost
      /\ Claims(t) = mine[t] \cup {k} /\ job[t].binary \in Binary
      /\ \A i \in Owned : kcbs[i].root # job[t].root
  BY <1>1, ClaimTyped DEF CallOK, LoadOK
<1>4. VS!Live' = VS!Live /\ SpacesApart'
  BY <1>2 DEF IInv, SpacesApart, SpaceOK, OwnFrame, VS!Live
<1>5. c \in Kernel /\ c.root = job[t].root /\ c.value /\ c.top \in Top
  <2>1. job[t].root \in Roots
    BY Thing DEF IInv, Roots
  <2> QED BY <1>3, <2>1, Constants DEF Kernel
<1> HIDE DEF c
<1>6. kcbs' \in [Kids -> Kernel] /\ kcbs'[k] = c /\ \A i \in Kids : i # k => kcbs'[i] = kcbs[i]
  BY <1>2, <1>3, <1>5 DEF IInv, Typed, TypeOK
<1>7. mine' \in [Thread -> SUBSET Kids] /\ mine'[t] = mine[t] \cup {k}
  BY <1>2, <1>3 DEF IInv, Typed, TypeOK
<1>8. Typed'
  BY <1>1, <1>2, <1>4, <1>6, <1>7, NoJobTyped, SameMemory, StepTyped
     DEF IInv, Typed, TypeOK, Moves
<1>9. OthersSame(t) /\ pc'[t] = "idle" /\ job'[t] = NoJob
  BY <1>2 DEF OthersSame, IInv, Typed, TypeOK
<1>10. Claims(t)' = Claims(t) /\ Owned' = Owned \cup {k}
  <2>1. Claims(t)' = Claims(t)
    BY <1>1, <1>3, <1>7, <1>9 DEF Claims
  <2>2. Owns(t)' = Owns(t) \cup {k}
    BY <1>1, <1>7, <1>9 DEF Owns
  <2> QED BY <1>9, <2>1, <2>2, OwnedStep
<1>11. CallOK(t)'
  BY <1>1, <1>2, <1>9, <1>10, ClaimTyped DEF CallOK
<1>12. OneClaim' /\ \A u \in Thread : CallOK(u)'
  BY <1>1, <1>2, <1>3, <1>6, <1>9, <1>10, <1>11, ClaimTyped, ClaimsStep
<1>13. k \notin Owned /\ \A i \in Owned : i \in Kids /\ kcbs'[i] = kcbs[i]
  <2>1. k \notin Owned
    <3>1. k \in Claims(t) \ Owns(t)
      BY <1>1, <1>3, ClaimTyped DEF Owns
    <3> QED BY <3>1, NotOwned
  <2> QED BY <1>6, <2>1, OwnedIn
<1>14. OneRoot' /\ \A i \in Owned' : KernelOK(i)'
  BY <1>2, <1>3, <1>4, <1>5, <1>6, <1>10, <1>13 DEF IInv, OwnersInv, OneRoot, KernelOK
<1>15. OneTable' /\ \A u \in Thread : LoadOK(u)'
  <2>1. pc'[t] # "read" /\ \A u \in Thread : u # t =>
          /\ pc'[u] = pc[u] /\ job'[u] = job[u] /\ LoadOK(u)
          /\ pc[u] = "read" => job[u].root # job[t].root
    BY <1>1, <1>9 DEF OthersSame, IInv, OwnersInv, OneTable
  <2>2. OneTable'
    BY <2>1 DEF OneTable, IInv, OwnersInv
  <2>3. ASSUME NEW u \in Thread, pc'[u] = "read" PROVE LoadOK(u)'
    BY <1>2, <1>4, <1>5, <1>6, <1>10, <1>13, <2>1, <2>3 DEF LoadOK
  <2> QED BY <2>2, <2>3 DEF LoadOK
<1>16. TablesOwned'
  <2>1. ASSUME NEW r \in VS!Live' \ lost' PROVE HasOwner(r)'
    <3>1. HasOwner(r)
      BY <1>2, <1>4, <2>1 DEF IInv, OwnersInv, TablesOwned
    <3>2. CASE \E i \in Owned : kcbs[i].root = r
      BY <1>10, <1>13, <3>2 DEF HasOwner
    <3>3. CASE \E u \in Thread : pc[u] = "read" /\ job[u].root = r
      <4>1. PICK u \in Thread : pc[u] = "read" /\ job[u].root = r
        BY <3>3
      <4>2. CASE u = t
        BY <1>5, <1>6, <1>10, <4>1, <4>2 DEF HasOwner
      <4>3. CASE u # t
        BY <1>9, <4>1, <4>3 DEF HasOwner, OthersSame
      <4> QED BY <4>2, <4>3
    <3> QED BY <3>1, <3>2, <3>3 DEF HasOwner
  <2> QED BY <1>2, <1>4, <2>1 DEF IInv, OwnersInv, TablesOwned
<1> QED BY <1>4, <1>8, <1>10, <1>12, <1>14, <1>15, <1>16 DEF IInv, OwnersInv

LEMMA FreeKernelInv ==
  ASSUME IInv, NEW t \in Thread, NEW k \in mine[t], FreeKernel(t, k)
  PROVE  IInv' /\ Owned' = Owned
<1>1. /\ k \in Kids /\ On(k) \in Job /\ On(k).kid = k /\ k \in Owned
      /\ Typed /\ SpacesApart /\ CallOK(t)
  BY OnTyped DEF IInv, OwnersInv
<1>2. /\ "free" \in Pcs /\ "free" \in Frees /\ "free" \notin Uses \cup Loads
      /\ "idle" \notin Loads \cup Frees
  BY DEF Pcs, Frees, Uses, Loads
<1>3. /\ pc[t] = "idle" /\ pc' = [pc EXCEPT ![t] = "free"] /\ job' = [job EXCEPT ![t] = On(k)]
      /\ mine' = [mine EXCEPT ![t] = @ \ {k}] /\ kcbs' = kcbs /\ slots' = slots
      /\ space' = space /\ lost' = lost /\ twice' = twice /\ Call(t, "free", On(k))
  BY DEF FreeKernel, Call, Goto, table
<1>4. mine' \in [Thread -> SUBSET Kids] /\ mine'[t] = mine[t] \ {k}
  BY <1>1, <1>3 DEF Typed, TypeOK
<1>5. Typed' /\ SpacesApart'
  BY <1>1, <1>2, <1>3, <1>4, CallTyped DEF Typed, TypeOK
<1>6. OthersSame(t) /\ pc'[t] = "free" /\ job'[t] = On(k)
  BY <1>1, <1>3 DEF OthersSame, Typed, TypeOK
<1>7. Claims(t)' = Claims(t) /\ Owned' = Owned
  <2>1. Claims(t)' = Claims(t)
    BY <1>1, <1>2, <1>3, <1>4, <1>6 DEF Claims
  <2>2. Owns(t)' = Owns(t)
    BY <1>1, <1>3, <1>4, <1>6 DEF Owns
  <2> QED BY <1>6, <2>1, <2>2, OwnedStep
<1>8. CallOK(t)'
  BY <1>1, <1>2, <1>3, <1>4, <1>6, <1>7 DEF CallOK
<1>9. OneClaim' /\ \A u \in Thread : CallOK(u)'
  <2>1. \A u \in Thread : \A i \in Claims(u) : u # t => i \notin Claims(t)'
    BY <1>7 DEF IInv, OwnersInv, OneClaim
  <2>2. slots \in Nat
    BY <1>1 DEF Typed, TypeOK
  <2> QED BY <1>2, <1>3, <1>6, <1>8, <2>1, <2>2, ClaimsStep
<1>10. VS!Live' = VS!Live
  BY <1>3 DEF VS!Live
<1>11. OneRoot' /\ \A i \in Owned' : KernelOK(i)'
  BY <1>3, <1>7, <1>10 DEF IInv, OwnersInv, OneRoot, KernelOK
<1>12. \A u \in Thread : /\ pc'[u] = "read" <=> pc[u] = "read"
                         /\ pc[u] = "read" => job'[u] = job[u]
  BY <1>3, <1>6 DEF OthersSame
<1>13. OneTable' /\ TablesOwned' /\ \A u \in Thread : LoadOK(u)'
  BY <1>3, <1>7, <1>10, <1>12 DEF IInv, OwnersInv, OneTable, TablesOwned, HasOwner, LoadOK
<1> QED BY <1>5, <1>7, <1>9, <1>11, <1>13 DEF IInv, OwnersInv

LEMMA FreePageTableInv ==
  ASSUME IInv, NEW t \in Thread, FreePageTable(t)
  PROVE  IInv' /\ Owned' = Owned \ {job[t].kid} /\ job[t].kid \in Owned
<1> DEFINE k == job[t].kid
           r == kcbs[k].root
<1>1. /\ pc[t] = "free" /\ pc[t] \in Frees /\ "slot" \in Frees /\ "slot" \in Pcs
      /\ "slot" \notin Uses \cup Loads
  BY DEF FreePageTable, Frees, Pcs, Uses, Loads
<1>2. /\ pc' = [pc EXCEPT ![t] = "slot"] /\ job' = job /\ job' = [job EXCEPT ![t] = job[t]]
      /\ VS!Destroy(r) /\ kcbs' = kcbs /\ slots' = slots
      /\ mem' = mem /\ asked' = asked /\ run' = run
      /\ mine' = mine /\ over' = over /\ lost' = lost /\ twice' = twice /\ calls' = calls
      /\ early' \in BOOLEAN
  BY DEF FreePageTable, Goto, table, accel, Root, Kcb, IInv, Typed, TypeOK
<1>3. /\ k \in Kids /\ k \in Claims(t) /\ k \notin mine[t] /\ k \in Owned
      /\ Claims(t) = mine[t] \cup {k}
  BY <1>1, ClaimTyped DEF Owned, Owns
<1>4. /\ SpacesApart' /\ r \in VS!Live /\ VS!Live' = VS!Live \ {r}
  BY <1>2, DestroyApart DEF IInv
<1> HIDE DEF k, r
<1>5. Typed'
  BY <1>1, <1>2, <1>4, Thing, SameMemory, StepTyped DEF IInv, Typed, TypeOK, Moves
<1>6. OthersSame(t) /\ pc'[t] = "slot" /\ job'[t] = job[t]
  BY <1>2 DEF OthersSame, IInv, Typed, TypeOK
<1>7. Claims(t)' = Claims(t) /\ Owned' = Owned \ {k}
  <2>1. Claims(t)' = Claims(t)
    BY <1>1, <1>2, <1>6 DEF Claims
  <2>2. Owns(t)' = Owns(t) \ {k}
    BY <1>1, <1>2, <1>3, <1>6 DEF Owns, k
  <2>3. \A u \in Thread : u # t => k \notin Owns(u)
    BY <1>3, OwnsIn DEF IInv, OwnersInv, OneClaim
  <2> QED BY <1>6, <2>1, <2>2, <2>3, OwnedStep
<1>8. CallOK(t)'
  <2>1. kcbs[k].value
    BY <1>3 DEF IInv, OwnersInv, KernelOK
  <2> QED BY <1>1, <1>2, <1>6, <1>7, <2>1, ClaimTyped DEF CallOK, Kcb, k
<1>9. OneClaim' /\ \A u \in Thread : CallOK(u)'
  BY <1>1, <1>2, <1>6, <1>7, <1>8, ClaimTyped, ClaimsStep
<1>10. OneRoot' /\ \A i \in Owned' : KernelOK(i)'
  <2>1. \A i \in Owned' : i \in Owned /\ kcbs[i].root # r
    BY <1>3, <1>7 DEF IInv, OwnersInv, OneRoot, r
  <2> QED BY <1>2, <1>4, <1>7, <2>1, RootsStay DEF IInv, OwnersInv, KernelOK
<1>11. \A u \in Thread : /\ pc'[u] = "read" <=> pc[u] = "read"
                         /\ pc[u] = "read" => job'[u] = job[u] /\ job[u].root # r
  BY <1>1, <1>3, <1>6 DEF OthersSame, IInv, OwnersInv, LoadOK, r
<1>12. OneTable' /\ \A u \in Thread : LoadOK(u)'
  BY <1>2, <1>4, <1>7, <1>11 DEF OneTable, LoadOK, IInv, OwnersInv
<1>13. TablesOwned'
  <2>1. r \notin lost
    BY <1>3 DEF IInv, OwnersInv, KernelOK, r
  <2>2. ASSUME NEW q \in VS!Live' \ lost' PROVE HasOwner(q)'
    <3>1. HasOwner(q) /\ q # r
      BY <1>2, <1>4, <2>2 DEF IInv, OwnersInv, TablesOwned
    <3> QED BY <1>2, <1>7, <1>11, <3>1 DEF HasOwner, r
  <2> QED BY <1>2, <1>4, <2>1, <2>2 DEF IInv, OwnersInv, TablesOwned
<1> QED BY <1>3, <1>4, <1>5, <1>7, <1>9, <1>10, <1>12, <1>13 DEF IInv, OwnersInv, k

----------------------------------------------------------------------------
(* The first half is inductive.                                            *)

LEMMA InitInv == Init => IInv
<1> SUFFICES ASSUME Init PROVE IInv
  OBVIOUS
<1>1. VS!Live = {} /\ asked = NoRun /\ run = NoRun
  BY DEF Init, VS!Init, VS!Live, DR!Init
<1>2. NoKcb \in Kernel /\ "idle" \in Pcs /\ "idle" \notin Loads \cup Frees \cup Uses
  BY DEF NoKcb, Kernel, Roots, Pcs, Loads, Frees, Uses
<1>3. Typed
  <2>1. asked.root \in Roots /\ run.root \in Roots
    BY <1>1 DEF NoRun, Roots
  <2>2. \A t \in Thread : job[t].kid \in Kids \cup {0} /\ job[t].root \in Roots
    BY DEF Init, NoJob, Roots
  <2>3. /\ DOMAIN mem = Frame
        /\ \A f \in Frame : mem[f].kind \in {"empty", "code", "args", "data", "result", "table"}
    BY DEF Init, Piece
  <2>4. kcbs \in [Kids -> Kernel] /\ pc \in [Thread -> Pcs] /\ job \in [Thread -> Job]
    BY <1>2, NoJobTyped DEF Init
  <2>5. slots \in 0 .. MaxKernels /\ calls \in 0 .. MaxCalls
    BY SpinnerAssumption DEF Init
  <2>6. mine \in [Thread -> SUBSET Kids]
    BY DEF Init
  <2>7. over \subseteq Kids /\ {early, twice} \subseteq BOOLEAN /\ lost \subseteq Frame
    BY DEF Init
  <2> QED BY <1>1, <2>1, <2>2, <2>3, <2>4, <2>5, <2>6, <2>7 DEF Typed, TypeOK, Run
<1>4. SpacesApart
  BY <1>1 DEF SpacesApart
<1>5. \A t \in Thread : Owns(t) = {} /\ Claims(t) = {} /\ pc[t] = "idle"
  BY <1>2 DEF Init, Owns, Claims
<1>6. Owned = {}
  BY <1>5 DEF Owned
<1>7. OwnersInv
  BY <1>1, <1>2, <1>5, <1>6
     DEF Init, OwnersInv, OneClaim, OneTable, OneRoot, TablesOwned, CallOK, LoadOK, Loads, Uses
<1> QED BY <1>3, <1>4, <1>7 DEF IInv

LEMMA NextInv ==
  ASSUME IInv, [Next]_vars, ~twice'
  PROVE  IInv'
<1>1. CASE UNCHANGED vars
  <2>1. /\ UNCHANGED <<table, space, pc, job, mine, over, early, lost, twice, calls>>
        /\ mem' = mem /\ asked' = asked /\ run' = run
    BY <1>1 DEF vars, accel
  <2> QED BY <2>1, DeviceInv, SameMemory DEF IInv, Typed
<1>2. CASE RunBegins \/ RunEnds
  BY <1>2, RunBeginsInv, RunEndsInv
<1>3. ASSUME NEW t \in Thread, NewCall(t) PROVE IInv'
  BY <1>3, AllocateKernelInv, UseCalls, FreeKernelInv DEF NewCall
<1>4. ASSUME NEW t \in Thread, Step(t) PROVE IInv'
  BY <1>4, AllocatePageTableInv, GiveUps, ReadVxbinInv, MapHeapInv, UseSteps, MapPageInv,
     FreePageTableInv DEF Step
<1> QED BY <1>1, <1>2, <1>3, <1>4 DEF Next

(***************************************************************************)
(* Once two loads were given one slot, that stays so.                      *)
(***************************************************************************)
LEMMA TwiceStays ==
  ASSUME [Next]_vars, twice
  PROVE  twice'
<1>1. CASE UNCHANGED vars \/ RunBegins \/ RunEnds
  BY <1>1 DEF vars, RunBegins, RunEnds, Others
<1>2. ASSUME NEW t \in Thread, NewCall(t) PROVE FALSE
  BY <1>2 DEF NewCall, AllocateKernel, AllocateHeap, UploadArgs, Upload, StartKernel, WaitKernel,
     FreeKernel, Call
<1>3. ASSUME NEW t \in Thread, Step(t) PROVE twice' = twice
  BY <1>3 DEF Step, AllocatePageTable, PageTableFails, ReadVxbin, ReadVxbinThrows, MapHeap,
     MapHeapThrows, CopyPage, MapPage, AllMapped, StartThrows, UploadVxbin, UploadPageTable, Start,
     WaitReady, WaitTimesOut, FreePageTable, FreeKcb
<1> QED BY <1>1, <1>2, <1>3 DEF Next

(***************************************************************************)
(* The inductive invariant: whatever is loaded, started and freed by       *)
(* however many threads at once, each kernel id has one claimant and each  *)
(* table one owner, until two loads at once are given one slot.            *)
(***************************************************************************)
THEOREM Invariance == Spec => [](~twice => IInv)
<1>1. Init => (~twice => IInv)
  BY InitInv
<1>2. (~twice => IInv) /\ [Next]_vars => (~twice => IInv)'
  BY NextInv, TwiceStays
<1> QED BY <1>1, <1>2, PTL DEF Spec

(***************************************************************************)
(* Types of the control blocks, the spaces, the device and the calls.      *)
(***************************************************************************)
THEOREM TypeCorrect == Spec => [](~twice => TypeOK)
<1>1. IInv => TypeOK
  BY DEF IInv, Typed
<1> QED BY <1>1, Invariance, PTL

(***************************************************************************)
(* A kernel id names one kernel (see KernelIdsNameOne), however loads,     *)
(* frees and the other calls interleave: allocate_kcb_ gives out no id     *)
(* that a client holds or that a free has not finished with, and no two    *)
(* kernels have the same page table.  The one way to break this is what    *)
(* twice records: a load that finds the slot free which another load has   *)
(* been given and not yet filled.                                          *)
(***************************************************************************)
THEOREM KernelIdsAreUnique == Spec => []KernelIdsNameOne
<1>1. ASSUME ~twice => IInv PROVE KernelIdsNameOne
  <2> SUFFICES ASSUME ~twice PROVE KernelIdsNameOne
    BY DEF KernelIdsNameOne
  <2>1. \A t \in Thread : mine[t] \subseteq Claims(t) /\ mine[t] \subseteq Owned
    BY DEF Claims, Owns, Owned
  <2>2. Held \subseteq Owned
    BY <2>1 DEF Held
  <2>3. ASSUME NEW t \in Thread, NEW u \in Thread, Loading(t), t # u
        PROVE  job[t].kid \notin mine[u] \cup {job[u].kid}
    <3>1. job[t].kid \in Claims(t) /\ job[t].kid \in Kids
      BY <1>1, <2>3, ClaimTyped DEF Loading, Loads
    <3>2. job[t].kid \notin Claims(u)
      BY <1>1, <2>3, <3>1 DEF IInv, OwnersInv, OneClaim
    <3>3. job[u].kid = job[t].kid => pc[u] # "idle"
      BY <1>1, <3>1, Constants DEF IInv, OwnersInv, CallOK, NoJob
    <3>4. pc[u] # "idle" => job[u].kid \in Claims(u)
      BY <1>1, Thing DEF IInv, OwnersInv, CallOK, Claims, Loads, Frees, Uses, Pcs
    <3> QED BY <2>1, <3>2, <3>3, <3>4
  <2> QED BY <1>1, <2>1, <2>2, <2>3
          DEF KernelIdsNameOne, IInv, OwnersInv, OneClaim, OneRoot, KernelOK
<1> QED BY <1>1, Invariance, PTL

(***************************************************************************)
(* No page table is lost but those of loads that threw, and those of two   *)
(* loads with one slot (see TablesAccounted).                              *)
(***************************************************************************)
THEOREM TablesAreAccounted == Spec => []TablesAccounted
<1>1. ASSUME ~twice => IInv PROVE TablesAccounted
  <2> SUFFICES ASSUME ~twice PROVE TablesAccounted
    BY DEF TablesAccounted
  <2>1. \A k : k \in Held <=> \E t \in Thread : k \in mine[t]
    BY DEF Held
  <2>2. \A k : k \in Owned <=> k \in Held \/ \E t \in Thread : pc[t] = "free" /\ job[t].kid = k
    BY <2>1 DEF Owned, Owns
  <2>3. ASSUME NEW r \in VS!Live, r \notin lost
        PROVE  \/ r \in {kcbs[k].root : k \in Held}
               \/ r \in {job[t].root : t \in {u \in Thread : pc[u] = "read"}}
               \/ r \in {Root(t) : t \in {u \in Thread : pc[u] = "free"}}
    <3>1. HasOwner(r)
      BY <1>1, <2>3 DEF IInv, OwnersInv, TablesOwned
    <3>2. ASSUME NEW k \in Owned, kcbs[k].root = r
          PROVE  \/ r \in {kcbs[i].root : i \in Held}
                 \/ r \in {Root(t) : t \in {u \in Thread : pc[u] = "free"}}
      BY <2>2, <3>2 DEF Root, Kcb
    <3> QED BY <3>1, <3>2 DEF HasOwner
  <2>4. \A k \in Held : kcbs[k].root \in VS!Live
    BY <1>1, <2>2 DEF IInv, OwnersInv, KernelOK
  <2>5. \A t \in Thread : pc[t] = "read" => job[t].root \in VS!Live
    BY <1>1 DEF IInv, OwnersInv, LoadOK
  <2>6. \A t \in Thread : pc[t] = "free" => Root(t) \in VS!Live
    BY <1>1, <2>2 DEF IInv, OwnersInv, KernelOK, Root, Kcb
  <2>7. lost \subseteq VS!Live
    BY <1>1 DEF IInv, OwnersInv, TablesOwned
  <2> QED BY <2>3, <2>4, <2>5, <2>6, <2>7 DEF TablesAccounted
<1> QED BY <1>1, Invariance, PTL

----------------------------------------------------------------------------
(* The inductive invariant, second half: what is in the device memory, as  *)
(* long as no kernel is freed before its run is over.                      *)

Due == [see : SUBSET Page, leave : SUBSET Heap]

Code(k)   == Piece("code", kcbs[k].binary)
Passed(k) == {Piece("args", kcbs[k].binary), Piece("data", kcbs[k].binary)}
Result(k) == Piece("result", kcbs[k].binary)

\* The pages of kernel k, what lies behind one, and its table on the device
Has(k)    == DOMAIN space[kcbs[k].root]
At(k, p)  == mem[space[kcbs[k].root][p]]
Dumped(k) == mem[kcbs[k].root]

(***************************************************************************)
(* x, which the device runs or is about to run, is the run of kernel k.    *)
(***************************************************************************)
SoundRun(x, k) ==
  /\ Dumped(k).kind = "table"
  /\ LET s == Dumped(k).map IN
       /\ DOMAIN s \subseteq Has(k)
       /\ \A p \in DOMAIN s : s[p] = space[kcbs[k].root][p]
       /\ Mapped \subseteq DOMAIN s
       /\ due[k].see \subseteq DOMAIN s
       /\ due[k].leave \subseteq (DOMAIN s \cap Heap) \ {x.args}
       /\ x.args # 0 => x.args \in DOMAIN s
       /\ kcbs[k].args \in DOMAIN s => kcbs[k].args = x.args
  /\ \A p \in Segment : At(k, p) = Code(k)
  /\ x.args # 0 => At(k, x.args) \in Passed(k)

KernelRuns(k) == kcbs[k].root = asked.root \/ kcbs[k].root = run.root

\* The buffers of k hold what its last run computed.
Landed(k) == \A p \in due[k].leave : p \in Has(k) /\ At(k, p) = Result(k)

MemoryOK(k) ==
  /\ kcbs[k].root = asked.root => SoundRun(asked, k)
  /\ kcbs[k].root = run.root => SoundRun(run, k)
  /\ IF KernelRuns(k) THEN k \notin over ELSE Landed(k)
  /\ kcbs[k].args # 0 => kcbs[k].args \in Has(k)

\* The arguments of k are in place, unless t is about to copy them.
Passes(t, k) ==
  pc[t] = "copy" /\ job[t].kid = k /\ job[t].args /\ job[t].page = kcbs[k].args

ArgsOK(t, k) ==
  kcbs[k].args # 0 /\ ~Passes(t, k) => At(k, kcbs[k].args) \in Passed(k)

(***************************************************************************)
(* What the call of t has done so far.  A kernel that runs has all pages   *)
(* of its image, so that a second start cannot get past the first page.    *)
(***************************************************************************)
StartOK(t) ==
  LET k == job[t].kid IN
  /\ pc[t] = "map" =>
       /\ job[t].had \subseteq Has(k)
       /\ \A p \in Mapped : p \in Has(k) \/ \E i \in DOMAIN job[t].todo : job[t].todo[i] = p
       /\ job[t].todo = Layout \/ ~KernelRuns(k)
  /\ pc[t] \in {"binary", "pages", "start"} =>
       job[t].had \cup Mapped \subseteq Has(k) /\ ~KernelRuns(k)
  /\ pc[t] \in {"pages", "start"} => \A p \in Segment : At(k, p) = Code(k)
  /\ pc[t] = "start" => Dumped(k) = Table(space[kcbs[k].root])
  /\ pc[t] = "copy" => job[t].page \in Has(k)

\* Kernel ids that some client holds or some free has not given up yet
Keeps(t) == mine[t] \cup (IF pc[t] \in Frees THEN {job[t].kid} ELSE {})
InUse    == UNION {Keeps(t) : t \in Thread}

HasKernel(x) == x = NoRun \/ \E k \in Owned : kcbs[k].root = x.root

MemoryInv ==
  /\ HasKernel(asked) /\ HasKernel(run)
  /\ \A k \in Owned : MemoryOK(k)
  /\ \A t \in Thread : StartOK(t)
  /\ \A t \in Thread : \A k \in mine[t] : ArgsOK(t, k)
  /\ \A k \in Kids \ InUse : due[k] = Nothing /\ k \notin over

RunsInv ==
  /\ due \in [Kids -> Due]
  /\ asked = NoRun \/ run = NoRun
  /\ early \/ MemoryInv

----------------------------------------------------------------------------
(* What leaves a kernel as it was.                                         *)

\* The frames that only the table at r has: its root and what it maps
Frames(r) == {r} \cup {space[r][p] : p \in DOMAIN space[r] \ Fixed}

LEMMA FramesApart ==
  ASSUME SpacesApart, NEW q \in VS!Live, NEW r \in VS!Live, q # r
  PROVE  Frames(q) \cap Frames(r) = {}
<1> SUFFICES ASSUME NEW f \in Frames(q), f \in Frames(r) PROVE FALSE
  OBVIOUS
<1>1. SpaceOK(q) /\ SpaceOK(r) /\ OwnFrame(q, r)
  BY DEF SpacesApart
<1>2. \A p \in DOMAIN space[q] \ Fixed : space[q][p] \notin VS!Live
  BY <1>1 DEF SpaceOK
<1>3. \A p \in DOMAIN space[r] \ Fixed : space[r][p] \notin VS!Live
  BY <1>1 DEF SpaceOK
<1> QED BY <1>1, <1>2, <1>3 DEF Frames, OwnFrame

(***************************************************************************)
(* The pages that the device memory is about: they are the kernel's own,   *)
(* each in a frame of its own.                                             *)
(***************************************************************************)
LEMMA OwnPages ==
  ASSUME IInv, NEW k \in Owned
  PROVE  /\ kcbs[k].root \in VS!Live /\ kcbs[k].root \in Frame /\ kcbs[k].root \in Frames(kcbs[k].root)
         /\ Has(k) \subseteq Page
         /\ \A p \in Has(k) : p \notin Fixed =>
              /\ space[kcbs[k].root][p] \in Frames(kcbs[k].root)
              /\ space[kcbs[k].root][p] \in Frame
              /\ space[kcbs[k].root][p] # kcbs[k].root
              /\ \A o \in Has(k) : o # p => space[kcbs[k].root][p] # space[kcbs[k].root][o]
<1>1. kcbs[k].root \in VS!Live
  BY DEF IInv, OwnersInv, KernelOK
<1>2. SpaceOK(kcbs[k].root) /\ OwnFrame(kcbs[k].root, kcbs[k].root)
  BY <1>1 DEF IInv, SpacesApart
<1> QED BY <1>1, <1>2 DEF Has, Frames, SpaceOK, OwnFrame

\* A step that leaves kernel k, its memory and its run alone
KernelSame(k) ==
  /\ kcbs'[k] = kcbs[k] /\ due'[k] = due[k] /\ (k \in over' <=> k \in over)
  /\ space'[kcbs[k].root] = space[kcbs[k].root]
  /\ \A f \in Frames(kcbs[k].root) : mem'[f] = mem[f]
  /\ asked' = asked \/ (kcbs[k].root # asked.root /\ kcbs[k].root # asked'.root)
  /\ run' = run \/ (kcbs[k].root # run.root /\ kcbs[k].root # run'.root)

LEMMA SameView ==
  ASSUME IInv, NEW k \in Owned, KernelSame(k)
  PROVE  /\ Has(k)' = Has(k) /\ Dumped(k)' = Dumped(k)
         /\ Code(k)' = Code(k) /\ Passed(k)' = Passed(k) /\ Result(k)' = Result(k)
         /\ \A p \in Has(k) : p \notin Fixed => At(k, p)' = At(k, p)
         /\ kcbs'[k] = kcbs[k] /\ due'[k] = due[k] /\ (k \in over' <=> k \in over)
         /\ space'[kcbs[k].root] = space[kcbs[k].root]
<1>1. /\ kcbs'[k] = kcbs[k] /\ space'[kcbs[k].root] = space[kcbs[k].root]
      /\ \A f \in Frames(kcbs[k].root) : mem'[f] = mem[f]
  BY DEF KernelSame
<1>2. \A p \in Has(k) : p \notin Fixed => mem'[space[kcbs[k].root][p]] = mem[space[kcbs[k].root][p]]
  BY <1>1, OwnPages
<1> QED BY <1>1, <1>2, OwnPages DEF KernelSame, Has, Dumped, Code, Passed, Result, At

LEMMA SoundRunKept ==
  ASSUME IInv, NEW k \in Owned, KernelSame(k), NEW x, SoundRun(x, k), x.args \in Heap \cup {0}
  PROVE  SoundRun(x, k)'
<1>1. /\ Has(k)' = Has(k) /\ Dumped(k)' = Dumped(k) /\ Code(k)' = Code(k) /\ Passed(k)' = Passed(k)
      /\ \A p \in Has(k) : p \notin Fixed => At(k, p)' = At(k, p)
      /\ kcbs'[k] = kcbs[k] /\ due'[k] = due[k]
      /\ space'[kcbs[k].root] = space[kcbs[k].root]
  BY SameView
<1>2. Segment \subseteq Has(k) /\ (x.args # 0 => x.args \in Has(k))
  BY Constants DEF SoundRun
<1>3. (\A p \in Segment : p \notin Fixed) /\ (x.args # 0 => x.args \notin Fixed)
  BY Constants
<1>4. \A p \in Segment : At(k, p)' = Code(k)'
  BY <1>1, <1>2, <1>3 DEF SoundRun
<1>5. x.args # 0 => At(k, x.args)' \in Passed(k)'
  BY <1>1, <1>2, <1>3 DEF SoundRun
<1> QED BY <1>1, <1>4, <1>5 DEF SoundRun

LEMMA MemoryKept ==
  ASSUME IInv, due \in [Kids -> Due], NEW k \in Owned, KernelSame(k), MemoryOK(k)
  PROVE  MemoryOK(k)'
<1>1. /\ Has(k)' = Has(k) /\ Result(k)' = Result(k)
      /\ \A p \in Has(k) : p \notin Fixed => At(k, p)' = At(k, p)
      /\ kcbs'[k] = kcbs[k] /\ due'[k] = due[k] /\ (k \in over' <=> k \in over)
  BY SameView
<1>2. due[k].leave \cap Fixed = {}
  BY OwnedIn, Constants DEF Due
<1>3. asked.args \in Heap \cup {0} /\ run.args \in Heap \cup {0}
  BY DEF IInv, Typed, Run, NoRun
<1>4. kcbs'[k].root = asked'.root => SoundRun(asked, k) /\ asked' = asked
  BY <1>1 DEF KernelSame, MemoryOK
<1>5. kcbs'[k].root = run'.root => SoundRun(run, k) /\ run' = run
  BY <1>1 DEF KernelSame, MemoryOK
<1>6. KernelRuns(k)' <=> KernelRuns(k)
  BY <1>1 DEF KernelSame, KernelRuns
<1>7. Landed(k) => Landed(k)'
  BY <1>1, <1>2 DEF Landed
<1>9. kcbs'[k].root = asked'.root => SoundRun(asked, k)'
  BY <1>3, <1>4, SoundRunKept DEF SoundRun
<1>10. kcbs'[k].root = run'.root => SoundRun(run, k)'
  BY <1>3, <1>5, SoundRunKept DEF SoundRun
<1> QED BY <1>1, <1>4, <1>5, <1>6, <1>7, <1>9, <1>10 DEF MemoryOK

LEMMA StartKept ==
  ASSUME IInv, NEW u \in Thread, StartOK(u), pc'[u] = pc[u], job'[u] = job[u],
         pc[u] \in Uses => KernelSame(job[u].kid)
  PROVE  StartOK(u)'
<1>1. CASE pc[u] \notin Uses
  BY <1>1 DEF StartOK, Uses
<1>2. CASE pc[u] \in Uses
  <2>1. PICK k \in Owned : k = job[u].kid /\ KernelSame(k)
    BY <1>2, OnTyped DEF IInv, OwnersInv, CallOK
  <2>2. /\ Has(k)' = Has(k) /\ Dumped(k)' = Dumped(k) /\ Code(k)' = Code(k)
        /\ \A p \in Has(k) : p \notin Fixed => At(k, p)' = At(k, p)
        /\ kcbs'[k] = kcbs[k] /\ space'[kcbs[k].root] = space[kcbs[k].root]
    BY <2>1, SameView
  <2>3. KernelRuns(k)' <=> KernelRuns(k)
    BY <2>1, <2>2 DEF KernelSame, KernelRuns
  <2>4. \A p \in Segment : p \in Has(k) => At(k, p)' = At(k, p)
    BY <2>2, Constants
  <2>5. job'[u].kid = k /\ job'[u] = job[u]
    BY <2>1
  <2>6. StartOK(u) =>
          /\ pc[u] = "map" =>
               /\ job[u].had \subseteq Has(k)
               /\ \A p \in Mapped : p \in Has(k) \/ \E i \in DOMAIN job[u].todo : job[u].todo[i] = p
               /\ job[u].todo = Layout \/ ~KernelRuns(k)
          /\ pc[u] \in {"binary", "pages", "start"} =>
               job[u].had \cup Mapped \subseteq Has(k) /\ ~KernelRuns(k)
          /\ pc[u] \in {"pages", "start"} => \A p \in Segment : At(k, p) = Code(k)
          /\ pc[u] = "start" => Dumped(k) = Table(space[kcbs[k].root])
          /\ pc[u] = "copy" => job[u].page \in Has(k)
    BY <2>1 DEF StartOK
  <2>7. pc[u] \in {"pages", "start"} => \A p \in Segment : At(k, p)' = Code(k)'
    BY <2>2, <2>4, <2>6, Constants
  <2>8. pc[u] = "start" => Dumped(k)' = Table(space'[kcbs'[k].root])
    BY <2>2, <2>6
  <2>9. pc[u] \in {"binary", "pages", "start"} =>
          job[u].had \cup Mapped \subseteq Has(k)' /\ ~KernelRuns(k)'
    BY <2>2, <2>3, <2>6
  <2>10. pc[u] = "map" =>
           /\ job[u].had \subseteq Has(k)'
           /\ \A p \in Mapped : p \in Has(k)' \/ \E i \in DOMAIN job[u].todo : job[u].todo[i] = p
           /\ job[u].todo = Layout \/ ~KernelRuns(k)'
    BY <2>2, <2>3, <2>6
  <2>11. pc[u] = "copy" => job[u].page \in Has(k)'
    BY <2>2, <2>6
  <2>12. pc'[u] = pc[u]
    OBVIOUS
  <2> QED BY <2>5, <2>7, <2>8, <2>9, <2>10, <2>11, <2>12
          DEF StartOK, Has, KernelRuns, Dumped, At, Code
<1> QED BY <1>1, <1>2

LEMMA ArgsKept ==
  ASSUME IInv, NEW u \in Thread, NEW k \in Owned, KernelSame(k), MemoryOK(k), ArgsOK(u, k),
         Passes(u, k) => Passes(u, k)'
  PROVE  ArgsOK(u, k)'
<1>1. /\ Passed(k)' = Passed(k) /\ kcbs'[k] = kcbs[k]
      /\ \A p \in Has(k) : p \notin Fixed => At(k, p)' = At(k, p)
  BY SameView
<1>2. kcbs[k].args # 0 => kcbs[k].args \in Has(k) /\ kcbs[k].args \notin Fixed
  BY OwnedIn, Constants DEF MemoryOK, Kernel
<1> QED BY <1>1, <1>2 DEF ArgsOK

(***************************************************************************)
(* A step of thread t that concerns kernel k: what is left to prove is     *)
(* about k and t.                                                          *)
(***************************************************************************)
Concerns(t, k) ==
  /\ OthersSame(t) /\ k \in Claims(t) /\ job[t].kid = k /\ (early => early')
  /\ due' \in [Kids -> Due] /\ (asked' = NoRun \/ run' = NoRun)
  /\ Owned' \subseteq Owned \cup {k} /\ mine'[t] \subseteq mine[t] \cup {k}
  /\ InUse \subseteq InUse' \cup {k}
  /\ \A i \in Kids : i # k => due'[i] = due[i] /\ (i \in over' <=> i \in over)
  /\ ~early' => /\ \A i \in Owned : i # k => KernelSame(i)
                /\ HasKernel(asked)' /\ HasKernel(run)'
                /\ k \in Owned' => MemoryOK(k)'
                /\ StartOK(t)'
                /\ k \in mine'[t] => ArgsOK(t, k)'
                /\ k \notin InUse' => due'[k] = Nothing /\ k \notin over'

LEMMA RunsStep ==
  ASSUME IInv, RunsInv, NEW t \in Thread, NEW k, Concerns(t, k)
  PROVE  RunsInv'
<1> USE DEF Concerns
<1> SUFFICES ASSUME ~early' PROVE MemoryInv'
  BY DEF RunsInv
<1>1. MemoryInv /\ \A i \in Owned : i # k => KernelSame(i)
  BY DEF RunsInv
<1>2. ASSUME NEW i \in Owned' PROVE MemoryOK(i)'
  BY <1>1, MemoryKept DEF MemoryInv, RunsInv
<1>3. ASSUME NEW u \in Thread PROVE StartOK(u)'
  <2>1. CASE u = t
    BY <2>1
  <2>2. CASE u # t
    <3>1. pc[u] \in Uses => job[u].kid \in Owned /\ job[u].kid # k
      <4>1. pc[u] \in Uses => job[u].kid \in mine[u]
        BY DEF IInv, OwnersInv, CallOK
      <4>2. mine[u] \subseteq Claims(u)
        BY DEF Claims
      <4> QED BY <2>2, <4>1, <4>2, OnTyped DEF IInv, OwnersInv, OneClaim
    <3>2. StartOK(u) /\ pc'[u] = pc[u] /\ job'[u] = job[u]
      BY <1>1, <2>2 DEF MemoryInv, OthersSame
    <3> QED BY <1>1, <3>1, <3>2, StartKept
  <2> QED BY <2>1, <2>2
<1>4. ASSUME NEW u \in Thread, NEW i \in mine'[u] PROVE ArgsOK(u, i)'
  <2>1. CASE u = t /\ i = k
    BY <1>4, <2>1
  <2>2. CASE u = t /\ i # k
    <3>1. i \in mine[t] /\ i \in Owned
      BY <1>4, <2>2, OnTyped
    <3>2. ~Passes(t, i)
      BY <2>2 DEF Passes
    <3> QED BY <1>1, <2>2, <3>1, <3>2, ArgsKept DEF MemoryInv
  <2>3. CASE u # t
    <3>1. i \in mine[u] /\ i \in Owned /\ pc'[u] = pc[u] /\ job'[u] = job[u]
      BY <1>4, <2>3, OnTyped DEF OthersSame
    <3>2. i # k
      <4>1. i \in Claims(u)
        BY <3>1 DEF Claims
      <4> QED BY <2>3, <4>1 DEF IInv, OwnersInv, OneClaim
    <3>3. Passes(u, i) => Passes(u, i)'
      BY <1>1, <3>1, <3>2 DEF Passes, KernelSame
    <3> QED BY <1>1, <3>1, <3>2, <3>3, ArgsKept DEF MemoryInv
  <2> QED BY <2>1, <2>2, <2>3
<1>5. ASSUME NEW i \in Kids \ InUse' PROVE due'[i] = Nothing /\ i \notin over'
  BY <1>1, <1>5 DEF MemoryInv
<1> QED BY <1>2, <1>3, <1>4, <1>5 DEF MemoryInv

(***************************************************************************)
(* A call begins: nothing changes but what the thread is about to do.      *)
(***************************************************************************)
LEMMA CallRuns ==
  ASSUME IInv, RunsInv, NEW t \in Thread, NEW p, NEW j, Call(t, p, j),
         Owned' = Owned, InUse' = InUse, mine'[t] \subseteq mine[t], OthersSame(t),
         \A k \in Owned : kcbs'[k] = kcbs[k],
         ~early => StartOK(t)'
  PROVE  RunsInv'
<1>1. /\ space' = space /\ mem' = mem /\ asked' = asked /\ run' = run /\ due' = due
      /\ over' = over /\ early' = early /\ pc[t] = "idle"
  BY DEF Call, accel
<1> SUFFICES ASSUME ~early PROVE MemoryInv'
  BY <1>1 DEF RunsInv
<1>2. MemoryInv /\ \A k \in Owned : KernelSame(k)
  BY <1>1 DEF RunsInv, KernelSame
<1>3. HasKernel(asked)' /\ HasKernel(run)'
  BY <1>1, <1>2 DEF MemoryInv, HasKernel
<1>4. \A k \in Owned' : MemoryOK(k)'
  BY <1>2, MemoryKept DEF MemoryInv, RunsInv
<1>5. ASSUME NEW u \in Thread PROVE StartOK(u)'
  <2>1. CASE u = t
    BY <2>1
  <2>2. CASE u # t
    <3>1. pc[u] \in Uses => job[u].kid \in Owned
      BY OnTyped DEF IInv, OwnersInv, CallOK
    <3> QED BY <1>2, <2>2, <3>1, StartKept DEF MemoryInv, OthersSame
  <2> QED BY <2>1, <2>2
<1>6. ASSUME NEW u \in Thread, NEW k \in mine'[u] PROVE ArgsOK(u, k)'
  <2>1. k \in mine[u] /\ k \in Owned
    BY <1>6, OnTyped DEF OthersSame
  <2>2. Passes(u, k) => Passes(u, k)'
    BY <1>1, <2>1 DEF Passes, OthersSame
  <2> QED BY <1>2, <2>1, <2>2, ArgsKept DEF MemoryInv
<1>7. \A k \in Kids \ InUse' : due'[k] = Nothing /\ k \notin over'
  BY <1>1, <1>2 DEF MemoryInv
<1> QED BY <1>3, <1>4, <1>5, <1>6, <1>7 DEF MemoryInv

LEMMA InUseStep ==
  ASSUME NEW t \in Thread, OthersSame(t)
  PROVE  /\ Keeps(t)' = Keeps(t) => InUse' = InUse
         /\ \A k : Keeps(t) \subseteq Keeps(t)' \cup {k} => InUse \subseteq InUse' \cup {k}
         /\ \A k \in Keeps(t)' : k \in InUse'
<1>1. \A u \in Thread : u # t => Keeps(u)' = Keeps(u)
  BY DEF OthersSame, Keeps
<1>2. \A k : (k \in InUse <=> \E u \in Thread : k \in Keeps(u))
  BY DEF InUse
<1>3. \A k : (k \in InUse' <=> \E u \in Thread : k \in Keeps(u)')
  BY DEF InUse
<1>4. ASSUME Keeps(t)' = Keeps(t) PROVE InUse' = InUse
  BY <1>1, <1>2, <1>3, <1>4
<1>5. ASSUME NEW k, Keeps(t) \subseteq Keeps(t)' \cup {k} PROVE InUse \subseteq InUse' \cup {k}
  BY <1>1, <1>2, <1>3, <1>5
<1>6. \A k \in Keeps(t)' : k \in InUse'
  BY <1>3
<1> QED BY <1>4, <1>5, <1>6

----------------------------------------------------------------------------
(* The second half, call by call.                                          *)

LEMMA UseCallRuns ==
  ASSUME IInv, RunsInv, NEW t \in Thread, NEW k \in mine[t], NEW p \in Uses, NEW j,
         Call(t, p, j), UNCHANGED <<table, mine, twice>>, Owned' = Owned,
         ~early => StartOK(t)'
  PROVE  RunsInv'
<1>1. /\ pc[t] = "idle" /\ pc' = [pc EXCEPT ![t] = p] /\ job' = [job EXCEPT ![t] = j]
      /\ mine' = mine /\ kcbs' = kcbs
  BY DEF Call, Goto, table
<1>2. OthersSame(t) /\ pc'[t] = p
  BY <1>1 DEF OthersSame, IInv, Typed, TypeOK
<1>3. InUse' = InUse
  <2>1. Keeps(t)' = Keeps(t)
    BY <1>1, <1>2 DEF Keeps, Frees, Uses
  <2> QED BY <1>2, <2>1, InUseStep
<1> QED BY <1>1, <1>2, <1>3, CallRuns

LEMMA UseCallsRuns ==
  ASSUME IInv, RunsInv, NEW t \in Thread, NEW k \in mine[t],
         \/ AllocateHeap(t, k) \/ UploadArgs(t, k) \/ \E p \in Heap : Upload(t, k, p)
         \/ StartKernel(t, k) \/ WaitKernel(t, k)
  PROVE  RunsInv'
<1>1. {"heap", "copy", "map", "wait"} \subseteq Uses /\ Owned' = Owned
  BY UseCalls DEF Uses
<1>2. \A p, j : Call(t, p, j) => pc'[t] = p /\ job'[t] = j
  BY DEF Call, Goto, IInv, Typed, TypeOK
<1>3. CASE AllocateHeap(t, k)
  <2>1. StartOK(t)'
    BY <1>2, <1>3 DEF AllocateHeap, StartOK
  <2> QED BY <1>1, <1>3, <2>1, UseCallRuns DEF AllocateHeap
<1>4. CASE UploadArgs(t, k)
  <2>1. StartOK(t)'
    BY <1>2, <1>4 DEF UploadArgs, StartOK
  <2> QED BY <1>1, <1>4, <2>1, UseCallRuns DEF UploadArgs
<1>5. ASSUME NEW p \in Heap, Upload(t, k, p) PROVE RunsInv'
  <2> DEFINE j == [On(k) EXCEPT !.page = p]
  <2>1. pc'[t] = "copy" /\ job'[t] = j /\ kcbs' = kcbs /\ space' = space
    BY <1>2, <1>5 DEF Upload, Call, table
  <2>2. j.kid = k /\ j.page = p /\ j.args = FALSE
    BY DEF On, NoJob
  <2>3. p \in DOMAIN space[kcbs[k].root]
    BY <1>5 DEF Upload
  <2>4. StartOK(t)'
    BY <2>1, <2>2, <2>3 DEF StartOK, Has
  <2> QED BY <1>1, <1>5, <2>4, UseCallRuns DEF Upload
<1>6. CASE StartKernel(t, k)
  <2> DEFINE j == [On(k) EXCEPT !.todo = Layout, !.had = DOMAIN space[kcbs[k].root]]
  <2>1. pc'[t] = "map" /\ job'[t] = j /\ kcbs' = kcbs /\ space' = space
    BY <1>2, <1>6 DEF StartKernel, Call, table
  <2>2. j.kid = k /\ j.todo = Layout /\ j.had = DOMAIN space[kcbs[k].root]
    BY DEF On, NoJob
  <2>3. \A p \in Mapped : \E i \in DOMAIN Layout : Layout[i] = p
    BY DEF Mapped
  <2> HIDE DEF j
  <2>4. StartOK(t)'
    BY <2>1, <2>2, <2>3 DEF StartOK, Has
  <2> QED BY <1>1, <1>6, <2>4, UseCallRuns DEF StartKernel, j
<1>7. CASE WaitKernel(t, k)
  <2>1. StartOK(t)'
    BY <1>2, <1>7 DEF WaitKernel, StartOK
  <2> QED BY <1>1, <1>7, <2>1, UseCallRuns DEF WaitKernel
<1> QED BY <1>3, <1>4, <1>5, <1>6, <1>7

LEMMA FreeKernelRuns ==
  ASSUME IInv, RunsInv, NEW t \in Thread, NEW k \in mine[t], FreeKernel(t, k)
  PROVE  RunsInv'
<1>1. /\ pc[t] = "idle" /\ Call(t, "free", On(k)) /\ kcbs' = kcbs
      /\ pc' = [pc EXCEPT ![t] = "free"] /\ job' = [job EXCEPT ![t] = On(k)]
      /\ mine' = [mine EXCEPT ![t] = @ \ {k}]
  BY DEF FreeKernel, Call, Goto, table
<1>2. OthersSame(t) /\ pc'[t] = "free" /\ mine'[t] = mine[t] \ {k} /\ job'[t].kid = k
  BY <1>1, OnTyped DEF OthersSame, IInv, Typed, TypeOK
<1>3. InUse' = InUse
  <2>1. Keeps(t)' = Keeps(t)
    BY <1>1, <1>2 DEF Keeps, Frees
  <2> QED BY <1>2, <2>1, InUseStep
<1>4. StartOK(t)'
  BY <1>2 DEF StartOK
<1> QED BY <1>1, <1>2, <1>3, <1>4, FreeKernelInv, CallRuns

LEMMA AllocateKernelRuns ==
  ASSUME IInv, RunsInv, NEW t \in Thread, NEW b \in Binary, AllocateKernel(t, b), ~twice'
  PROVE  RunsInv'
<1>1. PICK k \in Kids : Call(t, "table", [On(k) EXCEPT !.binary = b])
  BY DEF AllocateKernel
<1> DEFINE j == [On(k) EXCEPT !.binary = b]
<1>2. /\ pc[t] = "idle" /\ pc' = [pc EXCEPT ![t] = "table"] /\ job' = [job EXCEPT ![t] = j]
      /\ mine' = mine
  BY <1>1 DEF AllocateKernel, Call, Goto
<1>3. OthersSame(t) /\ pc'[t] = "table"
  BY <1>2 DEF OthersSame, IInv, Typed, TypeOK
<1>4. InUse' = InUse
  <2>1. Keeps(t)' = Keeps(t)
    BY <1>2, <1>3 DEF Keeps, Frees
  <2> QED BY <1>3, <2>1, InUseStep
<1>5. \A i \in Owned : kcbs'[i] = kcbs[i]
  BY AllocateKernelInv
<1>6. StartOK(t)'
  BY <1>3 DEF StartOK
<1>7. Owned' = Owned
  BY AllocateKernelInv
<1> QED BY <1>1, <1>2, <1>3, <1>4, <1>5, <1>6, <1>7, CallRuns

----------------------------------------------------------------------------
(* The second half, step by step.                                          *)

(***************************************************************************)
(* What a step of a call on a kernel may rely on.                          *)
(***************************************************************************)
LEMMA UseKernel ==
  ASSUME IInv, NEW t \in Thread, pc[t] \in Uses
  PROVE  \E k \in Kids :
           /\ job[t].kid = k /\ k \in mine[t] /\ k \in Claims(t) /\ k \in Owned
           /\ kcbs[k] \in Kernel /\ kcbs[k].root \in Frame /\ kcbs[k].root \in VS!Live
           /\ Kcb(t) = kcbs[k] /\ Root(t) = kcbs[k].root
           /\ \A i \in Owned : i # k => kcbs[i].root # kcbs[k].root
           /\ job[t] \in Job
<1>1. job[t].kid \in mine[t] /\ job[t] \in Job
  BY Thing DEF IInv, OwnersInv, CallOK
<1>2. /\ job[t].kid \in Kids /\ job[t].kid \in Owned /\ kcbs[job[t].kid] \in Kernel
      /\ kcbs[job[t].kid].root \in VS!Live
  BY <1>1, OnTyped
<1>3. \A i \in Owned : i # job[t].kid => kcbs[i].root # kcbs[job[t].kid].root
  BY <1>2 DEF IInv, OwnersInv, OneRoot
<1> QED BY <1>1, <1>2, <1>3, OwnPages DEF Claims, Kcb, Root

\* Thread t goes on, and who holds what stays.
Stays(t) == mine' = mine /\ \E p \in Uses \cup {"idle"} : \E j : Moves(t, p, j)

LEMMA UseClaims ==
  ASSUME IInv, NEW t \in Thread, pc[t] \in Uses, Stays(t)
  PROVE  OthersSame(t) /\ InUse' = InUse /\ mine'[t] = mine[t] /\ job[t].kid \in InUse'
<1>1. PICK p \in Uses \cup {"idle"} : \E j : Moves(t, p, j) /\ mine' = mine
  BY DEF Stays
<1>2. OthersSame(t) /\ pc'[t] = p /\ mine'[t] = mine[t]
  BY <1>1 DEF Moves, OthersSame, IInv, Typed, TypeOK
<1>3. Keeps(t)' = mine[t] /\ Keeps(t) = mine[t]
  BY <1>1, <1>2 DEF Keeps, Frees, Uses
<1>4. job[t].kid \in mine[t]
  BY UseKernel
<1> QED BY <1>2, <1>3, <1>4, InUseStep

(***************************************************************************)
(* A step that moves the call on and changes nothing else.                 *)
(***************************************************************************)
LEMMA UseQuiet ==
  ASSUME IInv, RunsInv, NEW t \in Thread, pc[t] \in Uses \ {"copy"}, Stays(t),
         UNCHANGED <<table, space, mem, accel, due, over, early>>, Owned' = Owned,
         ~early => StartOK(t)'
  PROVE  RunsInv'
<1>1. PICK k \in Kids : job[t].kid = k /\ k \in mine[t] /\ k \in Claims(t) /\ k \in Owned
  BY UseKernel
<1>2. /\ kcbs' = kcbs /\ space' = space /\ mem' = mem /\ asked' = asked /\ run' = run
      /\ due' = due /\ over' = over /\ early' = early
  BY DEF table, accel
<1>3. OthersSame(t) /\ InUse' = InUse /\ mine'[t] = mine[t]
  BY UseClaims
<1>4. \A i \in Owned : KernelSame(i)
  BY <1>2 DEF KernelSame
<1>5. ASSUME ~early'
      PROVE  /\ HasKernel(asked)' /\ HasKernel(run)' /\ MemoryOK(k)' /\ ArgsOK(t, k)'
             /\ k \notin InUse' => due'[k] = Nothing /\ k \notin over'
  <2>1. MemoryInv
    BY <1>2, <1>5 DEF RunsInv
  <2>2. HasKernel(asked)' /\ HasKernel(run)'
    BY <1>2, <2>1 DEF MemoryInv, HasKernel
  <2>3. MemoryOK(k)' /\ ArgsOK(t, k)'
    BY <1>1, <1>4, <2>1, MemoryKept, ArgsKept DEF MemoryInv, Passes, RunsInv
  <2>4. k \notin InUse' => due'[k] = Nothing /\ k \notin over'
    BY <1>2, <1>3, <2>1 DEF MemoryInv
  <2> QED BY <2>2, <2>3, <2>4
<1>21. Concerns(t, k)
  BY <1>1, <1>2, <1>3, <1>4, <1>5 DEF Concerns, RunsInv
<1> QED BY <1>21, RunsStep

LEMMA UseQuiets ==
  ASSUME IInv, RunsInv, NEW t \in Thread,
         MapHeapThrows(t) \/ AllMapped(t) \/ StartThrows(t) \/ WaitTimesOut(t)
  PROVE  RunsInv'
<1>1. {"heap", "map", "binary", "wait"} \subseteq Uses /\ Owned' = Owned
  BY UseSteps DEF Uses
<1>2. CASE MapHeapThrows(t) \/ StartThrows(t) \/ WaitTimesOut(t)
  <2>1. /\ pc[t] \in Uses \ {"copy"} /\ Moves(t, "idle", NoJob) /\ mine' = mine
        /\ UNCHANGED <<table, space, mem, accel, due, over, early>>
    BY <1>1, <1>2 DEF MapHeapThrows, StartThrows, WaitTimesOut, Return, Goto, Moves
  <2>2. pc'[t] = "idle"
    BY <2>1 DEF Moves, IInv, Typed, TypeOK
  <2>3. StartOK(t)' /\ Stays(t)
    BY <2>1, <2>2 DEF StartOK, Stays
  <2> QED BY <1>1, <2>1, <2>3, UseQuiet
<1>3. CASE AllMapped(t)
  <2>1. /\ pc[t] = "map" /\ job[t].todo = <<>> /\ job' = job /\ mine' = mine
        /\ pc' = [pc EXCEPT ![t] = "binary"]
        /\ UNCHANGED <<table, space, mem, accel, due, over, early>>
        /\ kcbs' = kcbs /\ space' = space /\ asked' = asked /\ run' = run
    BY <1>3 DEF AllMapped, Goto, table, accel
  <2>2. Moves(t, "binary", job[t]) /\ pc'[t] = "binary"
    BY <2>1 DEF Moves, IInv, Typed, TypeOK
  <2>3. Layout # <<>>
    BY SpinnerAssumption DEF Mapped
  <2>4. ASSUME ~early PROVE StartOK(t)'
    <3>1. StartOK(t)
      BY <2>4 DEF RunsInv, MemoryInv
    <3>2. PICK k \in Kids : job[t].kid = k
      BY <1>1, <2>1, UseKernel
    <3>3. /\ job[t].had \subseteq Has(k) /\ ~KernelRuns(k)
          /\ \A p \in Mapped : p \in Has(k) \/ \E i \in DOMAIN job[t].todo : job[t].todo[i] = p
      BY <2>1, <2>3, <3>1, <3>2 DEF StartOK
    <3>4. job[t].had \cup Mapped \subseteq Has(k)
      BY <2>1, <3>3
    <3> QED BY <2>1, <2>2, <3>2, <3>3, <3>4 DEF StartOK, Has, KernelRuns
  <2>5. Stays(t)
    BY <1>1, <2>1, <2>2 DEF Stays
  <2> QED BY <1>1, <2>1, <2>4, <2>5, UseQuiet
<1> QED BY <1>2, <1>3

(***************************************************************************)
(* A page is mapped: all kernels but one are as they were, and this one    *)
(* has a page more.                                                        *)
(***************************************************************************)
LEMMA OneMore ==
  ASSUME IInv, NEW k \in Owned, NEW p, NEW f,
         VS!Map(kcbs[k].root, p, f), kcbs'[k].root = kcbs[k].root,
         kcbs'[k].binary = kcbs[k].binary, mem' = mem
  PROVE  /\ p \notin Has(k) /\ Has(k)' = Has(k) \cup {p} /\ Dumped(k)' = Dumped(k)
         /\ Code(k)' = Code(k) /\ Passed(k)' = Passed(k) /\ Result(k)' = Result(k)
         /\ \A o \in Has(k) : /\ space'[kcbs[k].root][o] = space[kcbs[k].root][o]
                              /\ At(k, o)' = At(k, o)
         /\ \A i \in Owned : i # k => space'[kcbs[i].root] = space[kcbs[i].root]
<1>1. \A i \in Owned : i # k => kcbs[i].root # kcbs[k].root /\ kcbs[i].root \in VS!Live
  BY DEF IInv, OwnersInv, OneRoot, KernelOK
<1> QED BY <1>1, MapSpace DEF Has, Dumped, Code, Passed, Result, At

LEMMA SoundRunGrows ==
  ASSUME IInv, NEW k \in Owned, NEW x, SoundRun(x, k), x.args \in Heap \cup {0},
         due' = due, Has(k) \subseteq Has(k)', Dumped(k)' = Dumped(k),
         kcbs'[k].root = kcbs[k].root, Code(k)' = Code(k), Passed(k)' = Passed(k),
         \A o \in Has(k) : /\ space'[kcbs[k].root][o] = space[kcbs[k].root][o]
                           /\ At(k, o)' = At(k, o),
         kcbs'[k].args = kcbs[k].args \/ kcbs'[k].args \notin Has(k)
  PROVE  SoundRun(x, k)'
<1>1. DOMAIN Dumped(k).map \subseteq Has(k) /\ Segment \subseteq Has(k) /\ (x.args # 0 => x.args \in Has(k))
  BY Constants DEF SoundRun
<1>2. \A p \in Segment : At(k, p)' = Code(k)'
  BY <1>1 DEF SoundRun
<1>3. x.args # 0 => At(k, x.args)' \in Passed(k)'
  BY <1>1 DEF SoundRun
<1>4. \A p \in DOMAIN Dumped(k).map : Dumped(k).map[p] = space'[kcbs'[k].root][p]
  BY <1>1 DEF SoundRun
<1>5. kcbs'[k].args \in DOMAIN Dumped(k).map => kcbs'[k].args = x.args
  BY <1>1 DEF SoundRun
<1> QED BY <1>1, <1>2, <1>3, <1>4, <1>5 DEF SoundRun

(***************************************************************************)
(* A step of a call on kernel k that leaves it to its client.              *)
(***************************************************************************)
Active(t, k) ==
  /\ pc[t] \in Uses /\ Stays(t) /\ job[t].kid = k
  /\ early' = early /\ Owned' = Owned
  /\ due' \in [Kids -> Due] /\ (asked' = NoRun \/ run' = NoRun)
  /\ \A i \in Kids : i # k => due'[i] = due[i] /\ (i \in over' <=> i \in over)
  /\ ~early => /\ \A i \in Owned : i # k => KernelSame(i)
               /\ HasKernel(asked)' /\ HasKernel(run)'
               /\ MemoryOK(k)' /\ StartOK(t)' /\ ArgsOK(t, k)'

LEMMA ActiveStep ==
  ASSUME IInv, RunsInv, NEW t \in Thread, NEW k \in Kids, Active(t, k)
  PROVE  RunsInv'
<1>1. k \in Claims(t)
  BY UseKernel DEF Active
<1>2. OthersSame(t) /\ InUse' = InUse /\ mine'[t] = mine[t] /\ k \in InUse'
  BY UseClaims DEF Active
<1>3. /\ job[t].kid = k /\ (early => early')
      /\ due' \in [Kids -> Due] /\ (asked' = NoRun \/ run' = NoRun)
      /\ \A i \in Kids : i # k => due'[i] = due[i] /\ (i \in over' <=> i \in over)
  BY DEF Active
<1>4. Owned' \subseteq Owned \cup {k} /\ mine'[t] \subseteq mine[t] \cup {k} /\ InUse \subseteq InUse' \cup {k}
  BY <1>2 DEF Active
<1>5. ~early' => /\ \A i \in Owned : i # k => KernelSame(i)
                 /\ HasKernel(asked)' /\ HasKernel(run)'
                 /\ k \in Owned' => MemoryOK(k)'
                 /\ StartOK(t)'
                 /\ k \in mine'[t] => ArgsOK(t, k)'
                 /\ k \notin InUse' => due'[k] = Nothing /\ k \notin over'
  BY <1>2 DEF Active
<1>6. OthersSame(t)
  BY <1>2
<1>21. Concerns(t, k)
  BY <1>1, <1>3, <1>4, <1>5, <1>6 DEF Concerns
<1> QED BY <1>21, RunsStep

(***************************************************************************)
(* The same when the step maps a page.                                     *)
(***************************************************************************)
LEMMA MapRuns ==
  ASSUME IInv, RunsInv, ~early, NEW k \in Owned, NEW p, NEW f,
         VS!Map(kcbs[k].root, p, f), Owned' = Owned,
         mem' = mem, asked' = asked, run' = run, due' = due, over' = over,
         \A i \in Owned : i # k => kcbs'[i] = kcbs[i],
         kcbs'[k].root = kcbs[k].root, kcbs'[k].binary = kcbs[k].binary,
         kcbs'[k].args \in {kcbs[k].args, p}
  PROVE  /\ \A i \in Owned : i # k => KernelSame(i)
         /\ HasKernel(asked)' /\ HasKernel(run)' /\ MemoryOK(k)'
         /\ KernelRuns(k)' <=> KernelRuns(k)
         /\ \A t \in Thread : \A u \in Thread :
              k \in mine[u] /\ ~Passes(u, k) /\ kcbs'[k].args = kcbs[k].args => ArgsOK(t, k)'
<1>1. /\ p \notin Has(k) /\ Has(k)' = Has(k) \cup {p} /\ Dumped(k)' = Dumped(k)
      /\ Code(k)' = Code(k) /\ Passed(k)' = Passed(k) /\ Result(k)' = Result(k)
      /\ \A o \in Has(k) : /\ space'[kcbs[k].root][o] = space[kcbs[k].root][o]
                           /\ At(k, o)' = At(k, o)
      /\ \A i \in Owned : i # k => space'[kcbs[i].root] = space[kcbs[i].root]
  BY OneMore
<1>2. MemoryInv /\ MemoryOK(k)
  BY DEF RunsInv, MemoryInv
<1>3. \A i \in Owned : i # k => KernelSame(i)
  BY <1>1 DEF KernelSame
<1>4. HasKernel(asked)' /\ HasKernel(run)'
  <2>1. \A i \in Owned : kcbs'[i].root = kcbs[i].root
    OBVIOUS
  <2> QED BY <1>2, <2>1 DEF MemoryInv, HasKernel
<1>5. KernelRuns(k)' <=> KernelRuns(k)
  BY DEF KernelRuns
<1>6. asked.args \in Heap \cup {0} /\ run.args \in Heap \cup {0}
  BY DEF IInv, Typed, Run, NoRun
<1>7. ASSUME NEW x, SoundRun(x, k), x.args \in Heap \cup {0} PROVE SoundRun(x, k)'
  <2>1. Has(k) \subseteq Has(k)' /\ (kcbs'[k].args = kcbs[k].args \/ kcbs'[k].args \notin Has(k))
    BY <1>1
  <2> QED BY <1>1, <1>7, <2>1, SoundRunGrows
<1>8. /\ kcbs[k].root = asked.root => SoundRun(asked, k)'
      /\ kcbs[k].root = run.root => SoundRun(run, k)'
  BY <1>2, <1>6, <1>7 DEF MemoryOK, SoundRun
<1>9. IF KernelRuns(k) THEN k \notin over ELSE Landed(k)
  BY <1>2 DEF MemoryOK
<1>10. Landed(k) => Landed(k)'
  BY <1>1 DEF Landed
<1>11. kcbs'[k].args # 0 => kcbs'[k].args \in Has(k)'
  BY <1>1, <1>2 DEF MemoryOK
<1>12. MemoryOK(k)'
  BY <1>5, <1>8, <1>9, <1>10, <1>11 DEF MemoryOK
<1>13. ASSUME NEW t \in Thread, NEW u \in Thread, k \in mine[u], ~Passes(u, k),
              kcbs'[k].args = kcbs[k].args
       PROVE  ArgsOK(t, k)'
  <2>1. kcbs[k].args # 0 => At(k, kcbs[k].args) \in Passed(k) /\ kcbs[k].args \in Has(k)
    BY <1>2, <1>13 DEF MemoryInv, ArgsOK, MemoryOK
  <2> QED BY <1>1, <1>13, <2>1 DEF ArgsOK
<1> QED BY <1>3, <1>4, <1>5, <1>12, <1>13

LEMMA MapHeapRuns ==
  ASSUME IInv, RunsInv, NEW t \in Thread, MapHeap(t)
  PROVE  RunsInv'
<1>1. pc[t] = "heap" /\ pc[t] \in Uses /\ Owned' = Owned
  BY MapHeapInv DEF MapHeap, Uses
<1>2. PICK k \in Kids :
        /\ job[t].kid = k /\ k \in mine[t] /\ k \in Owned /\ kcbs[k] \in Kernel
        /\ Kcb(t) = kcbs[k] /\ Root(t) = kcbs[k].root /\ job[t] \in Job
  BY <1>1, UseKernel
<1>12. PICK g \in NewArgs(t) : kcbs' = [kcbs EXCEPT ![k] = [kcbs[k] EXCEPT !.top = @ + 1, !.args = g]]
  BY <1>2 DEF MapHeap
<1> DEFINE a == kcbs[k].top
           c == [kcbs[k] EXCEPT !.top = @ + 1, !.args = g]
           p == IF job[t].args THEN "copy" ELSE "idle"
           j == IF job[t].args THEN [job[t] EXCEPT !.page = a] ELSE NoJob
<1>3. PICK f \in Frame : VS!Map(kcbs[k].root, a, f)
  BY <1>2 DEF MapHeap
<1>4. /\ kcbs' = [kcbs EXCEPT ![k] = c] /\ mine' = mine
      /\ mem' = mem /\ asked' = asked /\ run' = run /\ due' = due
      /\ over' = over /\ early' = early
  BY <1>12 DEF MapHeap, accel
<1>5. pc' = [pc EXCEPT ![t] = p] /\ job' = [job EXCEPT ![t] = j]
  <2>1. CASE job[t].args
    BY <1>2, <2>1 DEF MapHeap, Goto
  <2>2. CASE ~job[t].args
    BY <2>2 DEF MapHeap, Return, Goto
  <2> QED BY <2>1, <2>2
<1>6. /\ c.root = kcbs[k].root /\ c.binary = kcbs[k].binary
      /\ c.args = kcbs[k].args \/ (c.args = a /\ job[t].args)
  BY <1>2, <1>12 DEF Kernel, NewArgs
<1>7. job[t].args => j.kid = k /\ j.page = a /\ j.args
  BY <1>2 DEF Job
<1>8. /\ kcbs'[k] = c /\ \A i \in Owned : i # k => kcbs'[i] = kcbs[i]
      /\ pc'[t] = p /\ job'[t] = j
  BY <1>2, <1>4, <1>5, OwnedIn DEF IInv, Typed, TypeOK
<1>9. (p = "copy" /\ job[t].args) \/ (p = "idle" /\ ~job[t].args)
  OBVIOUS
<1>10. Stays(t)
  BY <1>1, <1>4, <1>5, <1>9 DEF Stays, Moves, Uses
<1> HIDE DEF a, c, p, j
<1>11. ASSUME ~early
       PROVE  /\ \A i \in Owned : i # k => KernelSame(i)
              /\ HasKernel(asked)' /\ HasKernel(run)'
              /\ MemoryOK(k)' /\ StartOK(t)' /\ ArgsOK(t, k)'
  <2>5. /\ k \in Owned /\ VS!Map(kcbs[k].root, a, f) /\ Owned' = Owned
        /\ mem' = mem /\ asked' = asked /\ run' = run /\ due' = due /\ over' = over
        /\ \A i \in Owned : i # k => kcbs'[i] = kcbs[i]
    BY <1>1, <1>2, <1>3, <1>4, <1>8
  <2>6. kcbs'[k].root = kcbs[k].root /\ kcbs'[k].binary = kcbs[k].binary
    BY <1>6, <1>8
  <2>7. kcbs'[k].args \in {kcbs[k].args, a}
    BY <1>6, <1>8
  <2>1. /\ \A i \in Owned : i # k => KernelSame(i)
        /\ HasKernel(asked)' /\ HasKernel(run)' /\ MemoryOK(k)'
        /\ k \in mine[t] /\ ~Passes(t, k) /\ kcbs'[k].args = kcbs[k].args => ArgsOK(t, k)'
    BY <1>11, <2>5, <2>6, <2>7, MapRuns
  <2>2. a \in Has(k)'
    <3>1. Has(k)' = Has(k) \cup {a}
      BY <2>5, <2>6, OneMore
    <3> QED BY <3>1
  <2>3. StartOK(t)'
    BY <1>6, <1>7, <1>8, <1>9, <2>2 DEF StartOK, Has
  <2>4. ArgsOK(t, k)'
    <3>1. CASE c.args = a /\ job[t].args
      BY <1>7, <1>8, <1>9, <3>1 DEF ArgsOK, Passes
    <3>2. CASE c.args = kcbs[k].args
      BY <1>1, <1>2, <1>8, <2>1, <3>2 DEF Passes
    <3> QED BY <1>6, <3>1, <3>2
  <2> QED BY <2>1, <2>3, <2>4
<1>20. Active(t, k)
  BY <1>1, <1>2, <1>4, <1>10, <1>11 DEF Active, RunsInv
<1> QED BY <1>20, ActiveStep

LEMMA MapPageRuns ==
  ASSUME IInv, RunsInv, NEW t \in Thread, MapPage(t)
  PROVE  RunsInv'
<1>1. pc[t] = "map" /\ job[t].todo # <<>> /\ pc[t] \in Uses /\ Owned' = Owned
  BY MapPageInv DEF MapPage, Uses
<1>2. PICK k \in Kids :
        /\ job[t].kid = k /\ k \in mine[t] /\ k \in Owned /\ kcbs[k] \in Kernel
        /\ Root(t) = kcbs[k].root /\ job[t] \in Job
  BY <1>1, UseKernel
<1> DEFINE p == Head(job[t].todo)
           j == [job[t] EXCEPT !.todo = Tail(@)]
<1>3. PICK f \in Frame : VS!Map(kcbs[k].root, p, f)
  BY <1>2 DEF MapPage
<1>4. /\ kcbs' = kcbs /\ mine' = mine /\ pc' = pc /\ job' = [job EXCEPT ![t] = j]
      /\ mem' = mem /\ asked' = asked /\ run' = run /\ due' = due
      /\ over' = over /\ early' = early
  BY DEF MapPage, table, accel
<1>5. j.kid = k /\ j.had = job[t].had /\ j.todo = Tail(job[t].todo)
  BY <1>2 DEF Job
<1>6. job'[t] = j /\ pc'[t] = "map" /\ pc' = [pc EXCEPT ![t] = "map"]
  BY <1>1, <1>4 DEF IInv, Typed, TypeOK
<1>7. Stays(t)
  BY <1>1, <1>4, <1>6 DEF Stays, Moves
<1>8. job[t].todo \in Seq(Mapped)
  BY <1>2 DEF Job
<1>9. \A i \in DOMAIN job[t].todo :
        job[t].todo[i] # p => \E n \in DOMAIN j.todo : j.todo[n] = job[t].todo[i]
  <2> SUFFICES ASSUME NEW i \in DOMAIN job[t].todo, job[t].todo[i] # p
               PROVE  \E n \in DOMAIN j.todo : j.todo[n] = job[t].todo[i]
    OBVIOUS
  <2>1. i \in 1 .. Len(job[t].todo) /\ i # 1
    BY <1>8
  <2>2. i - 1 \in DOMAIN Tail(job[t].todo) /\ Tail(job[t].todo)[i - 1] = job[t].todo[i]
    BY <1>1, <1>8, <2>1
  <2> QED BY <1>5, <2>2
<1> HIDE DEF j, p
<1>10. ASSUME ~early
       PROVE  /\ \A i \in Owned : i # k => KernelSame(i)
              /\ HasKernel(asked)' /\ HasKernel(run)'
              /\ MemoryOK(k)' /\ StartOK(t)' /\ ArgsOK(t, k)'
  <2>1. /\ \A i \in Owned : i # k => KernelSame(i)
        /\ HasKernel(asked)' /\ HasKernel(run)' /\ MemoryOK(k)'
        /\ KernelRuns(k)' <=> KernelRuns(k)
        /\ k \in mine[t] /\ ~Passes(t, k) /\ kcbs'[k].args = kcbs[k].args => ArgsOK(t, k)'
    BY <1>1, <1>2, <1>3, <1>4, <1>10, MapRuns
  <2>2. p \notin Has(k) /\ Has(k)' = Has(k) \cup {p}
    BY <1>1, <1>2, <1>3, <1>4, OneMore
  <2>3. /\ job[t].had \subseteq Has(k)
        /\ \A q \in Mapped : q \in Has(k) \/ \E i \in DOMAIN job[t].todo : job[t].todo[i] = q
        /\ job[t].todo = Layout \/ ~KernelRuns(k)
    BY <1>1, <1>2, <1>10 DEF StartOK, RunsInv, MemoryInv
  <2>4. ~KernelRuns(k)
    <3> SUFFICES ASSUME KernelRuns(k) PROVE FALSE
      OBVIOUS
    <3>1. Mapped \subseteq Has(k)
      BY <1>2, <1>10 DEF RunsInv, MemoryInv, MemoryOK, KernelRuns, SoundRun
    <3>2. p \in Mapped
      BY <1>1, <1>8 DEF p
    <3> QED BY <2>2, <3>1, <3>2
  <2>5. \A q \in Mapped : q \in Has(k)' \/ \E i \in DOMAIN j.todo : j.todo[i] = q
    BY <1>9, <2>2, <2>3
  <2>6. StartOK(t)'
    <3>1. job'[t].kid = k /\ j.had \subseteq Has(k)' /\ ~KernelRuns(k)'
      BY <1>5, <1>6, <2>1, <2>2, <2>3, <2>4
    <3> QED BY <1>6, <2>5, <3>1 DEF StartOK, Has, KernelRuns
  <2>7. ~Passes(t, k)
    BY <1>1 DEF Passes
  <2> QED BY <1>2, <1>4, <2>1, <2>6, <2>7
<1>20. Active(t, k)
  BY <1>1, <1>2, <1>4, <1>7, <1>10 DEF Active, RunsInv
<1> QED BY <1>20, ActiveStep

(***************************************************************************)
(* A step that writes to the frames of kernel k only, or starts k.         *)
(***************************************************************************)
LEMMA WriteRuns ==
  ASSUME IInv, NEW k \in Owned, kcbs' = kcbs, space' = space, run' = run, Owned' = Owned,
         \A f \in Frame : f \notin Frames(kcbs[k].root) => mem'[f] = mem[f],
         \A i \in Kids : i # k => due'[i] = due[i] /\ (i \in over' <=> i \in over),
         asked' = asked \/ (asked.root = 0 /\ asked'.root = kcbs[k].root)
  PROVE  /\ \A i \in Owned : i # k => KernelSame(i)
         /\ HasKernel(run) => HasKernel(run)'
         /\ HasKernel(asked) => HasKernel(asked)'
<1>1. ASSUME NEW i \in Owned, i # k PROVE KernelSame(i)
  <2>1. /\ kcbs[i].root \in VS!Live /\ kcbs[k].root \in VS!Live /\ kcbs[i].root # kcbs[k].root
        /\ kcbs[i].root \in Frame /\ i \in Kids
    BY <1>1, OwnPages, OwnedIn DEF IInv, OwnersInv, OneRoot
  <2>2. Frames(kcbs[k].root) \cap Frames(kcbs[i].root) = {}
    BY <2>1, FramesApart DEF IInv
  <2>3. Frames(kcbs[i].root) \subseteq Frame
    BY <1>1, OwnPages DEF Frames, Has
  <2>4. kcbs[i].root # 0
    BY <2>1, Constants
  <2> QED BY <1>1, <2>1, <2>2, <2>3, <2>4 DEF KernelSame
<1> QED BY <1>1 DEF HasKernel

(***************************************************************************)
(* What such a write leaves alone in kernel k.                             *)
(***************************************************************************)
LEMMA SameAt ==
  ASSUME IInv, NEW k \in Owned, kcbs' = kcbs, space' = space, NEW p \in Has(k), p \notin Fixed,
         mem'[space[kcbs[k].root][p]] = mem[space[kcbs[k].root][p]]
  PROVE  At(k, p)' = At(k, p)
BY DEF At

LEMMA CopyPageRuns ==
  ASSUME IInv, RunsInv, NEW t \in Thread, CopyPage(t)
  PROVE  RunsInv'
<1>1. pc[t] = "copy" /\ pc[t] \in Uses /\ Owned' = Owned
  BY UseSteps DEF CopyPage, Uses
<1>2. PICK k \in Kids :
        /\ job[t].kid = k /\ k \in mine[t] /\ k \in Owned /\ kcbs[k] \in Kernel
        /\ Kcb(t) = kcbs[k] /\ Root(t) = kcbs[k].root /\ job[t] \in Job
  BY <1>1, UseKernel
<1>10. PICK q, v, g : /\ q = job[t].page /\ g = space[kcbs[k].root][q]
                     /\ v = Piece(IF job[t].args THEN "args" ELSE "data", kcbs[k].binary)
  OBVIOUS
<1>3. /\ kcbs' = kcbs /\ space' = space /\ mine' = mine /\ Moves(t, "idle", NoJob)
      /\ mem' = [mem EXCEPT ![g] = v]
      /\ due' = [due EXCEPT ![k].leave = @ \ {q}]
      /\ asked' = asked /\ run' = run /\ over' = over /\ early' = early
  BY <1>2, <1>10 DEF CopyPage, Return, Goto, Moves, table, accel
<1>4. q \in Heap /\ q \notin Fixed
  BY <1>1, <1>10, Constants DEF IInv, OwnersInv, CallOK
<1>5. v \in Passed(k)
  BY <1>10 DEF Passed
<1>6. /\ due' \in [Kids -> Due] /\ due'[k].see = due[k].see /\ due'[k].leave = due[k].leave \ {q}
      /\ \A i \in Kids : i # k => due'[i] = due[i]
  <2>1. due \in [Kids -> Due]
    BY DEF RunsInv
  <2>2. due[k] \in Due
    BY <2>1
  <2>3. due'[k] = [due[k] EXCEPT !.leave = @ \ {q}]
    BY <1>3, <2>1
  <2>4. /\ due'[k] \in Due /\ due'[k].see = due[k].see
        /\ due'[k].leave = due[k].leave \ {q}
    BY <2>2, <2>3 DEF Due
  <2>5. \A i \in Kids : i # k => due'[i] = due[i]
    BY <1>3, <2>1
  <2>6. due' = [due EXCEPT ![k] = due'[k]]
    BY <1>3, <2>1, <2>3
  <2> QED BY <2>1, <2>4, <2>5, <2>6
<1>7. Stays(t) /\ pc'[t] = "idle"
  BY <1>3 DEF Stays, Moves, IInv, Typed, TypeOK
<1>8. ASSUME ~early
      PROVE  /\ \A i \in Owned : i # k => KernelSame(i)
             /\ HasKernel(asked)' /\ HasKernel(run)'
             /\ MemoryOK(k)' /\ StartOK(t)' /\ ArgsOK(t, k)'
  <2>1. MemoryInv /\ MemoryOK(k) /\ ArgsOK(t, k) /\ StartOK(t)
    BY <1>2, <1>8 DEF RunsInv, MemoryInv
  <2>2. q \in Has(k)
    BY <1>1, <1>2, <1>10, <2>1 DEF StartOK
  <2>3. g \in Frame /\ g \in Frames(kcbs[k].root) /\ g # kcbs[k].root
        /\ \A p \in Has(k) : p # q => space[kcbs[k].root][p] # g
    BY <1>2, <1>4, <1>10, <2>2, OwnPages
  <2>4. /\ \A i \in Owned : i # k => KernelSame(i)
        /\ HasKernel(asked)' /\ HasKernel(run)'
    <3>1. \A f \in Frame : f \notin Frames(kcbs[k].root) => mem'[f] = mem[f]
      BY <1>3, <2>3 DEF IInv, Typed, TypeOK
    <3>2. HasKernel(asked) /\ HasKernel(run)
      BY <2>1 DEF MemoryInv
    <3> QED BY <1>1, <1>2, <1>3, <1>6, <3>1, <3>2, WriteRuns
  <2>5. /\ Has(k)' = Has(k) /\ Code(k)' = Code(k) /\ Passed(k)' = Passed(k)
        /\ Result(k)' = Result(k) /\ Dumped(k)' = Dumped(k)
        /\ At(k, q)' = v /\ \A p \in Has(k) : p # q => At(k, p)' = At(k, p)
    <3>1. mem'[g] = v /\ \A f \in Frame : f # g => mem'[f] = mem[f]
      BY <1>3, <2>3 DEF IInv, Typed, TypeOK
    <3>2. kcbs[k].root \in Frame /\ \A p \in Has(k) : space[kcbs[k].root][p] \in Frame
      BY <1>2, OwnPages, Constants DEF IInv, SpacesApart, SpaceOK, Has
    <3>3. At(k, q)' = v /\ Dumped(k)' = Dumped(k)
      BY <1>3, <1>10, <2>3, <3>1, <3>2 DEF At, Dumped
    <3>4. \A p \in Has(k) : p # q => At(k, p)' = At(k, p)
      BY <1>3, <2>3, <3>1, <3>2 DEF At
    <3> QED BY <1>3, <3>3, <3>4 DEF Has, Code, Passed, Result
  <2>6. \A p \in Segment : p # q
    BY <1>4, Constants
  <2>7. ASSUME NEW x, SoundRun(x, k) PROVE SoundRun(x, k)'
    <3>1. Segment \subseteq Has(k) /\ (x.args # 0 => x.args \in Has(k))
      BY <2>7, Constants DEF SoundRun
    <3>2. \A p \in Segment : At(k, p)' = Code(k)'
      BY <2>5, <2>6, <2>7, <3>1 DEF SoundRun
    <3>3. x.args # 0 => At(k, x.args)' \in Passed(k)'
      <4>1. CASE x.args = q
        BY <1>5, <2>5, <4>1
      <4>2. CASE x.args # q
        BY <2>5, <2>7, <3>1, <4>2 DEF SoundRun
      <4> QED BY <4>1, <4>2
    <3> QED BY <1>3, <1>6, <2>5, <2>7, <3>2, <3>3 DEF SoundRun
  <2>8. /\ kcbs'[k].root = asked'.root => SoundRun(asked, k)'
        /\ kcbs'[k].root = run'.root => SoundRun(run, k)'
    BY <1>3, <2>1, <2>7 DEF MemoryOK, SoundRun
  <2>9. KernelRuns(k)' <=> KernelRuns(k)
    BY <1>3 DEF KernelRuns
  <2>10. Landed(k) => Landed(k)'
    BY <1>6, <2>5 DEF Landed
  <2>11. MemoryOK(k)'
    BY <1>3, <2>1, <2>5, <2>8, <2>9, <2>10 DEF MemoryOK
  <2>12. ArgsOK(t, k)'
    <3>1. kcbs[k].args # 0 => kcbs[k].args \in Has(k)
      BY <2>1 DEF MemoryOK
    <3>2. kcbs[k].args # 0 /\ kcbs[k].args # q => At(k, kcbs[k].args) \in Passed(k)
      BY <1>10, <2>1 DEF ArgsOK, Passes
    <3>3. kcbs[k].args # 0 => At(k, kcbs[k].args)' \in Passed(k)
      <4>1. PICK a : a = kcbs[k].args
        OBVIOUS
      <4>2. CASE a = q
        BY <1>3, <1>5, <2>5, <4>1, <4>2 DEF At
      <4>3. CASE a # q
        BY <1>3, <2>5, <3>1, <3>2, <4>1, <4>3 DEF At
      <4> QED BY <4>2, <4>3
    <3> QED BY <1>3, <2>5, <3>3 DEF ArgsOK
  <2>13. StartOK(t)'
    BY <1>7 DEF StartOK
  <2> QED BY <2>4, <2>11, <2>12, <2>13
<1>9. asked' = NoRun \/ run' = NoRun
  BY <1>3 DEF RunsInv
<1>20. Active(t, k)
  BY <1>1, <1>2, <1>3, <1>6, <1>7, <1>8, <1>9 DEF Active
<1> QED BY <1>20, ActiveStep

(***************************************************************************)
(* A write to kernel k that does not run, beside its buffers: they and the *)
(* arguments are as they were.                                             *)
(***************************************************************************)
LEMMA IdleWrite ==
  ASSUME IInv, RunsInv, ~early, NEW t \in Thread, NEW k \in mine[t], ~KernelRuns(k),
         kcbs' = kcbs, space' = space, asked' = asked, run' = run, due' = due, over' = over,
         Owned' = Owned, pc[t] # "copy",
         \A f \in Frame : f \notin Frames(kcbs[k].root) => mem'[f] = mem[f],
         \A p \in Has(k) \cap Heap : At(k, p)' = At(k, p)
  PROVE  /\ \A i \in Owned : i # k => KernelSame(i)
         /\ HasKernel(asked)' /\ HasKernel(run)'
         /\ MemoryOK(k)' /\ ArgsOK(t, k)' /\ ~KernelRuns(k)'
<1>1. k \in Owned /\ k \in Kids /\ kcbs[k] \in Kernel
  BY OnTyped
<1>2. MemoryInv /\ MemoryOK(k) /\ ArgsOK(t, k) /\ due \in [Kids -> Due]
  BY <1>1 DEF RunsInv, MemoryInv
<1>3. /\ \A i \in Owned : i # k => KernelSame(i)
      /\ HasKernel(asked)' /\ HasKernel(run)'
  BY <1>1, <1>2, WriteRuns DEF MemoryInv
<1>4. ~KernelRuns(k)'
  BY DEF KernelRuns
<1>5. Has(k)' = Has(k) /\ Result(k)' = Result(k) /\ Passed(k)' = Passed(k)
  BY DEF Has, Result, Passed
<1>6. due[k].leave \subseteq Heap
  BY <1>1, <1>2 DEF Due
<1>7. Landed(k)'
  BY <1>2, <1>5, <1>6 DEF MemoryOK, Landed
<1>8. MemoryOK(k)'
  BY <1>2, <1>4, <1>5, <1>7 DEF MemoryOK, KernelRuns
<1>9. ArgsOK(t, k)'
  <2>1. kcbs[k].args # 0 => kcbs[k].args \in Has(k) \cap Heap /\ At(k, kcbs[k].args) \in Passed(k)
    BY <1>1, <1>2 DEF MemoryOK, ArgsOK, Passes, Kernel
  <2> QED BY <1>5, <2>1 DEF ArgsOK
<1> QED BY <1>3, <1>4, <1>8, <1>9

LEMMA UploadVxbinRuns ==
  ASSUME IInv, RunsInv, NEW t \in Thread, UploadVxbin(t)
  PROVE  RunsInv'
<1>1. pc[t] = "binary" /\ pc[t] \in Uses /\ Owned' = Owned
  BY UseSteps DEF UploadVxbin, Uses
<1>2. PICK k \in Kids :
        /\ job[t].kid = k /\ k \in mine[t] /\ k \in Owned /\ kcbs[k] \in Kernel
        /\ Kcb(t) = kcbs[k] /\ Root(t) = kcbs[k].root /\ job[t] \in Job
  BY <1>1, UseKernel
<1>3. /\ kcbs' = kcbs /\ space' = space /\ mine' = mine /\ Moves(t, "pages", job[t])
      /\ mem' = [f \in Frame |-> IF \E p \in Segment : space[kcbs[k].root][p] = f
                                 THEN Code(k) ELSE mem[f]]
      /\ due' = due /\ asked' = asked /\ run' = run /\ over' = over /\ early' = early
  BY <1>2 DEF UploadVxbin, Goto, Moves, table, accel, Code, IInv, Typed, TypeOK
<1>4. Stays(t) /\ pc'[t] = "pages" /\ job'[t] = job[t]
  BY <1>3 DEF Stays, Moves, Uses, IInv, Typed, TypeOK
<1>5. ASSUME ~early
      PROVE  /\ \A i \in Owned : i # k => KernelSame(i)
             /\ HasKernel(asked)' /\ HasKernel(run)'
             /\ MemoryOK(k)' /\ StartOK(t)' /\ ArgsOK(t, k)'
  <2>1. job[t].had \cup Mapped \subseteq Has(k) /\ ~KernelRuns(k)
    BY <1>1, <1>2, <1>5 DEF RunsInv, MemoryInv, StartOK
  <2>2. \A p \in Segment : /\ p \in Has(k) /\ space[kcbs[k].root][p] \in Frames(kcbs[k].root)
                           /\ space[kcbs[k].root][p] \in Frame
                           /\ \A o \in Has(k) : o # p => space[kcbs[k].root][p] # space[kcbs[k].root][o]
    BY <1>2, <2>1, OwnPages, Constants
  <2>3. \A f \in Frame : f \notin Frames(kcbs[k].root) => mem'[f] = mem[f]
    BY <1>3, <2>2
  <2>4. ASSUME NEW p \in Has(k) \cap Heap PROVE At(k, p)' = At(k, p)
    <3>1. p \notin Segment /\ space[kcbs[k].root][p] \in Frame
      BY <1>2, OwnPages, Constants
    <3> QED BY <1>3, <2>2, <3>1 DEF At
  <2>5. \A p \in Segment : At(k, p)' = Code(k)'
    BY <1>3, <2>2 DEF At, Code
  <2>6. /\ \A i \in Owned : i # k => KernelSame(i)
        /\ HasKernel(asked)' /\ HasKernel(run)'
        /\ MemoryOK(k)' /\ ArgsOK(t, k)' /\ ~KernelRuns(k)'
    BY <1>1, <1>2, <1>3, <1>5, <2>1, <2>3, <2>4, IdleWrite
  <2>7. Has(k)' = Has(k)
    BY <1>3 DEF Has
  <2>8. StartOK(t)'
    BY <1>2, <1>4, <2>1, <2>5, <2>6, <2>7 DEF StartOK, Has, KernelRuns, At, Code
  <2> QED BY <2>6, <2>8
<1>6. due' \in [Kids -> Due] /\ (asked' = NoRun \/ run' = NoRun)
  BY <1>3 DEF RunsInv
<1>20. Active(t, k)
  BY <1>1, <1>2, <1>3, <1>4, <1>5, <1>6 DEF Active
<1> QED BY <1>20, ActiveStep

LEMMA UploadPageTableRuns ==
  ASSUME IInv, RunsInv, NEW t \in Thread, UploadPageTable(t)
  PROVE  RunsInv'
<1>1. pc[t] = "pages" /\ pc[t] \in Uses /\ Owned' = Owned
  BY UseSteps DEF UploadPageTable, Uses
<1>2. PICK k \in Kids :
        /\ job[t].kid = k /\ k \in mine[t] /\ k \in Owned /\ kcbs[k] \in Kernel
        /\ Kcb(t) = kcbs[k] /\ Root(t) = kcbs[k].root /\ job[t] \in Job
  BY <1>1, UseKernel
<1>3. PICK r : r = kcbs[k].root
  OBVIOUS
<1>4. /\ kcbs' = kcbs /\ space' = space /\ mine' = mine /\ Moves(t, "start", job[t])
      /\ mem' = [mem EXCEPT ![r] = Table(space[r])]
      /\ due' = due /\ asked' = asked /\ run' = run /\ over' = over /\ early' = early
  BY <1>2, <1>3 DEF UploadPageTable, Goto, Moves, table, accel, IInv, Typed, TypeOK
<1>5. Stays(t) /\ pc'[t] = "start" /\ job'[t] = job[t]
  BY <1>4 DEF Stays, Moves, Uses, IInv, Typed, TypeOK
<1>6. ASSUME ~early
      PROVE  /\ \A i \in Owned : i # k => KernelSame(i)
             /\ HasKernel(asked)' /\ HasKernel(run)'
             /\ MemoryOK(k)' /\ StartOK(t)' /\ ArgsOK(t, k)'
  <2>1. /\ job[t].had \cup Mapped \subseteq Has(k) /\ ~KernelRuns(k)
        /\ \A p \in Segment : At(k, p) = Code(k)
    BY <1>1, <1>2, <1>6 DEF RunsInv, MemoryInv, StartOK
  <2>2. /\ r \in Frame /\ r \in Frames(r) /\ mem'[r] = Table(space[r])
        /\ \A f \in Frame : f # r => mem'[f] = mem[f]
    BY <1>2, <1>3, <1>4, OwnPages DEF IInv, Typed, TypeOK
  <2>3. \A p \in Has(k) : p \notin Fixed => At(k, p)' = At(k, p)
    BY <1>2, <1>3, <1>4, <2>2, OwnPages DEF At
  <2>4. \A f \in Frame : f \notin Frames(kcbs[k].root) => mem'[f] = mem[f]
    BY <1>3, <2>2
  <2>5. \A p \in Has(k) \cap Heap : At(k, p)' = At(k, p)
    BY <2>3, Constants
  <2>6. /\ \A i \in Owned : i # k => KernelSame(i)
        /\ HasKernel(asked)' /\ HasKernel(run)'
        /\ MemoryOK(k)' /\ ArgsOK(t, k)' /\ ~KernelRuns(k)'
    BY <1>1, <1>2, <1>4, <1>6, <2>1, <2>4, <2>5, IdleWrite
  <2>7. Has(k)' = Has(k) /\ Code(k)' = Code(k) /\ Dumped(k)' = Table(space'[kcbs'[k].root])
    BY <1>3, <1>4, <2>2 DEF Has, Code, Dumped
  <2>8. \A p \in Segment : At(k, p)' = Code(k)'
    BY <2>1, <2>3, <2>7, Constants
  <2>9. StartOK(t)'
    BY <1>2, <1>5, <2>1, <2>6, <2>7, <2>8 DEF StartOK, Has, KernelRuns, At, Code, Dumped
  <2> QED BY <2>6, <2>9
<1>7. due' \in [Kids -> Due] /\ (asked' = NoRun \/ run' = NoRun)
  BY <1>4 DEF RunsInv
<1>20. Active(t, k)
  BY <1>1, <1>2, <1>4, <1>5, <1>6, <1>7 DEF Active
<1> QED BY <1>20, ActiveStep

LEMMA WaitReadyRuns ==
  ASSUME IInv, RunsInv, NEW t \in Thread, WaitReady(t)
  PROVE  RunsInv'
<1>1. pc[t] = "wait" /\ pc[t] \in Uses /\ Owned' = Owned
  BY UseSteps DEF WaitReady, Uses
<1>2. PICK k \in Kids : job[t].kid = k /\ k \in mine[t] /\ k \in Owned
  BY <1>1, UseKernel
<1>3. /\ kcbs' = kcbs /\ space' = space /\ mem' = mem /\ mine' = mine /\ Moves(t, "idle", NoJob)
      /\ due' = due /\ asked' = asked /\ run' = run /\ over' = over \cup {k} /\ early' = early
      /\ asked = NoRun /\ run = NoRun
  BY <1>2 DEF WaitReady, Return, Goto, Moves, table, accel
<1>4. Stays(t) /\ pc'[t] = "idle"
  BY <1>3 DEF Stays, Moves, IInv, Typed, TypeOK
<1>5. ASSUME ~early
      PROVE  /\ \A i \in Owned : i # k => KernelSame(i)
             /\ HasKernel(asked)' /\ HasKernel(run)'
             /\ MemoryOK(k)' /\ StartOK(t)' /\ ArgsOK(t, k)'
  <2>1. MemoryInv /\ MemoryOK(k) /\ ArgsOK(t, k)
    BY <1>2, <1>5 DEF RunsInv, MemoryInv
  <2>2. \A i \in Owned : i # k => KernelSame(i)
    BY <1>3 DEF KernelSame
  <2>3. HasKernel(asked)' /\ HasKernel(run)'
    BY <1>3 DEF HasKernel
  <2>4. ~KernelRuns(k) /\ ~KernelRuns(k)'
    <3>1. kcbs[k].root # 0
      BY <1>2, OwnPages, Constants
    <3> QED BY <1>3, <3>1 DEF KernelRuns, NoRun
  <2>5. /\ Has(k)' = Has(k) /\ Result(k)' = Result(k) /\ Passed(k)' = Passed(k)
        /\ \A p : At(k, p)' = At(k, p)
    BY <1>3 DEF Has, Result, Passed, At
  <2>6. Landed(k)'
    BY <1>3, <2>1, <2>4, <2>5 DEF MemoryOK, Landed
  <2>7. MemoryOK(k)'
    BY <1>3, <2>1, <2>4, <2>5, <2>6 DEF MemoryOK, KernelRuns
  <2>8. ArgsOK(t, k)'
    BY <1>1, <1>3, <2>1, <2>5 DEF ArgsOK, Passes
  <2>9. StartOK(t)'
    BY <1>4 DEF StartOK
  <2> QED BY <2>2, <2>3, <2>7, <2>8, <2>9
<1>6. due' \in [Kids -> Due] /\ (asked' = NoRun \/ run' = NoRun)
  BY <1>3 DEF RunsInv
<1>20. Active(t, k)
  BY <1>1, <1>2, <1>3, <1>4, <1>5, <1>6 DEF Active
<1> QED BY <1>20, ActiveStep

LEMMA StartRuns ==
  ASSUME IInv, RunsInv, NEW t \in Thread, Start(t)
  PROVE  RunsInv'
<1>1. pc[t] = "start" /\ pc[t] \in Uses /\ Owned' = Owned
  BY UseSteps DEF Start, Uses
<1>2. PICK k \in Kids :
        /\ job[t].kid = k /\ k \in mine[t] /\ k \in Owned /\ kcbs[k] \in Kernel
        /\ Kcb(t) = kcbs[k] /\ Root(t) = kcbs[k].root /\ job[t] \in Job
  BY <1>1, UseKernel
<1>3. PICK x, d : /\ x = [root |-> kcbs[k].root, args |-> kcbs[k].args]
                  /\ d = [see   |-> job[t].had \cup Mapped,
                          leave |-> (job[t].had \cap Heap) \ {kcbs[k].args}]
  OBVIOUS
<1>4. /\ kcbs' = kcbs /\ space' = space /\ mem' = mem /\ mine' = mine /\ Moves(t, "idle", NoJob)
      /\ due' = [due EXCEPT ![k] = d] /\ over' = over \ {k} /\ early' = early
      /\ asked = NoRun /\ run = NoRun /\ asked' = x /\ run' = run
  BY <1>2, <1>3 DEF Start, DR!Request, Return, Goto, Moves, table
<1>5. Stays(t) /\ pc'[t] = "idle"
  BY <1>4 DEF Stays, Moves, IInv, Typed, TypeOK
<1>6. /\ due' \in [Kids -> Due] /\ due'[k] = d
      /\ \A i \in Kids : i # k => due'[i] = due[i] /\ (i \in over' <=> i \in over)
  <2>1. d \in Due
    BY <1>2, <1>3, Constants DEF Job, Due
  <2> QED BY <1>2, <1>4, <2>1 DEF RunsInv
<1>7. ASSUME ~early
      PROVE  /\ \A i \in Owned : i # k => KernelSame(i)
             /\ HasKernel(asked)' /\ HasKernel(run)'
             /\ MemoryOK(k)' /\ StartOK(t)' /\ ArgsOK(t, k)'
  <2>1. MemoryInv /\ MemoryOK(k) /\ ArgsOK(t, k)
    BY <1>2, <1>7 DEF RunsInv, MemoryInv
  <2>2. /\ job[t].had \cup Mapped \subseteq Has(k) /\ Dumped(k) = Table(space[kcbs[k].root])
        /\ \A p \in Segment : At(k, p) = Code(k)
    BY <1>1, <1>2, <1>7 DEF RunsInv, MemoryInv, StartOK
  <2>3. \A i \in Owned : i # k => KernelSame(i)
    BY <1>1, <1>2, <1>3, <1>4, <1>6, WriteRuns DEF NoRun
  <2>4. HasKernel(asked)' /\ HasKernel(run)'
    BY <1>1, <1>2, <1>3, <1>4 DEF HasKernel
  <2>5. kcbs[k].root \in Frame /\ kcbs[k].root # 0
    BY <1>2, OwnPages, Constants
  <2>6. kcbs[k].args # 0 => kcbs[k].args \in Has(k) /\ At(k, kcbs[k].args) \in Passed(k)
    BY <1>1, <2>1 DEF MemoryOK, ArgsOK, Passes
  <2>7. Dumped(k).kind = "table" /\ Dumped(k).map = space[kcbs[k].root]
    BY <2>2 DEF Table
  <2>8. /\ d.see = job[t].had \cup Mapped
        /\ d.leave = (job[t].had \cap Heap) \ {kcbs[k].args}
        /\ x.root = kcbs[k].root /\ x.args = kcbs[k].args
    BY <1>3
  <2>9. SoundRun(x, k)'
    <3>1. /\ Dumped(k)' = Dumped(k) /\ Code(k)' = Code(k) /\ Passed(k)' = Passed(k)
          /\ Has(k)' = Has(k) /\ \A p : At(k, p)' = At(k, p)
      BY <1>4 DEF Dumped, Code, Passed, Has, At
    <3>2. \A p \in Segment : At(k, p)' = Code(k)'
      BY <2>2, <3>1
    <3>3. x.args # 0 => At(k, x.args)' \in Passed(k)'
      BY <2>6, <2>8, <3>1
    <3>4. /\ Mapped \subseteq Has(k) /\ d.see \subseteq Has(k)
          /\ d.leave \subseteq (Has(k) \cap Heap) \ {x.args}
          /\ x.args # 0 => x.args \in Has(k)
      BY <2>2, <2>6, <2>8
    <3>5. Dumped(k)'.kind = "table" /\ Dumped(k)'.map = space'[kcbs'[k].root]
      BY <1>4, <2>7, <3>1
    <3>6. DOMAIN space'[kcbs'[k].root] = Has(k)
      BY <1>4 DEF Has
    <3> QED BY <1>4, <1>6, <2>8, <3>1, <3>2, <3>3, <3>4, <3>5, <3>6 DEF SoundRun
  <2>10. MemoryOK(k)'
    <3>1. SoundRun(asked, k)'
      BY <1>4, <2>9 DEF SoundRun
    <3>2. KernelRuns(k)' /\ kcbs'[k].root # run'.root /\ k \notin over'
      BY <1>4, <2>5, <2>8 DEF KernelRuns, NoRun
    <3>3. kcbs'[k].args # 0 => kcbs'[k].args \in Has(k)'
      BY <1>4, <2>6 DEF Has
    <3> QED BY <3>1, <3>2, <3>3 DEF MemoryOK
  <2>11. ArgsOK(t, k)'
    BY <1>4, <2>6 DEF ArgsOK, At, Passed
  <2>12. StartOK(t)'
    BY <1>5 DEF StartOK
  <2> QED BY <2>3, <2>4, <2>10, <2>11, <2>12
<1>8. run' = NoRun
  BY <1>4
<1>20. Active(t, k)
  BY <1>1, <1>2, <1>4, <1>5, <1>6, <1>7, <1>8 DEF Active
<1> QED BY <1>20, ActiveStep

(***************************************************************************)
(* A step of a load or a free on a kernel that nobody owns.                *)
(***************************************************************************)
LEMMA UnownedStep ==
  ASSUME IInv, RunsInv, NEW t \in Thread, pc[t] \in Loads \cup {"slot"}, OthersSame(t),
         pc'[t] \in {"idle", "read"}, mine' = mine, Owned' = Owned,
         early' = early, mem' = mem, asked' = asked, run' = run,
         \A i \in Owned : kcbs'[i] = kcbs[i] /\ space'[kcbs[i].root] = space[kcbs[i].root],
         due' \in [Kids -> Due],
         \A i \in Kids : i # job[t].kid => due'[i] = due[i] /\ (i \in over' <=> i \in over),
         ~early => due'[job[t].kid] = Nothing /\ job[t].kid \notin over'
  PROVE  RunsInv'
<1>1. PICK k \in Kids : k = job[t].kid /\ k \in Claims(t) /\ k \notin mine[t] /\ k \notin Owned
  <2>1. job[t].kid \in Kids /\ job[t].kid \in Claims(t) /\ job[t].kid \notin mine[t]
    BY ClaimTyped DEF Frees
  <2>2. job[t].kid \notin Owns(t)
    BY <2>1 DEF Owns, Loads
  <2> QED BY <2>1, <2>2, NotOwned
<1>2. InUse \subseteq InUse' \cup {k} /\ mine'[t] = mine[t]
  <2>1. Keeps(t) \subseteq Keeps(t)' \cup {k}
    BY <1>1 DEF Keeps
  <2> QED BY <2>1, InUseStep
<1>3. StartOK(t)'
  BY DEF StartOK
<1>4. \A i \in Owned : i # k => KernelSame(i)
  BY <1>1, OwnedIn DEF KernelSame
<1>5. ASSUME ~early PROVE HasKernel(asked)' /\ HasKernel(run)'
  BY <1>5 DEF RunsInv, MemoryInv, HasKernel
<1>6. asked' = NoRun \/ run' = NoRun
  BY DEF RunsInv
<1>21. Concerns(t, k)
  BY <1>1, <1>2, <1>3, <1>4, <1>5, <1>6 DEF Concerns
<1> QED BY <1>21, RunsStep

\* The kernel id of a load is nobody's.
LEMMA LoadUnused ==
  ASSUME IInv, RunsInv, NEW t \in Thread, pc[t] \in Loads, ~early
  PROVE  due[job[t].kid] = Nothing /\ job[t].kid \notin over /\ job[t].kid \in Kids
<1>1. /\ job[t].kid \in Kids /\ job[t].kid \in Claims(t) /\ job[t].kid \notin mine[t]
  BY ClaimTyped
<1>2. ASSUME NEW u \in Thread, job[t].kid \in Keeps(u) PROVE FALSE
  <2>1. job[t].kid \in Claims(u)
    BY <1>2 DEF Keeps, Claims
  <2>2. u = t
    BY <1>1, <2>1 DEF IInv, OwnersInv, OneClaim
  <2> QED BY <1>1, <1>2, <2>2 DEF Keeps, Loads, Frees
<1>3. job[t].kid \notin InUse
  BY <1>2 DEF InUse
<1> QED BY <1>1, <1>3 DEF RunsInv, MemoryInv

LEMMA UnownedSteps ==
  ASSUME IInv, RunsInv, NEW t \in Thread,
         AllocatePageTable(t) \/ PageTableFails(t) \/ ReadVxbinThrows(t) \/ FreeKcb(t)
  PROVE  RunsInv'
<1>1. Owned' = Owned
  BY AllocatePageTableInv, GiveUps
<1>2. due \in [Kids -> Due] /\ \A i \in Owned : i \in Kids /\ kcbs[i].root \in VS!Live
  BY OwnedIn, OwnPages DEF RunsInv
<1>3. \A p, j : Moves(t, p, j) /\ mine' = mine => OthersSame(t) /\ pc'[t] = p
  BY DEF Moves, OthersSame, IInv, Typed, TypeOK
<1>4. CASE AllocatePageTable(t)
  <2>1. /\ pc[t] \in Loads /\ pc' = [pc EXCEPT ![t] = "read"]
        /\ mine' = mine /\ kcbs' = kcbs /\ mem' = mem /\ asked' = asked /\ run' = run
        /\ due' = due /\ over' = over /\ early' = early
    BY <1>4 DEF AllocatePageTable, Goto, table, accel, Loads
  <2>2. PICK f \in Frame : Lowest(f) /\ VS!Create(f) /\ job' = [job EXCEPT ![t].root = f]
    BY <1>4 DEF AllocatePageTable
  <2>3. OthersSame(t) /\ pc'[t] = "read"
    BY <2>1, <2>2 DEF OthersSame, IInv, Typed, TypeOK
  <2>4. \A i \in Owned : space'[kcbs[i].root] = space[kcbs[i].root]
    BY <1>2, <2>2, CreateApart DEF IInv
  <2> QED BY <1>1, <1>2, <2>1, <2>3, <2>4, LoadUnused, UnownedStep
<1>5. CASE PageTableFails(t) \/ ReadVxbinThrows(t)
  <2>1. /\ pc[t] \in Loads /\ Moves(t, "idle", NoJob)
        /\ mine' = mine /\ mem' = mem /\ asked' = asked /\ run' = run /\ space' = space
        /\ due' = due /\ over' = over /\ early' = early
        /\ kcbs' = kcbs \/ kcbs' = [kcbs EXCEPT ![job[t].kid] = NoKcb]
    BY <1>5 DEF PageTableFails, ReadVxbinThrows, Return, Goto, Moves, table, accel, Loads
  <2>2. job[t].kid \notin Owned
    <3>1. job[t].kid \in Claims(t) /\ job[t].kid \notin Owns(t)
      BY <2>1, ClaimTyped DEF Owns, Loads
    <3> QED BY <3>1, NotOwned
  <2>3. \A i \in Owned : kcbs'[i] = kcbs[i]
    BY <1>2, <2>1, <2>2 DEF IInv, Typed, TypeOK
  <2> QED BY <1>1, <1>2, <1>3, <2>1, <2>3, LoadUnused, UnownedStep
<1>6. CASE FreeKcb(t)
  <2>1. PICK k \in Kids : k = job[t].kid /\ k \notin Owned
    <3>1. pc[t] = "slot" /\ pc[t] \in Frees
      BY <1>6 DEF FreeKcb, Frees
    <3>2. job[t].kid \in Claims(t) /\ job[t].kid \notin Owns(t) /\ job[t].kid \in Kids
      BY <3>1, ClaimTyped DEF Owns
    <3> QED BY <3>2, NotOwned
  <2>2. /\ pc[t] = "slot" /\ Moves(t, "idle", NoJob)
        /\ mine' = mine /\ mem' = mem /\ asked' = asked /\ run' = run /\ space' = space
        /\ due' = [due EXCEPT ![k] = Nothing] /\ over' = over \ {k} /\ early' = early
        /\ kcbs' = [kcbs EXCEPT ![k] = NoKcb]
    BY <1>6, <2>1 DEF FreeKcb, Return, Goto, Moves, accel
  <2>3. Nothing \in Due
    BY DEF Nothing, Due
  <2>4. /\ due' \in [Kids -> Due] /\ due'[k] = Nothing
        /\ \A i \in Kids : i # k => due'[i] = due[i]
    BY <1>2, <2>2, <2>3
  <2>5. \A i \in Owned : kcbs'[i] = kcbs[i]
    BY <1>2, <2>1, <2>2 DEF IInv, Typed, TypeOK
  <2> QED BY <1>1, <1>2, <1>3, <2>1, <2>2, <2>4, <2>5, UnownedStep
<1> QED BY <1>4, <1>5, <1>6

LEMMA ReadVxbinRuns ==
  ASSUME IInv, RunsInv, NEW t \in Thread, ReadVxbin(t)
  PROVE  RunsInv'
<1>1. pc[t] = "read" /\ pc[t] \in Loads
  BY DEF ReadVxbin, Loads
<1>2. PICK k, r : k = job[t].kid /\ r = job[t].root /\ k \in Claims(t) /\ k \in Kids
  BY <1>1, ClaimTyped
<1>3. /\ r \in VS!Live /\ r # 0 /\ \A i \in Owned : kcbs[i].root # r
  BY <1>1, <1>2, ClaimTyped, Constants DEF LoadOK, IInv, Typed, TypeOK
<1>4. /\ Moves(t, "idle", NoJob) /\ mine' = [mine EXCEPT ![t] = @ \cup {k}]
      /\ kcbs' = [kcbs EXCEPT ![k] = [root |-> r, binary |-> job[t].binary, args |-> 0,
                                      top |-> HeapBase, value |-> TRUE]]
      /\ space' = space /\ mem' = mem /\ asked' = asked /\ run' = run
      /\ due' = due /\ over' = over /\ early' = early
  BY <1>2 DEF ReadVxbin, Return, Goto, Moves, accel
<1>5. /\ kcbs'[k].root = r /\ kcbs'[k].args = 0
      /\ \A i \in Kids : i # k => kcbs'[i] = kcbs[i]
  BY <1>2, <1>4 DEF IInv, Typed, TypeOK
<1>6. OthersSame(t) /\ pc'[t] = "idle" /\ mine'[t] = mine[t] \cup {k}
  BY <1>4 DEF Moves, OthersSame, IInv, Typed, TypeOK
<1>7. k \in InUse' /\ InUse \subseteq InUse' \cup {k}
  <2>1. k \in Keeps(t)' /\ Keeps(t) \subseteq Keeps(t)' \cup {k}
    BY <1>1, <1>6 DEF Keeps, Loads, Frees
  <2> QED BY <1>6, <2>1, InUseStep
<1>8. Owned' = Owned \cup {k}
  BY <1>2, ReadVxbinInv
<1>9. \A i \in Owned : i # k => KernelSame(i)
  BY <1>4, <1>5, OwnedIn DEF KernelSame
<1>10. \A i \in Owned : i \in Kids /\ i # k
  <2>1. k \notin Owns(t)
    BY <1>1, <1>2, ClaimTyped DEF Owns
  <2> QED BY <1>2, <2>1, NotOwned, OwnedIn
<1>11. StartOK(t)' /\ ArgsOK(t, k)'
  BY <1>5, <1>6 DEF StartOK, ArgsOK
<1>12. ASSUME ~early PROVE HasKernel(asked)' /\ HasKernel(run)' /\ MemoryOK(k)'
  <2>1. MemoryInv /\ due[k] = Nothing
    BY <1>1, <1>2, <1>12, LoadUnused DEF RunsInv
  <2>2. HasKernel(asked)' /\ HasKernel(run)'
    BY <1>4, <1>5, <1>8, <1>10, <2>1 DEF MemoryInv, HasKernel
  <2>3. r # asked.root /\ r # run.root
    BY <1>3, <2>1 DEF MemoryInv, HasKernel, NoRun
  <2>4. Landed(k)'
    BY <1>4, <2>1 DEF Landed, Nothing
  <2> QED BY <1>4, <1>5, <2>2, <2>3, <2>4 DEF MemoryOK, KernelRuns
<1>13. due' \in [Kids -> Due] /\ (asked' = NoRun \/ run' = NoRun)
  BY <1>4 DEF RunsInv
<1>21. Concerns(t, k)
  BY <1>2, <1>4, <1>6, <1>7, <1>8, <1>9, <1>11, <1>12, <1>13 DEF Concerns
<1> QED BY <1>21, RunsStep

LEMMA FreePageTableRuns ==
  ASSUME IInv, RunsInv, NEW t \in Thread, FreePageTable(t)
  PROVE  RunsInv'
<1>1. pc[t] = "free" /\ pc[t] \in Frees
  BY DEF FreePageTable, Frees
<1>2. PICK k \in Kids : k = job[t].kid /\ k \in Claims(t) /\ k \notin mine[t] /\ k \in Owned
  BY <1>1, ClaimTyped, FreePageTableInv
<1>3. /\ pc' = [pc EXCEPT ![t] = "slot"] /\ job' = job /\ mine' = mine /\ kcbs' = kcbs
      /\ VS!Destroy(kcbs[k].root)
      /\ early' = (early \/ kcbs[k].root \in {asked.root, run.root})
      /\ mem' = mem /\ asked' = asked /\ run' = run /\ due' = due /\ over' = over
  BY <1>2 DEF FreePageTable, Goto, table, accel, Root, Kcb
<1>4. OthersSame(t) /\ pc'[t] = "slot" /\ mine'[t] = mine[t] /\ job'[t] = job[t]
  BY <1>3 DEF OthersSame, IInv, Typed, TypeOK
<1>5. Owned' = Owned \ {k}
  BY <1>2, FreePageTableInv
<1>6. k \in InUse' /\ InUse \subseteq InUse' \cup {k}
  <2>1. k \in Keeps(t)' /\ Keeps(t) \subseteq Keeps(t)' \cup {k}
    BY <1>2, <1>4 DEF Keeps, Frees
  <2> QED BY <1>4, <2>1, InUseStep
<1>7. \A i \in Owned : i # k => KernelSame(i)
  <2>1. \A i \in Owned : i # k => kcbs[i].root # kcbs[k].root /\ kcbs[i].root \in VS!Live
    BY <1>2 DEF IInv, OwnersInv, OneRoot, KernelOK
  <2>2. \A i \in Owned : i # k => space'[kcbs[i].root] = space[kcbs[i].root]
    BY <1>3, <2>1, DestroyApart DEF IInv
  <2> QED BY <1>3, <2>2 DEF KernelSame
<1>8. ASSUME ~early' PROVE HasKernel(asked)' /\ HasKernel(run)'
  <2>1. HasKernel(asked) /\ HasKernel(run) /\ kcbs[k].root # asked.root /\ kcbs[k].root # run.root
    BY <1>3, <1>8 DEF RunsInv, MemoryInv
  <2> QED BY <1>3, <1>5, <2>1 DEF HasKernel
<1>9. StartOK(t)'
  BY <1>4 DEF StartOK
<1>10. due' \in [Kids -> Due] /\ (asked' = NoRun \/ run' = NoRun)
  BY <1>3 DEF RunsInv
<1>21. Concerns(t, k)
  BY <1>2, <1>3, <1>4, <1>5, <1>6, <1>7, <1>8, <1>9, <1>10 DEF Concerns
<1> QED BY <1>21, RunsStep

----------------------------------------------------------------------------
(* The second half: the device.                                            *)

LEMMA DeviceOwners ==
  ASSUME UNCHANGED Others
  PROVE  /\ Owned' = Owned /\ InUse' = InUse /\ kcbs' = kcbs /\ space' = space /\ pc' = pc
         /\ job' = job /\ mine' = mine /\ due' = due /\ over' = over /\ early' = early
BY DEF Others, table, Owned, Owns, InUse, Keeps

LEMMA RunBeginsRuns ==
  ASSUME IInv, RunsInv, RunBegins
  PROVE  RunsInv'
<1>1. PICK x : /\ x = asked /\ x # NoRun /\ run' = x /\ asked' = NoRun /\ run = NoRun
  BY DEF RunBegins, DR!Begin, RunsInv
<1>2. /\ Owned' = Owned /\ InUse' = InUse /\ kcbs' = kcbs /\ space' = space /\ pc' = pc
      /\ job' = job /\ mine' = mine /\ due' = due /\ over' = over /\ early' = early
      /\ mem' = mem
  BY DeviceOwners DEF RunBegins
<1> SUFFICES ASSUME ~early PROVE MemoryInv'
  BY <1>1, <1>2 DEF RunsInv
<1>3. MemoryInv
  BY DEF RunsInv
<1>4. HasKernel(asked)' /\ HasKernel(run)'
  BY <1>1, <1>2, <1>3 DEF MemoryInv, HasKernel
<1>5. ASSUME NEW k \in Owned
      PROVE  /\ Has(k)' = Has(k) /\ Dumped(k)' = Dumped(k) /\ Code(k)' = Code(k)
             /\ Passed(k)' = Passed(k) /\ Result(k)' = Result(k)
             /\ \A p : At(k, p)' = At(k, p)
  BY <1>2 DEF Has, Dumped, Code, Passed, Result, At
<1>6. ASSUME NEW k \in Owned PROVE (KernelRuns(k)' <=> KernelRuns(k)) /\ MemoryOK(k)'
  <2>1. kcbs[k].root # 0 /\ NoRun.root = 0
    BY <1>6, OwnPages, Constants DEF NoRun
  <2>2. KernelRuns(k)' <=> KernelRuns(k)
    BY <1>1, <1>2, <2>1 DEF KernelRuns
  <2>3. MemoryOK(k)
    BY <1>3, <1>6 DEF MemoryInv
  <2>4. SoundRun(x, k) => SoundRun(x, k)'
    BY <1>2, <1>5, <1>6 DEF SoundRun
  <2>5. SoundRun(x, k)' => SoundRun(run, k)'
    BY <1>1 DEF SoundRun
  <2>6. kcbs'[k].root = run'.root => SoundRun(run, k)'
    BY <1>1, <1>2, <2>3, <2>4, <2>5 DEF MemoryOK
  <2>7. kcbs'[k].root # asked'.root
    BY <1>1, <1>2, <2>1
  <2>8. Landed(k) => Landed(k)'
    BY <1>2, <1>5, <1>6 DEF Landed
  <2> QED BY <1>2, <1>5, <1>6, <2>2, <2>3, <2>6, <2>7, <2>8 DEF MemoryOK
<1>7. ASSUME NEW t \in Thread PROVE StartOK(t)'
  <2>1. StartOK(t)
    BY <1>3, <1>7 DEF MemoryInv
  <2>2. CASE pc[t] \notin Uses
    BY <1>2, <2>2 DEF StartOK, Uses
  <2>3. CASE pc[t] \in Uses
    <3>1. PICK k \in Owned : k = job[t].kid
      BY <2>3, OnTyped DEF IInv, OwnersInv, CallOK
    <3>2. KernelRuns(k)' <=> KernelRuns(k)
      BY <1>6
    <3> QED BY <1>2, <2>1, <3>1, <3>2 DEF StartOK, Has, At, Code, Dumped, KernelRuns
  <2> QED BY <2>2, <2>3
<1>8. ASSUME NEW t \in Thread, NEW k \in mine'[t] PROVE ArgsOK(t, k)'
  <2>1. ArgsOK(t, k)
    BY <1>2, <1>3, <1>8 DEF MemoryInv
  <2> QED BY <1>2, <2>1 DEF ArgsOK, At, Passed, Passes
<1>9. \A k \in Kids \ InUse' : due'[k] = Nothing /\ k \notin over'
  BY <1>2, <1>3 DEF MemoryInv
<1> QED BY <1>2, <1>4, <1>6, <1>7, <1>8, <1>9 DEF MemoryInv

(***************************************************************************)
(* The run of kernel k ends: what the device wrote are the pages of k's    *)
(* heap that its table has, but for the arguments.                         *)
(***************************************************************************)
LEMMA OutputIs ==
  ASSUME IInv, NEW k \in Owned, kcbs[k].root = run.root, SoundRun(run, k)
  PROVE  /\ Executes = kcbs[k].binary
         /\ Output = {space[kcbs[k].root][p] : p \in (DOMAIN Dumped(k).map \cap Heap) \ {run.args}}
         /\ Output \subseteq Frames(kcbs[k].root)
<1>1. Sees = Dumped(k).map /\ Segment \subseteq DOMAIN Sees /\ DOMAIN Sees \subseteq Has(k)
      /\ \A p \in DOMAIN Sees : Sees[p] = space[kcbs[k].root][p]
  BY Constants DEF SoundRun, Sees, Dumped
<1>2. Executes = kcbs[k].binary
  <2>1. PICK s \in Segment : s = CHOOSE p \in Segment : TRUE
    BY SpinnerAssumption
  <2>2. mem[Sees[s]] = Code(k)
    BY <1>1, <2>1 DEF SoundRun, At
  <2>3. Executes = mem[Sees[s]].of
    BY <1>1, <2>1, SpinnerAssumption DEF Executes
  <2> QED BY <2>2, <2>3 DEF Code, Piece
<1>3. Output = {space[kcbs[k].root][p] : p \in (DOMAIN Dumped(k).map \cap Heap) \ {run.args}}
  BY <1>1 DEF Output
<1>4. \A p \in Heap \cap Has(k) : space[kcbs[k].root][p] \in Frames(kcbs[k].root)
  BY OwnPages, Constants
<1> QED BY <1>1, <1>2, <1>3, <1>4

LEMMA RunEndsRuns ==
  ASSUME IInv, RunsInv, RunEnds
  PROVE  RunsInv'
<1>1. /\ run # NoRun /\ run' = NoRun /\ asked' = asked /\ asked = NoRun
      /\ mem' = [f \in Frame |-> IF f \in Output THEN Piece("result", Executes) ELSE mem[f]]
  BY DEF RunEnds, DR!End, RunsInv
<1>2. /\ Owned' = Owned /\ InUse' = InUse /\ kcbs' = kcbs /\ space' = space /\ pc' = pc
      /\ job' = job /\ mine' = mine /\ due' = due /\ over' = over /\ early' = early
  BY DeviceOwners DEF RunEnds
<1> SUFFICES ASSUME ~early PROVE MemoryInv'
  BY <1>1, <1>2 DEF RunsInv
<1>3. MemoryInv /\ due \in [Kids -> Due]
  BY DEF RunsInv
<1>4. PICK k \in Owned : kcbs[k].root = run.root
  BY <1>1, <1>3 DEF MemoryInv, HasKernel
<1>5. SoundRun(run, k) /\ MemoryOK(k) /\ KernelRuns(k)
  BY <1>3, <1>4 DEF MemoryInv, MemoryOK, KernelRuns
<1>6. /\ Executes = kcbs[k].binary
      /\ Output = {space[kcbs[k].root][p] : p \in (DOMAIN Dumped(k).map \cap Heap) \ {run.args}}
      /\ Output \subseteq Frames(kcbs[k].root)
  BY <1>4, <1>5, OutputIs
<1>7. \A i \in Owned : kcbs[i].root # 0 /\ kcbs[i].root # NoRun.root
  BY OwnPages, Constants DEF NoRun
<1>8. ASSUME NEW i \in Owned, i # k PROVE KernelSame(i)
  <2>1. /\ kcbs[i].root \in VS!Live /\ kcbs[k].root \in VS!Live /\ kcbs[i].root # kcbs[k].root
    BY <1>4, <1>8, OwnPages DEF IInv, OwnersInv, OneRoot
  <2>2. Frames(kcbs[k].root) \cap Frames(kcbs[i].root) = {}
    BY <2>1, FramesApart DEF IInv
  <2>3. Frames(kcbs[i].root) \subseteq Frame
    BY <1>8, OwnPages DEF Frames, Has
  <2>4. \A f \in Frames(kcbs[i].root) : mem'[f] = mem[f]
    BY <1>1, <1>6, <2>2, <2>3
  <2> QED BY <1>1, <1>2, <1>4, <1>7, <1>8, <2>1, <2>4 DEF KernelSame
<1>9. Has(k)' = Has(k) /\ Result(k)' = Result(k) /\ Passed(k)' = Passed(k)
  BY <1>2 DEF Has, Result, Passed
<1>10. \A i \in Owned : ~KernelRuns(i)'
  BY <1>1, <1>2, <1>7 DEF KernelRuns
<1>11. Landed(k)'
  <2> SUFFICES ASSUME NEW p \in due[k].leave PROVE p \in Has(k) /\ At(k, p)' = Result(k)
    BY <1>2, <1>9 DEF Landed
  <2>1. /\ p \in (DOMAIN Dumped(k).map \cap Heap) \ {run.args} /\ p \in Has(k)
    BY <1>5 DEF SoundRun
  <2>2. space[kcbs[k].root][p] \in Output /\ space[kcbs[k].root][p] \in Frame
    BY <1>6, <2>1, OwnPages, Constants
  <2> QED BY <1>1, <1>2, <1>6, <2>1, <2>2 DEF At, Result
<1>12. MemoryOK(k)'
  BY <1>1, <1>2, <1>5, <1>7, <1>9, <1>10, <1>11 DEF MemoryOK, KernelRuns
<1>13. ASSUME NEW i \in Owned' PROVE MemoryOK(i)'
  BY <1>2, <1>3, <1>8, <1>12, MemoryKept DEF MemoryInv
<1>14. ASSUME NEW u \in Thread PROVE StartOK(u)'
  <2>1. StartOK(u) /\ pc'[u] = pc[u] /\ job'[u] = job[u]
    BY <1>2, <1>3 DEF MemoryInv
  <2>2. pc[u] \in Uses => job[u].kid \in Owned
    BY OnTyped DEF IInv, OwnersInv, CallOK
  <2>3. CASE pc[u] \notin Uses \/ job[u].kid # k
    BY <1>8, <2>1, <2>2, <2>3, StartKept
  <2>4. CASE pc[u] \in Uses /\ job[u].kid = k
    <3>1. pc[u] \notin {"binary", "pages", "start"}
      BY <1>5, <2>1, <2>4 DEF StartOK
    <3>2. ~KernelRuns(k)'
      BY <1>10
    <3> QED BY <1>2, <1>9, <2>1, <2>4, <3>1, <3>2 DEF StartOK, Has, KernelRuns
  <2> QED BY <2>3, <2>4
<1>15. ASSUME NEW u \in Thread, NEW i \in mine'[u] PROVE ArgsOK(u, i)'
  <2>1. i \in mine[u] /\ i \in Owned /\ ArgsOK(u, i) /\ (Passes(u, i)' <=> Passes(u, i))
    BY <1>2, <1>3, <1>15, OnTyped DEF MemoryInv, Passes
  <2>2. CASE i # k
    BY <1>3, <1>8, <2>1, <2>2, ArgsKept DEF MemoryInv
  <2>3. CASE i = k
    <3> SUFFICES ASSUME kcbs[k].args # 0, ~Passes(u, k) PROVE At(k, kcbs[k].args)' \in Passed(k)
      BY <1>2, <1>9, <2>1, <2>3 DEF ArgsOK
    <3>1. PICK a : a = kcbs[k].args
      OBVIOUS
    <3>2. a \in Heap /\ a \in Has(k) /\ At(k, a) \in Passed(k)
      BY <1>5, <2>1, <2>3, <3>1, OwnedIn DEF MemoryOK, ArgsOK, Kernel, At
    <3>3. a \in DOMAIN Dumped(k).map => a = run.args
      BY <1>5, <3>1 DEF SoundRun
    <3>4. /\ space[kcbs[k].root][a] \in Frame
          /\ \A p \in Has(k) : p # a => space[kcbs[k].root][a] # space[kcbs[k].root][p]
      BY <3>2, OwnPages, Constants
    <3>5. DOMAIN Dumped(k).map \subseteq Has(k)
      BY <1>5 DEF SoundRun
    <3>6. space[kcbs[k].root][a] \notin Output
      BY <1>6, <3>3, <3>4, <3>5
    <3> QED BY <1>1, <1>2, <3>1, <3>2, <3>4, <3>6 DEF At
  <2> QED BY <2>2, <2>3
<1>16. \A i \in Kids \ InUse' : due'[i] = Nothing /\ i \notin over'
  BY <1>2, <1>3 DEF MemoryInv
<1>17. HasKernel(asked)' /\ HasKernel(run)'
  BY <1>1 DEF HasKernel
<1> QED BY <1>13, <1>14, <1>15, <1>16, <1>17 DEF MemoryInv

----------------------------------------------------------------------------
(* The second half is inductive as well.                                   *)

LEMMA InitRuns == Init => RunsInv
<1> SUFFICES ASSUME Init PROVE RunsInv
  OBVIOUS
<1>1. asked = NoRun /\ run = NoRun /\ due = [k \in Kids |-> Nothing] /\ over = {}
  BY DEF Init, DR!Init
<1>2. \A t \in Thread : Owns(t) = {} /\ mine[t] = {} /\ pc[t] = "idle"
  BY DEF Init, Owns
<1>3. Owned = {}
  BY <1>2 DEF Owned
<1>4. \A t \in Thread : StartOK(t)
  BY <1>2 DEF StartOK
<1>5. HasKernel(asked) /\ HasKernel(run)
  BY <1>1 DEF HasKernel
<1>6. MemoryInv
  BY <1>1, <1>2, <1>3, <1>4, <1>5 DEF MemoryInv
<1>7. due \in [Kids -> Due]
  BY <1>1 DEF Nothing, Due
<1> QED BY <1>1, <1>6, <1>7 DEF RunsInv

LEMMA NextRuns ==
  ASSUME IInv, RunsInv, [Next]_vars, ~twice'
  PROVE  RunsInv'
<1>1. CASE UNCHANGED vars
  <2>1. UNCHANGED Others /\ mem' = mem /\ asked' = asked /\ run' = run
    BY <1>1 DEF vars, Others, accel
  <2>2. /\ Owned' = Owned /\ InUse' = InUse /\ kcbs' = kcbs /\ space' = space /\ pc' = pc
        /\ job' = job /\ mine' = mine /\ due' = due /\ over' = over /\ early' = early
    BY <2>1, DeviceOwners
  <2>3. ASSUME MemoryInv PROVE MemoryInv'
    <3>1. \A k \in Owned : KernelSame(k)
      BY <2>1, <2>2 DEF KernelSame
    <3>2. \A k \in Owned' : MemoryOK(k)'
      BY <2>2, <2>3, <3>1, MemoryKept DEF MemoryInv, RunsInv
    <3>3. ASSUME NEW t \in Thread PROVE StartOK(t)'
      <4>1. pc[t] \in Uses => job[t].kid \in Owned
        BY OnTyped DEF IInv, OwnersInv, CallOK
      <4> QED BY <2>2, <2>3, <3>1, <4>1, StartKept DEF MemoryInv
    <3>4. ASSUME NEW t \in Thread, NEW k \in mine'[t] PROVE ArgsOK(t, k)'
      <4>1. k \in mine[t] /\ k \in Owned /\ (Passes(t, k) => Passes(t, k)')
        BY <2>2, <3>4, OnTyped DEF Passes
      <4> QED BY <2>3, <3>1, <4>1, ArgsKept DEF MemoryInv
    <3>5. HasKernel(asked)' /\ HasKernel(run)'
      BY <2>1, <2>2, <2>3 DEF MemoryInv, HasKernel
    <3>6. \A k \in Kids \ InUse' : due'[k] = Nothing /\ k \notin over'
      BY <2>2, <2>3 DEF MemoryInv
    <3> QED BY <3>2, <3>3, <3>4, <3>5, <3>6 DEF MemoryInv
  <2> QED BY <2>1, <2>2, <2>3 DEF RunsInv
<1>2. CASE RunBegins \/ RunEnds
  BY <1>2, RunBeginsRuns, RunEndsRuns
<1>3. ASSUME NEW t \in Thread, NewCall(t) PROVE RunsInv'
  BY <1>3, AllocateKernelRuns, UseCallsRuns, FreeKernelRuns DEF NewCall
<1>4. ASSUME NEW t \in Thread, Step(t) PROVE RunsInv'
  BY <1>4, UnownedSteps, ReadVxbinRuns, MapHeapRuns, UseQuiets, CopyPageRuns, MapPageRuns,
     UploadVxbinRuns, UploadPageTableRuns, StartRuns, WaitReadyRuns, FreePageTableRuns DEF Step
<1> QED BY <1>1, <1>2, <1>3, <1>4 DEF Next

(***************************************************************************)
(* The whole inductive invariant: whatever calls are made, in any order,   *)
(* by however many threads, the device memory holds of each kernel what    *)
(* its calls put there, as long as no kernel is freed before its run is    *)
(* over and no two loads at once are given one slot.                       *)
(***************************************************************************)
THEOREM RunsInvariance == Spec => [](~twice => IInv /\ RunsInv)
<1>1. Init => (~twice => IInv /\ RunsInv)
  BY InitInv, InitRuns
<1>2. (~twice => IInv /\ RunsInv) /\ [Next]_vars => (~twice => IInv /\ RunsInv)'
  BY NextInv, NextRuns, TwiceStays
<1> QED BY <1>1, <1>2, PTL DEF Spec

(***************************************************************************)
(* What the device runs is the kernel that was started (see                *)
(* RunSeesItsKernel): its page table, its code and its arguments.          *)
(***************************************************************************)
THEOREM RunsAreSound == Spec => []RunSeesItsKernel
<1>1. ASSUME ~twice => IInv /\ RunsInv PROVE RunSeesItsKernel
  <2> SUFFICES ASSUME ~early, ~twice, run # NoRun PROVE RunSeesItsKernel
    BY DEF RunSeesItsKernel
  <2>1. MemoryInv
    BY <1>1 DEF RunsInv
  <2>2. PICK k \in Owned : kcbs[k].root = run.root
    BY <2>1 DEF MemoryInv, HasKernel
  <2>3. k \in Kids /\ kcbs[k].value
    BY <1>1, <2>2, OwnedIn DEF IInv, OwnersInv, KernelOK
  <2>4. SoundRun(run, k)
    BY <2>1, <2>2 DEF MemoryInv, MemoryOK
  <2>5. Sees = Dumped(k).map
    BY <2>2, <2>4 DEF SoundRun, Sees, Dumped
  <2>6. /\ Segment \subseteq DOMAIN Sees /\ due[k].see \subseteq DOMAIN Sees
        /\ \A p \in DOMAIN Sees : Sees[p] = space[kcbs[k].root][p]
        /\ run.args # 0 => run.args \in DOMAIN Sees
    BY <2>4, <2>5, Constants DEF SoundRun
  <2>7. \A p \in Segment : mem[Sees[p]] = Piece("code", kcbs[k].binary)
    BY <2>4, <2>6 DEF SoundRun, At, Code
  <2>8. run.args # 0 => mem[Sees[run.args]] \in {Piece("args", kcbs[k].binary),
                                                 Piece("data", kcbs[k].binary)}
    BY <2>4, <2>6 DEF SoundRun, At, Passed
  <2> QED BY <2>2, <2>3, <2>6, <2>7, <2>8 DEF RunSeesItsKernel
<1> QED BY <1>1, RunsInvariance, PTL

(***************************************************************************)
(* What a kernel computed stays until its client overwrites it (see        *)
(* ResultsInPlace), whatever is loaded, uploaded and run meanwhile.        *)
(***************************************************************************)
THEOREM ResultsStay == Spec => []ResultsInPlace
<1>1. ASSUME ~twice => IInv /\ RunsInv PROVE ResultsInPlace
  <2> SUFFICES ASSUME ~early, ~twice, NEW k \in over \cap Held, NEW p \in due[k].leave
               PROVE  mem[space[kcbs[k].root][p]] = Piece("result", kcbs[k].binary)
    BY DEF ResultsInPlace
  <2>1. k \in Owned
    BY <1>1, OnTyped DEF Held
  <2>2. MemoryOK(k)
    BY <1>1, <2>1 DEF RunsInv, MemoryInv
  <2> QED BY <2>2 DEF MemoryOK, Landed, At, Result
<1> QED BY <1>1, RunsInvariance, PTL

============================================================================
