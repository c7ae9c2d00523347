------------------------- MODULE HeapManagerProofs -------------------------
(***************************************************************************)
(* HeapManager!IInv is an invariant of HeapManager for any page size, any  *)
(* sizes asked for and whatever else is mapped, and what follows from it.  *)
(***************************************************************************)
EXTENDS HeapManager, TLAPS

(***************************************************************************)
(* The pages a growth maps hold the request, and no more than they have to.*)
(***************************************************************************)
LEMMA PagesHold ==
  ASSUME NEW n \in Nat
  PROVE  /\ PagesNeeded(n) \in Nat /\ n <= PagesNeeded(n) * PageSize
         /\ n = 0 => PagesNeeded(n) = 0
<1>1. PageSize \in Nat /\ PageSize > 0
  BY HeapAssumption
<1> DEFINE m == n + PageSize - 1
<1>2. m \in Nat /\ m = PageSize * (m \div PageSize) + (m % PageSize)
      /\ m % PageSize \in 0 .. PageSize - 1 /\ m \div PageSize \in Int
  BY <1>1, SMT
<1>3. m \div PageSize >= 0
  BY <1>1, <1>2, SMT
<1>4. n <= PageSize * (m \div PageSize)
  BY <1>1, <1>2, SMT
<1>5. n = 0 => m \div PageSize = 0
  BY <1>1, <1>2, <1>3, SMT
<1> QED BY <1>1, <1>2, <1>3, <1>4, <1>5, SMT DEF PagesNeeded

\* An address that is a multiple of the page size begins a page.
LEMMA PageStarts ==
  ASSUME NEW k \in Int
  PROVE  (k * PageSize) \div PageSize = k
BY HeapAssumption, SMT

LEMMA Times ==
  ASSUME NEW k \in Int, NEW j \in Int
  PROVE  /\ (k + j) * PageSize = k * PageSize + j * PageSize
         /\ k * PageSize \in Int
         /\ k * PageSize < j * PageSize <=> k < j
         /\ k * PageSize <= j * PageSize <=> k <= j
BY HeapAssumption, SMT

LEMMA InitInv == Init => IInv
<1> SUFFICES ASSUME Init PROVE IInv
  OBVIOUS
<1>1. BasePage \in Nat /\ LastPage \in Nat /\ BasePage <= LastPage /\ PageSize \in Nat
  BY HeapAssumption
<1>2. Base \in Nat /\ Limit = Base
  BY <1>1, SMT DEF Init, Base, Limit
<1>3. Top = BasePage
  BY <1>1, <1>2, PageStarts DEF Top, Base
<1>4. TypeOK
  <2>1. next \in Base .. Limit
    BY <1>2, SMT DEF Init
  <2> QED BY <2>1 DEF Init, TypeOK
<1>5. Aligned
  BY <1>1, <1>2, <1>3, SMT DEF Aligned, Base
<1>6. HeapMapped /\ InBound /\ BuffersBelow /\ BuffersApart /\ RetryFits
  BY <1>1, <1>3, SMT DEF Init, HeapMapped, InBound, BuffersBelow, BuffersApart, RetryFits
<1> QED BY <1>4, <1>5, <1>6 DEF IInv

\* A step that leaves the heap as it is keeps what the invariant says of it.
LEMMA AllocateInv ==
  ASSUME IInv, NEW n \in Sizes, Allocate(n)
  PROVE  IInv'
<1>1. /\ pc = "idle" /\ pc' = "try" /\ size' = n /\ retried' = FALSE /\ n \in Nat
      /\ UNCHANGED <<capacity, next, heap, other, grown, buffers>>
      /\ Limit + PagesNeeded(n) * PageSize <= (LastPage + 1) * PageSize
  BY HeapAssumption DEF Allocate
<1>2. Limit' = Limit /\ Top' = Top /\ Top \in Int /\ Limit = Top * PageSize
  BY <1>1, HeapAssumption DEF Limit, Top, IInv, Aligned
<1>3. PagesNeeded(n) \in Nat /\ LastPage \in Nat
  BY <1>1, PagesHold, HeapAssumption
<1>4. (Top + PagesNeeded(n)) * PageSize <= (LastPage + 1) * PageSize
  BY <1>1, <1>2, <1>3, Times
<1>5. Top + PagesNeeded(n) <= LastPage + 1
  <2>1. Top + PagesNeeded(n) \in Int /\ LastPage + 1 \in Int
    BY <1>2, <1>3
  <2> QED BY <1>4, <2>1, Times
<1>6. InBound'
  BY <1>1, <1>2, <1>5 DEF InBound, PagesNeeded
<1>7. TypeOK' /\ Aligned'
  BY <1>1, <1>2 DEF IInv, TypeOK, Aligned
<1>8. HeapMapped' /\ BuffersBelow' /\ BuffersApart' /\ RetryFits'
  BY <1>1, <1>2 DEF IInv, HeapMapped, BuffersBelow, BuffersApart, RetryFits
<1> QED BY <1>6, <1>7, <1>8 DEF IInv

LEMMA BumpInv ==
  ASSUME IInv, Bump
  PROVE  IInv'
<1> DEFINE b == [addr |-> next, size |-> size]
<1>1. /\ pc = "try" /\ pc' = "idle" /\ next' = next + size /\ buffers' = buffers \cup {b}
      /\ UNCHANGED <<capacity, heap, other, size, grown, retried>>
      /\ size > 0 /\ next + size <= Limit
  BY DEF Bump, Fits
<1>2. Limit' = Limit /\ Top' = Top
  BY <1>1 DEF Limit, Top
<1>3. Base \in Nat /\ Limit \in Nat /\ next \in Nat /\ size \in Nat /\ Base <= next
  BY HeapAssumption, SMT DEF IInv, TypeOK, Base, Limit
<1>4. TypeOK'
  BY <1>1, <1>2, <1>3, SMT DEF IInv, TypeOK
<1>5. Aligned' /\ HeapMapped' /\ InBound' /\ RetryFits'
  BY <1>1, <1>2 DEF IInv, Aligned, HeapMapped, InBound, RetryFits
<1>6. BuffersBelow'
  BY <1>1, <1>3, SMT DEF IInv, TypeOK, BuffersBelow
<1>7. BuffersApart'
  BY <1>1, <1>3, SMT DEF IInv, TypeOK, BuffersBelow, BuffersApart
<1> QED BY <1>4, <1>5, <1>6, <1>7 DEF IInv

LEMMA RefusedInv ==
  ASSUME IInv, Refused
  PROVE  IInv'
<1>1. /\ pc = "try" /\ pc' = "grow" /\ grown' = 0 /\ ~Fits(size)
      /\ UNCHANGED <<capacity, next, heap, other, size, retried, buffers>>
  BY DEF Refused
<1>2. Limit' = Limit /\ Top' = Top /\ Top \in Nat /\ Top <= LastPage + 1 /\ size \in Nat
  BY <1>1, HeapAssumption, SMT DEF Limit, Top, IInv, Aligned, TypeOK
<1>3. PagesNeeded(size) \in Nat /\ (size = 0 => PagesNeeded(size) = 0)
  BY <1>2, PagesHold
<1>4. PagesNeeded(size)' = PagesNeeded(size)
  BY <1>1 DEF PagesNeeded
<1>5. retried => size = 0
  BY <1>1, <1>2 DEF IInv, RetryFits
<1>6. InBound'
  BY <1>1, <1>2, <1>3, <1>4, <1>5 DEF IInv, InBound
<1>7. HeapMapped'
  BY <1>1, <1>2, <1>3, <1>4 DEF IInv, HeapMapped
<1>8. TypeOK' /\ Aligned' /\ BuffersBelow' /\ BuffersApart' /\ RetryFits'
  BY <1>1, <1>2 DEF IInv, TypeOK, Aligned, BuffersBelow, BuffersApart, RetryFits
<1> QED BY <1>6, <1>7, <1>8 DEF IInv

LEMMA MapPageInv ==
  ASSUME IInv, MapPage
  PROVE  IInv'
<1>1. /\ pc = "grow" /\ grown < PagesNeeded(size) /\ NextPage \notin heap \cup other
      /\ heap' = heap \cup {NextPage} /\ grown' = grown + 1
      /\ UNCHANGED <<capacity, next, other, pc, size, retried, buffers>>
  BY DEF MapPage
<1>2. /\ Limit' = Limit /\ Top' = Top /\ Limit = Top * PageSize
      /\ Top \in Nat /\ size \in Nat /\ grown \in Nat
  BY <1>1, HeapAssumption, SMT DEF Limit, Top, IInv, Aligned, TypeOK
<1>3. PagesNeeded(size) \in Nat /\ PagesNeeded(size)' = PagesNeeded(size)
  BY <1>1, <1>2, PagesHold DEF PagesNeeded
<1>4. NextPage = Top + grown
  <2>1. Limit + grown * PageSize = (Top + grown) * PageSize
    BY <1>2, Times
  <2> QED BY <1>2, <2>1, PageStarts DEF NextPage
<1>5. Top + PagesNeeded(size) <= LastPage + 1
  BY <1>1 DEF IInv, InBound
<1>6. TypeOK'
  BY <1>1, <1>2, <1>3, <1>4, <1>5, HeapAssumption, SMT DEF IInv, TypeOK, Pages
<1>7. HeapMapped'
  <2>1. \A i \in 0 .. grown : Top + i \in heap'
    BY <1>1, <1>2, <1>4, SMT DEF IInv, HeapMapped
  <2>2. grown + 1 <= PagesNeeded(size) /\ 0 .. (grown + 1) - 1 = 0 .. grown
    BY <1>1, <1>2, <1>3
  <2> QED BY <1>1, <1>2, <1>3, <2>1, <2>2 DEF IInv, HeapMapped
<1>8. Aligned' /\ InBound' /\ BuffersBelow' /\ BuffersApart' /\ RetryFits'
  BY <1>1, <1>2, <1>3 DEF IInv, Aligned, InBound, BuffersBelow, BuffersApart, RetryFits
<1> QED BY <1>6, <1>7, <1>8 DEF IInv

LEMMA MapThrowsInv ==
  ASSUME IInv, MapThrows
  PROVE  IInv'
<1>1. pc' = "idle" /\ UNCHANGED <<capacity, next, heap, other, size, grown, retried, buffers>>
  BY DEF MapThrows
<1>2. Limit' = Limit /\ Top' = Top
  BY <1>1 DEF Limit, Top
<1> QED BY <1>1, <1>2 DEF IInv, TypeOK, Aligned, HeapMapped, InBound, BuffersBelow, BuffersApart,
   RetryFits

LEMMA GrowInv ==
  ASSUME IInv, Grow
  PROVE  IInv'
<1> DEFINE n == PagesNeeded(size)
<1>1. /\ pc = "grow" /\ grown = n /\ capacity' = capacity + n * PageSize
      /\ pc' = "try" /\ retried' = TRUE /\ UNCHANGED <<next, heap, other, size, grown, buffers>>
  BY DEF Grow
<1>2. /\ Limit = Top * PageSize /\ Top \in Nat /\ BasePage <= Top /\ BasePage \in Nat /\ LastPage \in Nat
      /\ size \in Nat /\ grown \in Nat /\ capacity \in Nat /\ Base \in Nat
  BY HeapAssumption, SMT DEF Base, IInv, Aligned, TypeOK
<1>3. n \in Nat /\ size <= n * PageSize /\ n * PageSize \in Nat /\ PageSize \in Nat
  BY <1>2, PagesHold, HeapAssumption, SMT
<1>4. Limit' = Limit + n * PageSize
  BY <1>1, <1>2, <1>3 DEF Limit, Base
<1>5. Limit' = (Top + n) * PageSize
  BY <1>2, <1>3, <1>4, Times
<1>6. Top' = Top + n
  <2>1. ((Top + n) * PageSize) \div PageSize = Top + n
    BY <1>2, <1>3, PageStarts
  <2> QED BY <1>5, <2>1 DEF Top
<1>7. Top + n <= LastPage + 1
  BY <1>1 DEF IInv, InBound
<1>8. Limit \in Nat /\ next \in Nat /\ Base <= next /\ next <= Limit
  BY <1>2, SMT DEF IInv, TypeOK, Limit
<1>9. TypeOK'
  BY <1>1, <1>2, <1>3, <1>4, <1>8, SMT DEF IInv, TypeOK, Base
<1>10. Aligned'
  BY <1>2, <1>3, <1>5, <1>6, <1>7 DEF Aligned
<1>11. HeapMapped'
  <2>1. ASSUME NEW p \in BasePage .. (Top + n) - 1 PROVE p \in heap
    <3>1. CASE p < Top
      BY <1>2, <3>1 DEF IInv, HeapMapped
    <3>2. CASE p >= Top
      <4>1. p - Top \in 0 .. grown - 1 /\ p = Top + (p - Top)
        BY <1>1, <1>2, <1>3, <3>2
      <4> QED BY <1>1, <4>1 DEF IInv, HeapMapped
    <3> QED BY <1>2, <3>1, <3>2
  <2> QED BY <1>1, <1>6, <2>1 DEF IInv, HeapMapped
<1>12. RetryFits'
  BY <1>1, <1>2, <1>3, <1>4, <1>8 DEF RetryFits, Fits
<1>13. InBound' /\ BuffersBelow' /\ BuffersApart'
  BY <1>1 DEF IInv, InBound, BuffersBelow, BuffersApart, Base
<1> QED BY <1>9, <1>10, <1>11, <1>12, <1>13 DEF IInv

LEMMA MapOtherInv ==
  ASSUME IInv, NEW p \in Others, MapOther(p)
  PROVE  IInv'
<1>1. /\ pc = "idle" /\ p \notin heap \cup other /\ other' = other \cup {p}
      /\ UNCHANGED <<capacity, next, heap, pc, size, grown, retried, buffers>>
  BY DEF MapOther
<1>2. Limit' = Limit /\ Top' = Top
  BY <1>1 DEF Limit, Top
<1>3. TypeOK' /\ HeapMapped'
  BY <1>1, <1>2 DEF IInv, TypeOK, HeapMapped
<1> QED BY <1>1, <1>2, <1>3 DEF IInv, Aligned, InBound, BuffersBelow, BuffersApart, RetryFits

LEMMA NextInv == IInv /\ [Next]_vars => IInv'
<1> SUFFICES ASSUME IInv, [Next]_vars PROVE IInv'
  OBVIOUS
<1>1. CASE UNCHANGED vars
  <2>1. UNCHANGED <<capacity, next, heap, other, pc, size, grown, retried, buffers>>
    BY <1>1 DEF vars
  <2>2. Limit' = Limit /\ Top' = Top
    BY <2>1 DEF Limit, Top
  <2> QED BY <2>1, <2>2 DEF IInv, TypeOK, Aligned, HeapMapped, InBound, BuffersBelow, BuffersApart,
     RetryFits, Fits, PagesNeeded
<1>2. CASE Step
  BY <1>2, BumpInv, RefusedInv, MapPageInv, MapThrowsInv, GrowInv DEF Step
<1>3. ASSUME NEW n \in Sizes, Allocate(n) PROVE IInv'
  BY <1>3, AllocateInv
<1>4. ASSUME NEW p \in Others, MapOther(p) PROVE IInv'
  BY <1>4, MapOtherInv
<1> QED BY <1>1, <1>2, <1>3, <1>4 DEF Next

(***************************************************************************)
(* The inductive invariant: whatever sizes are asked for, wherever a       *)
(* growth throws and whatever start_kernel maps in between, everything     *)
(* below the capacity is mapped by the heap.                               *)
(***************************************************************************)
THEOREM HeapInvariance == Spec => []IInv
BY InitInv, NextInv, PTL DEF Spec

(***************************************************************************)
(* Types of the bump pointer, the capacity, the pages and the buffers.     *)
(***************************************************************************)
THEOREM TypeCorrect == Spec => []TypeOK
<1>1. IInv => TypeOK
  BY DEF IInv
<1> QED BY <1>1, HeapInvariance, PTL

(***************************************************************************)
(* Every page of every buffer is mapped by the heap (see BuffersBacked).   *)
(***************************************************************************)
THEOREM BuffersAreBacked == Spec => []BuffersBacked
<1>1. ASSUME IInv PROVE BuffersBacked
  <2> SUFFICES ASSUME NEW b \in buffers, NEW p \in 0 .. LastPage + 1, Overlap(p, b)
               PROVE  p \in heap \ other
    BY DEF BuffersBacked
  <2>1. /\ BasePage \in Nat /\ LastPage \in Nat /\ Base = BasePage * PageSize /\ PageSize \in Nat
        /\ Base \in Nat /\ Limit \in Nat /\ Top \in Nat /\ Limit = Top * PageSize /\ p \in Nat
    BY <1>1, HeapAssumption, SMT DEF IInv, TypeOK, Aligned, Base, Limit
  <2>2. /\ b.addr \in Nat /\ b.size \in Nat /\ Base <= b.addr /\ b.addr + b.size <= Limit
    BY <1>1, <2>1, SMT DEF IInv, TypeOK, BuffersBelow
  <2>3. p * PageSize \in Int /\ (p + 1) * PageSize \in Int
    BY <2>1, Times
  <2>4. BasePage * PageSize < (p + 1) * PageSize /\ p * PageSize < Top * PageSize
    BY <2>1, <2>2, <2>3, SMT DEF Overlap
  <2>5. BasePage < p + 1 /\ p < Top
    BY <2>1, <2>4, Times
  <2> QED BY <1>1, <2>1, <2>5 DEF IInv, HeapMapped
<1> QED BY <1>1, HeapInvariance, PTL

(***************************************************************************)
(* Two buffers never share a byte (see BuffersApart).                      *)
(***************************************************************************)
THEOREM BuffersAreApart == Spec => []BuffersApart
<1>1. IInv => BuffersApart
  BY DEF IInv
<1> QED BY <1>1, HeapInvariance, PTL

(***************************************************************************)
(* The retry of allocate fits: it never grows the heap twice for a request *)
(* of at least one byte (see RetryFits).                                   *)
(***************************************************************************)
THEOREM RetriesFit == Spec => []RetryFits
<1>1. IInv => RetryFits
  BY DEF IInv
<1> QED BY <1>1, HeapInvariance, PTL
=============================================================================
