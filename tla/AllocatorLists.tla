--------------------------- MODULE AllocatorLists ---------------------------
(***************************************************************************)
(* What the list operations of VortexMemoryAllocator compute, for lists of *)
(* any length: where a search along a list stops, what unlinking and       *)
(* inserting a block leave, and which block a lookup finds.                *)
(*                                                                         *)
(* The induction that these facts rest on is the one in LeastNat: a set of *)
(* natural numbers that has a member has a least one.                      *)
(***************************************************************************)
EXTENDS VortexMemoryAllocator, SequenceTheorems, FiniteSetTheorems, NaturalsInduction, TLAPS

----------------------------------------------------------------------------
(* Numbers.                                                                *)

LEMMA LeastNat ==
  ASSUME NEW T \in SUBSET Nat, T # {}
  PROVE  \E x \in T : \A y \in T : x <= y
<1>1. IsWellFoundedOn(OpToRel(<, Nat), Nat)
  BY NatLessThanWellFounded
<1>2. PICK x \in T : \A y \in T : ~(<<y, x>> \in OpToRel(<, Nat))
  BY <1>1, WFMin
<1>3. \A y \in T : ~(y < x)
  BY <1>2 DEF OpToRel
<1> QED BY <1>3

LEMMA MinNat ==
  ASSUME NEW T \in SUBSET Nat, T # {}
  PROVE  Min(T) \in T /\ \A y \in T : Min(T) <= y
BY LeastNat DEF Min

LEMMA MaxNat ==
  ASSUME NEW T \in SUBSET Nat, T # {}, NEW b \in Nat, \A y \in T : y <= b
  PROVE  Max(T) \in T /\ \A y \in T : Max(T) >= y
<1>1. PICK D \in SUBSET Nat : D = {d \in Nat : b - d \in T}
  OBVIOUS
<1>2. \A y \in T : b - y \in D
  BY <1>1
<1>3. PICK d \in D : \A e \in D : d <= e
  BY <1>2, LeastNat
<1>4. PICK x \in T : x = b - d
  BY <1>1
<1>5. \A y \in T : x >= y
  BY <1>2, <1>3, <1>4
<1> QED BY <1>5 DEF Max

\* The leading part of 1 .. n that lies in I
LEMMA Prefix ==
  ASSUME NEW n \in Nat, NEW I, NEW m, m = Max({k \in 0 .. n : \A i \in 1 .. k : i \in I})
  PROVE  m \in 0 .. n /\ (\A i \in 1 .. m : i \in I) /\ (m < n => m + 1 \notin I)
<1> DEFINE T == {k \in 0 .. n : \A i \in 1 .. k : i \in I}
<1>1. T \in SUBSET Nat /\ 0 \in T /\ \A y \in T : y <= n
  OBVIOUS
<1>2. m \in T /\ \A y \in T : m >= y
  BY <1>1, MaxNat
<1>3. ASSUME m < n, m + 1 \in I PROVE FALSE
  <2>1. m + 1 \in T
    BY <1>2, <1>3
  <2> QED BY <1>2, <2>1
<1> QED BY <1>2, <1>3

(***************************************************************************)
(* Sizes come in units of BlockAlign.                                      *)
(***************************************************************************)
Whole == {k * BlockAlign : k \in Nat \ {0}}

LEMMA Aligns ==
  ASSUME NEW a \in Nat \ {0}, NEW n \in Nat
  PROVE  /\ \E k \in Nat : AlignSize(n, a) = k * a /\ (n > 0 => k > 0)
         /\ AlignSize(n, a) >= n
<1>1. PICK q \in Int : q = (n + a - 1) \div a
  OBVIOUS
<1>2. PICK r \in 0 .. a - 1 : n + a - 1 = a * q + r
  BY <1>1
<1>3. q >= 0 /\ (n > 0 => q > 0)
  BY <1>2
<1>4. q * a = a * q /\ q * a >= n
  BY <1>2
<1>5. AlignSize(n, a) = q * a
  BY <1>1 DEF AlignSize
<1> QED BY <1>3, <1>4, <1>5

LEMMA WholeNat ==
  ASSUME NEW n \in Whole
  PROVE  n \in Nat /\ n >= BlockAlign /\ n > 0
BY AllocatorAssumption DEF Whole

LEMMA WholeLess ==
  ASSUME NEW m \in Whole, NEW n \in Whole, n < m
  PROVE  m - n \in Whole
<1>1. PICK j \in Nat \ {0}, k \in Nat \ {0} : m = j * BlockAlign /\ n = k * BlockAlign
  BY DEF Whole
<1>2. j > k
  BY <1>1, AllocatorAssumption
<1>3. m - n = (j - k) * BlockAlign
  BY <1>1, AllocatorAssumption
<1> QED BY <1>2, <1>3 DEF Whole

LEMMA WholeSum ==
  ASSUME NEW m \in Whole, NEW n \in Whole
  PROVE  m + n \in Whole
<1>1. PICK j \in Nat \ {0}, k \in Nat \ {0} : m = j * BlockAlign /\ n = k * BlockAlign
  BY DEF Whole
<1>2. m + n = (j + k) * BlockAlign
  BY <1>1, AllocatorAssumption
<1> QED BY <1>2 DEF Whole

\* Sizes of blocks and of pages, when something is asked for
LEMMA AlignedWhole ==
  ASSUME NEW n \in Nat \ {0}
  PROVE  AlignSize(n, BlockAlign) \in Whole /\ AlignSize(n, PageAlign) \in Whole
<1>1. PICK j \in Nat \ {0} : PageAlign = j * BlockAlign
  <2>1. PageAlign \in Nat \ {0} /\ BlockAlign \in Nat \ {0} /\ PageAlign % BlockAlign = 0
    BY AllocatorAssumption
  <2>2. PICK q \in Int : q = PageAlign \div BlockAlign
    BY <2>1
  <2>3. PageAlign = BlockAlign * q
    BY <2>1, <2>2
  <2>4. q > 0 /\ q * BlockAlign = BlockAlign * q
    BY <2>1, <2>3
  <2> QED BY <2>3, <2>4
<1>0. PageAlign \in Nat \ {0} /\ BlockAlign \in Nat \ {0} /\ n \in Nat
  BY AllocatorAssumption
<1>2. PICK k \in Nat : AlignSize(n, BlockAlign) = k * BlockAlign /\ (n > 0 => k > 0)
  BY <1>0, Aligns
<1>3. PICK l \in Nat : AlignSize(n, PageAlign) = l * PageAlign /\ (n > 0 => l > 0)
  BY <1>0, Aligns
<1>4. k \in Nat \ {0} /\ l \in Nat \ {0}
  BY <1>2, <1>3
<1>5. l * PageAlign = (l * j) * BlockAlign /\ l * j \in Nat \ {0}
  BY <1>0, <1>1, <1>4
<1> QED BY <1>2, <1>3, <1>4, <1>5 DEF Whole

----------------------------------------------------------------------------
(* Where a search along a list stops.                                      *)

LEMMA LeadingBelow ==
  ASSUME NEW S, NEW list \in Seq(S), NEW b, NEW m, m = Below(list, b)
  PROVE  /\ m \in 0 .. Len(list)
         /\ \A i \in 1 .. m : list[i].addr < b.addr
         /\ m < Len(list) => ~(list[m + 1].addr < b.addr)
<1>1. PICK I : I = {i \in 1 .. Len(list) : list[i].addr < b.addr}
  OBVIOUS
<1>2. {n \in 0 .. Len(list) : \A i \in 1 .. n : list[i].addr < b.addr}
       = {k \in 0 .. Len(list) : \A i \in 1 .. k : i \in I}
  BY <1>1
<1>3. m = Max({k \in 0 .. Len(list) : \A i \in 1 .. k : i \in I})
  BY <1>2 DEF Below, Leading
<1>4. Len(list) \in Nat
  OBVIOUS
<1>5. m \in 0 .. Len(list) /\ (\A i \in 1 .. m : i \in I) /\ (m < Len(list) => m + 1 \notin I)
  BY <1>3, <1>4, Prefix
<1> QED BY <1>1, <1>4, <1>5

LEMMA LeadingOther ==
  ASSUME NEW S, NEW list \in Seq(S), NEW b, NEW m, m = Others(list, b)
  PROVE  /\ m \in 0 .. Len(list)
         /\ \A i \in 1 .. m : list[i].addr # b.addr
         /\ m < Len(list) => list[m + 1].addr = b.addr
<1>1. PICK I : I = {i \in 1 .. Len(list) : list[i].addr # b.addr}
  OBVIOUS
<1>2. {n \in 0 .. Len(list) : \A i \in 1 .. n : list[i].addr # b.addr}
       = {k \in 0 .. Len(list) : \A i \in 1 .. k : i \in I}
  BY <1>1
<1>3. m = Max({k \in 0 .. Len(list) : \A i \in 1 .. k : i \in I})
  BY <1>2 DEF Others, Leading
<1>4. Len(list) \in Nat
  OBVIOUS
<1>5. m \in 0 .. Len(list) /\ (\A i \in 1 .. m : i \in I) /\ (m < Len(list) => m + 1 \notin I)
  BY <1>3, <1>4, Prefix
<1> QED BY <1>1, <1>4, <1>5

LEMMA LeadingLarger ==
  ASSUME NEW S, NEW list \in Seq(S), NEW b, NEW m, m = Larger(list, b)
  PROVE  /\ m \in 0 .. Len(list)
         /\ \A i \in 1 .. m : list[i].size > b.size
         /\ m < Len(list) => ~(list[m + 1].size > b.size)
<1>1. PICK I : I = {i \in 1 .. Len(list) : list[i].size > b.size}
  OBVIOUS
<1>2. {n \in 0 .. Len(list) : \A i \in 1 .. n : list[i].size > b.size}
       = {k \in 0 .. Len(list) : \A i \in 1 .. k : i \in I}
  BY <1>1
<1>3. m = Max({k \in 0 .. Len(list) : \A i \in 1 .. k : i \in I})
  BY <1>2 DEF Larger, Leading
<1>4. Len(list) \in Nat
  OBVIOUS
<1>5. m \in 0 .. Len(list) /\ (\A i \in 1 .. m : i \in I) /\ (m < Len(list) => m + 1 \notin I)
  BY <1>3, <1>4, Prefix
<1> QED BY <1>1, <1>4, <1>5

LEMMA LeadingFit ==
  ASSUME NEW S, NEW list \in Seq(S), NEW n, NEW m, m = Fitting(list, n)
  PROVE  /\ m \in 0 .. Len(list)
         /\ \A i \in 1 .. m : list[i].size >= n
         /\ m < Len(list) => ~(list[m + 1].size >= n)
<1>1. PICK I : I = {i \in 1 .. Len(list) : list[i].size >= n}
  OBVIOUS
<1>2. {h \in 0 .. Len(list) : \A i \in 1 .. h : list[i].size >= n}
       = {k \in 0 .. Len(list) : \A i \in 1 .. k : i \in I}
  BY <1>1
<1>3. m = Max({k \in 0 .. Len(list) : \A i \in 1 .. k : i \in I})
  BY <1>2 DEF Fitting, Leading
<1>4. Len(list) \in Nat
  OBVIOUS
<1>5. m \in 0 .. Len(list) /\ (\A i \in 1 .. m : i \in I) /\ (m < Len(list) => m + 1 \notin I)
  BY <1>3, <1>4, Prefix
<1> QED BY <1>1, <1>4, <1>5

----------------------------------------------------------------------------
(* Inserting and removing at a position.                                   *)

\* r is s, a sequence over S, with x at position i
Inserted(S, s, i, x, r) ==
  /\ r \in Seq(S)
  /\ Len(r) = Len(s) + 1
  /\ \A j \in 1 .. Len(s) + 1 :
       r[j] = IF j < i THEN s[j] ELSE IF j = i THEN x ELSE s[j - 1]

LEMMA InsertedAt ==
  ASSUME NEW S, NEW s \in Seq(S), NEW i \in 1 .. Len(s) + 1, NEW x \in S
  PROVE  Inserted(S, s, i, x, InsertAt(s, i, x))
<1>1. Len(s) \in Nat /\ \A j \in 1 .. Len(s) : s[j] \in S
  OBVIOUS
<1>2. PICK l : l = SubSeq(s, 1, i - 1)
  OBVIOUS
<1>3. l \in Seq(S) /\ Len(l) = i - 1 /\ \A j \in 1 .. i - 1 : l[j] = s[j]
  BY <1>1, <1>2, SubSeqProperties
<1>4. PICK r : r = SubSeq(s, i, Len(s))
  OBVIOUS
<1>5. /\ r \in Seq(S) /\ Len(r) = Len(s) - i + 1
      /\ \A j \in 1 .. Len(s) - i + 1 : r[j] = s[i + j - 1]
  BY <1>1, <1>4, SubSeqProperties
<1>6. PICK m : m = l \o <<x>>
  OBVIOUS
<1>7. m \in Seq(S) /\ Len(m) = i /\ \A j \in 1 .. i : m[j] = IF j < i THEN s[j] ELSE x
  BY <1>3, <1>6
<1>8. InsertAt(s, i, x) = m \o r
  BY <1>2, <1>4, <1>6 DEF InsertAt
<1>9. /\ m \o r \in Seq(S) /\ Len(m \o r) = Len(m) + Len(r)
      /\ \A j \in 1 .. Len(m) + Len(r) : (m \o r)[j] = IF j <= Len(m) THEN m[j] ELSE r[j - Len(m)]
  BY <1>5, <1>7, ConcatProperties
<1> QED BY <1>1, <1>5, <1>7, <1>8, <1>9 DEF Inserted

LEMMA RemovedAt ==
  ASSUME NEW S, NEW s \in Seq(S), NEW i \in 1 .. Len(s) + 1
  PROVE  /\ RemoveAt(s, i) \in Seq(S)
         /\ i = Len(s) + 1 => RemoveAt(s, i) = s
         /\ i <= Len(s) => /\ Len(RemoveAt(s, i)) = Len(s) - 1
                           /\ \A j \in 1 .. Len(s) - 1 :
                                RemoveAt(s, i)[j] = IF j < i THEN s[j] ELSE s[j + 1]
<1>1. Len(s) \in Nat /\ \A j \in 1 .. Len(s) : s[j] \in S
  OBVIOUS
<1>2. PICK l : l = SubSeq(s, 1, i - 1)
  OBVIOUS
<1>3. l \in Seq(S) /\ Len(l) = i - 1 /\ \A j \in 1 .. i - 1 : l[j] = s[j]
  BY <1>1, <1>2, SubSeqProperties
<1>4. PICK r : r = SubSeq(s, i + 1, Len(s))
  OBVIOUS
<1>5. /\ r \in Seq(S) /\ Len(r) = IF i <= Len(s) THEN Len(s) - i ELSE 0
      /\ \A j \in 1 .. Len(s) - i : r[j] = s[i + j]
  BY <1>1, <1>4, SubSeqProperties
<1>6. RemoveAt(s, i) = l \o r
  BY <1>2, <1>4 DEF RemoveAt
<1>7. /\ l \o r \in Seq(S) /\ Len(l \o r) = Len(l) + Len(r)
      /\ \A j \in 1 .. Len(l) + Len(r) : (l \o r)[j] = IF j <= Len(l) THEN l[j] ELSE r[j - Len(l)]
  BY <1>3, <1>5, ConcatProperties
<1>8. ASSUME i = Len(s) + 1 PROVE l \o r = s
  BY <1>1, <1>3, <1>5, <1>7, <1>8, SeqEqual
<1>9. ASSUME i <= Len(s)
      PROVE  /\ Len(l \o r) = Len(s) - 1
             /\ \A j \in 1 .. Len(s) - 1 : (l \o r)[j] = IF j < i THEN s[j] ELSE s[j + 1]
  <2>1. Len(l \o r) = Len(s) - 1
    BY <1>1, <1>3, <1>5, <1>7, <1>9
  <2>2. ASSUME NEW j \in 1 .. Len(s) - 1
        PROVE  (l \o r)[j] = IF j < i THEN s[j] ELSE s[j + 1]
    <3>1. j \in 1 .. Len(l) + Len(r)
      BY <1>1, <1>3, <1>5, <1>9
    <3>2. (l \o r)[j] = IF j < i THEN l[j] ELSE r[j - (i - 1)]
      BY <1>1, <1>3, <1>7, <3>1
    <3>3. CASE j < i
      BY <1>1, <1>3, <3>2, <3>3
    <3>4. CASE ~(j < i)
      <4>1. j - (i - 1) \in 1 .. Len(s) - i
        BY <1>1, <1>9, <3>4
      <4>2. i + (j - (i - 1)) = j + 1
        BY <1>1
      <4> QED BY <1>5, <3>2, <3>4, <4>1, <4>2
    <3> QED BY <3>3, <3>4
  <2> QED BY <2>1, <2>2
<1> QED BY <1>6, <1>7, <1>8, <1>9

----------------------------------------------------------------------------
(* Lists of blocks.                                                        *)

Blk == [addr : Nat, size : Whole]

\* The comments of freeMList_ and freeSList_: sorted by address, by size
SortedM(M) == \A i, j \in DOMAIN M : i < j => End(M[i]) < M[j].addr
SortedS(S) == \A i, j \in DOMAIN S : i < j => S[i].size >= S[j].size

Distinct(list) == \A i, j \in DOMAIN list : list[i].addr = list[j].addr => i = j

\* Part of a list, in the same order
Thins(r, list) ==
  \A i, j \in DOMAIN r : i < j =>
    \E k, l \in DOMAIN list : k < l /\ r[i] = list[k] /\ r[j] = list[l]

LEMMA ThinsKeeps ==
  ASSUME NEW list \in Seq(Blk), NEW r \in Seq(Blk), Thins(r, list)
  PROVE  /\ SortedM(list) => SortedM(r)
         /\ SortedS(list) => SortedS(r)
         /\ Distinct(list) => Distinct(r)
<1>1. ASSUME Distinct(list) PROVE Distinct(r)
  <2> SUFFICES ASSUME NEW i \in DOMAIN r, NEW j \in DOMAIN r, i < j PROVE r[i].addr # r[j].addr
    BY DEF Distinct
  <2> QED BY <1>1 DEF Thins, Distinct
<1> QED BY <1>1 DEF Thins, SortedM, SortedS

LEMMA DistinctM ==
  ASSUME NEW M \in Seq(Blk), SortedM(M)
  PROVE  Distinct(M)
<1>1. \A i \in DOMAIN M : M[i] \in Blk
  OBVIOUS
<1>2. \A i \in DOMAIN M : M[i].addr \in Nat /\ M[i].size \in Nat
  BY <1>1, WholeNat DEF Blk
<1> SUFFICES ASSUME NEW i \in DOMAIN M, NEW j \in DOMAIN M, i < j PROVE M[i].addr # M[j].addr
  BY DEF Distinct
<1> QED BY <1>2 DEF SortedM, End

\* Unlinking leaves the other blocks, in their order.
LEMMA WithoutList ==
  ASSUME NEW list \in Seq(Blk), Distinct(list), NEW b, NEW r, r = Without(list, b)
  PROVE  /\ r \in Seq(Blk) /\ Thins(r, list)
         /\ ToSet(r) = {c \in ToSet(list) : c.addr # b.addr}
<1>0. PICK m : m = Others(list, b)
  OBVIOUS
<1>9. /\ m \in 0 .. Len(list)
      /\ \A i \in 1 .. m : list[i].addr # b.addr
      /\ m < Len(list) => list[m + 1].addr = b.addr
  BY <1>0, LeadingOther
<1>1. /\ m \in 0 .. Len(list) /\ Len(list) \in Nat
      /\ \A i \in 1 .. m : list[i].addr # b.addr
      /\ m < Len(list) => list[m + 1].addr = b.addr
  BY <1>9
<1>2. r = RemoveAt(list, m + 1)
  BY <1>0, <1>1 DEF Without
<1>5. PICK k : k = m + 1
  OBVIOUS
<1>6. k \in Int /\ k \in 1 .. Len(list) + 1 /\ r = RemoveAt(list, k)
  BY <1>1, <1>2, <1>5
<1>7. /\ r \in Seq(Blk)
      /\ k = Len(list) + 1 => r = list
      /\ k <= Len(list) => /\ Len(r) = Len(list) - 1
                           /\ \A j \in 1 .. Len(list) - 1 :
                                r[j] = IF j < k THEN list[j] ELSE list[j + 1]
  BY <1>6, RemovedAt
<1>3. CASE m = Len(list)
  <2>1. r = list
    BY <1>1, <1>3, <1>5, <1>7
  <2>2. Thins(list, list)
    BY DEF Thins
  <2>3. \A c \in ToSet(list) : c.addr # b.addr
    <3>1. \A i \in 1 .. Len(list) : list[i].addr # b.addr
      BY <1>1, <1>3
    <3> QED BY <3>1 DEF ToSet
  <2> QED BY <2>1, <2>2, <2>3
<1>4. CASE m < Len(list)
  <2>1. /\ r \in Seq(Blk) /\ Len(r) = Len(list) - 1
        /\ \A j \in 1 .. Len(list) - 1 : r[j] = IF j < m + 1 THEN list[j] ELSE list[j + 1]
    BY <1>1, <1>4, <1>5, <1>7
  <2>6. DOMAIN r = 1 .. Len(list) - 1 /\ DOMAIN list = 1 .. Len(list)
    BY <2>1
  <2>2. Thins(r, list)
    <3> SUFFICES ASSUME NEW i \in DOMAIN r, NEW j \in DOMAIN r, i < j
                 PROVE  \E p, q \in DOMAIN list : p < q /\ r[i] = list[p] /\ r[j] = list[q]
      BY DEF Thins
    <3>1. PICK p : p = IF i < m + 1 THEN i ELSE i + 1
      OBVIOUS
    <3>2. PICK l : l = IF j < m + 1 THEN j ELSE j + 1
      OBVIOUS
    <3>3. p \in DOMAIN list /\ l \in DOMAIN list /\ p < l
      BY <1>1, <2>6, <3>1, <3>2
    <3>4. r[i] = list[p] /\ r[j] = list[l]
      BY <2>1, <2>6, <3>1, <3>2
    <3> QED BY <3>3, <3>4
  <2>3. \A i \in DOMAIN list : list[i].addr # b.addr <=> i # m + 1
    BY <1>1, <1>4 DEF Distinct
  <2>4. \A j \in DOMAIN r : \E i \in DOMAIN list : i # m + 1 /\ r[j] = list[i]
    <3> SUFFICES ASSUME NEW j \in DOMAIN r
                 PROVE  \E i \in DOMAIN list : i # m + 1 /\ r[j] = list[i]
      OBVIOUS
    <3>1. PICK i : i = IF j < m + 1 THEN j ELSE j + 1
      OBVIOUS
    <3>2. i \in DOMAIN list /\ i # m + 1 /\ r[j] = list[i]
      BY <1>1, <2>1, <2>6, <3>1
    <3> QED BY <3>2
  <2>5. \A i \in DOMAIN list : i # m + 1 => \E j \in DOMAIN r : r[j] = list[i]
    <3> SUFFICES ASSUME NEW i \in DOMAIN list, i # m + 1
                 PROVE  \E j \in DOMAIN r : r[j] = list[i]
      OBVIOUS
    <3>1. CASE i < m + 1
      BY <1>1, <1>4, <2>1, <3>1
    <3>2. CASE i > m + 1
      <4>1. i - 1 \in DOMAIN r /\ r[i - 1] = list[i]
        BY <1>1, <1>4, <2>1, <3>2
      <4> QED BY <4>1
    <3> QED BY <1>1, <3>1, <3>2
  <2> QED BY <2>1, <2>2, <2>3, <2>4, <2>5 DEF ToSet
<1> QED BY <1>1, <1>3, <1>4

LEMMA BlkNat ==
  ASSUME NEW c \in Blk
  PROVE  c.addr \in Nat /\ c.size \in Nat /\ c.size > 0 /\ End(c) \in Nat /\ End(c) = c.addr + c.size
BY WholeNat DEF Blk, End

LEMMA Elements ==
  ASSUME NEW S, NEW list \in Seq(S)
  PROVE  /\ Len(list) \in Nat /\ DOMAIN list = 1 .. Len(list)
         /\ \A i \in 1 .. Len(list) : list[i] \in S
         /\ ToSet(list) = {list[i] : i \in 1 .. Len(list)} /\ ToSet(list) \subseteq S
BY DEF ToSet

LEMMA MNats ==
  ASSUME NEW M \in Seq(Blk), NEW i \in 1 .. Len(M)
  PROVE  /\ M[i] \in Blk /\ M[i].addr \in Nat /\ M[i].size \in Nat
         /\ End(M[i]) \in Nat /\ End(M[i]) > M[i].addr
<1>1. M[i] \in Blk
  BY Elements
<1>2. PICK c \in Blk : c = M[i]
  BY <1>1
<1>3. c.addr \in Nat /\ c.size \in Nat /\ c.size > 0 /\ End(c) = c.addr + c.size
  BY BlkNat
<1> QED BY <1>2, <1>3

LEMMA InsertedSet ==
  ASSUME NEW S, NEW list \in Seq(S), NEW i \in 1 .. Len(list) + 1, NEW x \in S
  PROVE  ToSet(InsertAt(list, i, x)) = ToSet(list) \cup {x}
<1>1. PICK r : r = InsertAt(list, i, x)
  OBVIOUS
<1>2. /\ r \in Seq(S) /\ Len(r) = Len(list) + 1
      /\ \A j \in 1 .. Len(list) + 1 :
           r[j] = IF j < i THEN list[j] ELSE IF j = i THEN x ELSE list[j - 1]
  <2>1. Inserted(S, list, i, x, r)
    BY <1>1, InsertedAt
  <2> QED BY <2>1 DEF Inserted
<1>3. Len(list) \in Nat /\ DOMAIN r = 1 .. Len(list) + 1 /\ DOMAIN list = 1 .. Len(list)
  BY <1>2
<1>4. ToSet(r) \subseteq ToSet(list) \cup {x}
  <2> SUFFICES ASSUME NEW j \in 1 .. Len(list) + 1 PROVE r[j] \in ToSet(list) \cup {x}
    BY <1>3 DEF ToSet
  <2>1. j < i => j \in DOMAIN list /\ r[j] = list[j]
    BY <1>2, <1>3
  <2>2. j > i => j - 1 \in DOMAIN list /\ r[j] = list[j - 1]
    BY <1>2, <1>3
  <2>3. j = i => r[j] = x
    BY <1>2, <1>3
  <2> QED BY <1>3, <2>1, <2>2, <2>3 DEF ToSet
<1>5. x \in ToSet(r)
  BY <1>2, <1>3 DEF ToSet
<1>6. ASSUME NEW j \in 1 .. Len(list) PROVE list[j] \in ToSet(r)
  <2>1. CASE j < i
    BY <1>2, <1>3, <2>1 DEF ToSet
  <2>2. CASE ~(j < i)
    <3>1. j + 1 \in DOMAIN r /\ r[j + 1] = list[j]
      BY <1>2, <1>3, <2>2
    <3> QED BY <3>1 DEF ToSet
  <2> QED BY <2>1, <2>2
<1>7. ToSet(list) \subseteq ToSet(r)
  BY <1>3, <1>6 DEF ToSet
<1> QED BY <1>1, <1>4, <1>5, <1>7

\* In a sorted list a search splits the list in two.
LEMMA BelowM ==
  ASSUME NEW M \in Seq(Blk), SortedM(M), NEW b, b.addr \in Nat
  PROVE  /\ Below(M, b) \in 0 .. Len(M)
         /\ \A i \in 1 .. Len(M) : IF i <= Below(M, b) THEN M[i].addr < b.addr ELSE M[i].addr >= b.addr
<1>1. PICK m : m = Below(M, b)
  OBVIOUS
<1>2. /\ m \in 0 .. Len(M)
      /\ \A i \in 1 .. m : M[i].addr < b.addr
      /\ m < Len(M) => ~(M[m + 1].addr < b.addr)
  BY <1>1, LeadingBelow
<1>3. \A i \in 1 .. Len(M) : M[i].addr \in Nat /\ End(M[i]) > M[i].addr
  BY BlkNat, MNats
<1>4. ASSUME NEW i \in 1 .. Len(M), i > m PROVE M[i].addr >= b.addr
  <2>1. m + 1 \in 1 .. Len(M) /\ M[m + 1].addr >= b.addr
    BY <1>2, <1>3, <1>4
  <2>6. PICK k : k = m + 1
    OBVIOUS
  <2>7. k \in DOMAIN M /\ i \in DOMAIN M
    BY <2>1, <2>6
  <2>8. k < i => End(M[k]) < M[i].addr
    BY <2>7 DEF SortedM
  <2>2. m + 1 < i => End(M[m + 1]) < M[i].addr
    BY <2>6, <2>8
  <2>3. m + 1 = i \/ m + 1 < i
    BY <1>2, <1>4
  <2>4. M[m + 1].addr \in Nat /\ End(M[m + 1]) \in Nat /\ End(M[m + 1]) > M[m + 1].addr
    BY <2>1, BlkNat, MNats
  <2>5. M[i].addr \in Nat
    BY <1>3
  <2>9. CASE m + 1 = i
    BY <2>1, <2>9
  <2>10. CASE m + 1 < i
    <3>1. PICK x, y, z : x = M[m + 1].addr /\ y = End(M[m + 1]) /\ z = M[i].addr
      OBVIOUS
    <3>2. x \in Int /\ y \in Int /\ z \in Int /\ b.addr \in Int /\ x >= b.addr /\ x < y /\ y < z
      BY <2>1, <2>2, <2>4, <2>5, <2>10, <3>1
    <3>3. z >= b.addr
      BY <3>2
    <3> QED BY <3>1, <3>3
  <2> QED BY <2>3, <2>9, <2>10
<1> QED BY <1>1, <1>2, <1>4

LEMMA LargerS ==
  ASSUME NEW S \in Seq(Blk), SortedS(S), NEW b \in Blk
  PROVE  /\ Larger(S, b) \in 0 .. Len(S)
         /\ \A i \in 1 .. Len(S) : IF i <= Larger(S, b) THEN S[i].size > b.size ELSE S[i].size <= b.size
<1>1. PICK m : m = Larger(S, b)
  OBVIOUS
<1>2. /\ m \in 0 .. Len(S)
      /\ \A i \in 1 .. m : S[i].size > b.size
      /\ m < Len(S) => ~(S[m + 1].size > b.size)
  BY <1>1, LeadingLarger
<1>3. b.size \in Nat /\ \A i \in 1 .. Len(S) : S[i].size \in Nat
  BY BlkNat, MNats
<1>4. ASSUME NEW i \in 1 .. Len(S), i > m PROVE S[i].size <= b.size
  <2>1. m + 1 \in 1 .. Len(S) /\ S[m + 1].size <= b.size
    BY <1>2, <1>3, <1>4
  <2>6. PICK k : k = m + 1
    OBVIOUS
  <2>7. k \in DOMAIN S /\ i \in DOMAIN S
    BY <2>1, <2>6
  <2>8. k < i => S[k].size >= S[i].size
    BY <2>7 DEF SortedS
  <2>2. m + 1 < i => S[m + 1].size >= S[i].size
    BY <2>6, <2>8
  <2>3. m + 1 = i \/ m + 1 < i
    BY <1>2, <1>4
  <2> QED BY <1>3, <2>1, <2>2, <2>3
<1> QED BY <1>1, <1>2, <1>4

\* A block that touches no block of the M-list is inserted at its place.
LEMMA InsertsM ==
  ASSUME NEW M \in Seq(Blk), SortedM(M), NEW b \in Blk,
         \A c \in ToSet(M) : End(c) < b.addr \/ End(b) < c.addr
  PROVE  /\ InsertM(M, b) \in Seq(Blk) /\ SortedM(InsertM(M, b))
         /\ ToSet(InsertM(M, b)) = ToSet(M) \cup {b}
<1>1. PICK m : m = Below(M, b)
  OBVIOUS
<1>2. PICK r : r = InsertM(M, b)
  OBVIOUS
<1>13. b.addr \in Nat /\ Len(M) \in Nat
  BY BlkNat
<1>3. /\ m \in 0 .. Len(M) /\ Len(M) \in Nat
      /\ \A i \in 1 .. Len(M) : IF i <= m THEN M[i].addr < b.addr ELSE M[i].addr >= b.addr
  BY <1>1, <1>13, BelowM
<1>4. r = InsertAt(M, m + 1, b) /\ m + 1 \in 1 .. Len(M) + 1
  BY <1>1, <1>2, <1>3 DEF InsertM
<1>10. PICK k : k = m + 1
  OBVIOUS
<1>11. k \in 1 .. Len(M) + 1 /\ r = InsertAt(M, k, b)
  BY <1>4, <1>10
<1>12. /\ r \in Seq(Blk) /\ Len(r) = Len(M) + 1
       /\ \A j \in 1 .. Len(M) + 1 :
            r[j] = IF j < k THEN M[j] ELSE IF j = k THEN b ELSE M[j - 1]
  <2>1. Inserted(Blk, M, k, b, r)
    BY <1>11, InsertedAt
  <2> QED BY <2>1 DEF Inserted
<1>5. /\ r \in Seq(Blk) /\ Len(r) = Len(M) + 1
      /\ \A j \in 1 .. Len(M) + 1 :
           r[j] = IF j < m + 1 THEN M[j] ELSE IF j = m + 1 THEN b ELSE M[j - 1]
  BY <1>10, <1>12
<1>6. ToSet(r) = ToSet(M) \cup {b}
  BY <1>11, InsertedSet
<1>7. /\ \A i \in 1 .. Len(M) : M[i].addr \in Nat /\ End(M[i]) \in Nat /\ End(M[i]) > M[i].addr
      /\ b.addr \in Nat /\ End(b) \in Nat /\ End(b) > b.addr
  BY BlkNat, MNats
<1>8. ASSUME NEW i \in 1 .. Len(M)
      PROVE  IF i <= m THEN End(M[i]) < b.addr ELSE End(b) < M[i].addr
  <2>1. End(M[i]) < b.addr \/ End(b) < M[i].addr
    BY Elements
  <2>2. /\ M[i].addr \in Nat /\ End(M[i]) \in Nat /\ End(M[i]) > M[i].addr
        /\ b.addr \in Nat /\ End(b) \in Nat /\ End(b) > b.addr
    BY <1>7
  <2>3. IF i <= m THEN M[i].addr < b.addr ELSE M[i].addr >= b.addr
    BY <1>3
  <2> QED BY <2>1, <2>2, <2>3
<1>9. SortedM(r)
  <2> SUFFICES ASSUME NEW i \in 1 .. Len(M) + 1, NEW j \in 1 .. Len(M) + 1, i < j
               PROVE  End(r[i]) < r[j].addr
    BY <1>5 DEF SortedM
  <2>1. CASE i <= m /\ j <= m
    <3>1. i \in DOMAIN M /\ j \in DOMAIN M /\ r[i] = M[i] /\ r[j] = M[j]
      BY <1>3, <1>5, <2>1
    <3> QED BY <3>1 DEF SortedM
  <2>2. CASE i <= m /\ j = m + 1
    <3>1. i \in 1 .. Len(M) /\ r[i] = M[i] /\ r[j] = b
      BY <1>3, <1>5, <2>2
    <3> QED BY <1>8, <2>2, <3>1
  <2>3. CASE i <= m /\ j > m + 1
    <3>1. i \in DOMAIN M /\ j - 1 \in DOMAIN M /\ i < j - 1 /\ r[i] = M[i] /\ r[j] = M[j - 1]
      BY <1>3, <1>5, <2>3
    <3> QED BY <3>1 DEF SortedM
  <2>4. CASE i = m + 1
    <3>1. j - 1 \in 1 .. Len(M) /\ ~(j - 1 <= m) /\ r[i] = b /\ r[j] = M[j - 1]
      BY <1>3, <1>5, <2>4
    <3> QED BY <1>8, <3>1
  <2>5. CASE i > m + 1
    <3>1. i - 1 \in DOMAIN M /\ j - 1 \in DOMAIN M /\ i - 1 < j - 1 /\ r[i] = M[i - 1] /\ r[j] = M[j - 1]
      BY <1>3, <1>5, <2>5
    <3> QED BY <3>1 DEF SortedM
  <2> QED BY <1>3, <2>1, <2>2, <2>3, <2>4, <2>5
<1> QED BY <1>2, <1>5, <1>6, <1>9

\* So is a block of another address in the S-list.
LEMMA InsertsS ==
  ASSUME NEW S \in Seq(Blk), SortedS(S), Distinct(S), NEW b \in Blk,
         \A c \in ToSet(S) : c.addr # b.addr
  PROVE  /\ InsertS(S, b) \in Seq(Blk) /\ SortedS(InsertS(S, b)) /\ Distinct(InsertS(S, b))
         /\ ToSet(InsertS(S, b)) = ToSet(S) \cup {b}
<1>1. PICK m : m = Larger(S, b)
  OBVIOUS
<1>2. PICK r : r = InsertS(S, b)
  OBVIOUS
<1>3. /\ m \in 0 .. Len(S) /\ Len(S) \in Nat
      /\ \A i \in 1 .. Len(S) : IF i <= m THEN S[i].size > b.size ELSE S[i].size <= b.size
  BY <1>1, LargerS
<1>4. r = InsertAt(S, m + 1, b) /\ m + 1 \in 1 .. Len(S) + 1
  BY <1>1, <1>2, <1>3 DEF InsertS
<1>10. PICK k : k = m + 1
  OBVIOUS
<1>11. k \in 1 .. Len(S) + 1 /\ r = InsertAt(S, k, b)
  BY <1>4, <1>10
<1>12. /\ r \in Seq(Blk) /\ Len(r) = Len(S) + 1
       /\ \A j \in 1 .. Len(S) + 1 :
            r[j] = IF j < k THEN S[j] ELSE IF j = k THEN b ELSE S[j - 1]
  <2>1. Inserted(Blk, S, k, b, r)
    BY <1>11, InsertedAt
  <2> QED BY <2>1 DEF Inserted
<1>5. /\ r \in Seq(Blk) /\ Len(r) = Len(S) + 1
      /\ \A j \in 1 .. Len(S) + 1 :
           r[j] = IF j < m + 1 THEN S[j] ELSE IF j = m + 1 THEN b ELSE S[j - 1]
  BY <1>10, <1>12
<1>6. ToSet(r) = ToSet(S) \cup {b}
  BY <1>11, InsertedSet
<1>7. b.size \in Nat /\ \A i \in 1 .. Len(S) : S[i].size \in Nat /\ S[i].addr # b.addr
  <2>1. b.size \in Nat
    BY BlkNat
  <2>2. ASSUME NEW i \in 1 .. Len(S) PROVE S[i].size \in Nat /\ S[i].addr # b.addr
    <3>1. S[i].size \in Nat
      BY MNats
    <3>2. S[i] \in ToSet(S)
      BY Elements
    <3> QED BY <3>1, <3>2
  <2> QED BY <2>1, <2>2
<1>8. ASSUME NEW i \in 1 .. Len(S) + 1, NEW j \in 1 .. Len(S) + 1, i < j
      PROVE  r[i].size >= r[j].size /\ r[i].addr # r[j].addr
  <2>1. CASE i <= m /\ j <= m
    <3>1. i \in DOMAIN S /\ j \in DOMAIN S /\ r[i] = S[i] /\ r[j] = S[j]
      BY <1>3, <1>5, <1>8, <2>1
    <3> QED BY <1>8, <3>1 DEF SortedS, Distinct
  <2>2. CASE i <= m /\ j = m + 1
    <3>1. i \in 1 .. Len(S) /\ r[i] = S[i] /\ r[j] = b
      BY <1>3, <1>5, <1>8, <2>2
    <3> QED BY <1>3, <1>7, <2>2, <3>1
  <2>3. CASE i <= m /\ j > m + 1
    <3>1. i \in DOMAIN S /\ j - 1 \in DOMAIN S /\ i < j - 1 /\ r[i] = S[i] /\ r[j] = S[j - 1]
      BY <1>3, <1>5, <2>3
    <3> QED BY <3>1 DEF SortedS, Distinct
  <2>4. CASE i = m + 1
    <3>1. j - 1 \in 1 .. Len(S) /\ ~(j - 1 <= m) /\ r[i] = b /\ r[j] = S[j - 1]
      BY <1>3, <1>5, <1>8, <2>4
    <3> QED BY <1>3, <1>7, <3>1
  <2>5. CASE i > m + 1
    <3>1. i - 1 \in DOMAIN S /\ j - 1 \in DOMAIN S /\ i - 1 < j - 1 /\ r[i] = S[i - 1] /\ r[j] = S[j - 1]
      BY <1>3, <1>5, <1>8, <2>5
    <3> QED BY <3>1 DEF SortedS, Distinct
  <2> QED BY <1>3, <2>1, <2>2, <2>3, <2>4, <2>5
<1>9. SortedS(r)
  BY <1>5, <1>8 DEF SortedS
<1>13. Distinct(r)
  <2> SUFFICES ASSUME NEW i \in DOMAIN r, NEW j \in DOMAIN r, i # j PROVE r[i].addr # r[j].addr
    BY DEF Distinct
  <2>1. i \in 1 .. Len(S) + 1 /\ j \in 1 .. Len(S) + 1 /\ (i < j \/ j < i)
    BY <1>3, <1>5
  <2> QED BY <1>8, <2>1
<1> QED BY <1>2, <1>5, <1>6, <1>9, <1>13

(***************************************************************************)
(* findFreeBlock finds the smallest block that is large enough, and finds  *)
(* none only if there is none.                                             *)
(***************************************************************************)
LEMMA FindsBest ==
  ASSUME NEW p, p.freeS \in Seq(Blk), SortedS(p.freeS), NEW n \in Nat
  PROVE  LET b == FindFreeBlock(p, n) IN
         \/ b = NoBlock /\ \A c \in ToSet(p.freeS) : c.size < n
         \/ /\ b \in ToSet(p.freeS) /\ b \in Blk /\ b # NoBlock /\ b.size >= n
            /\ \A c \in ToSet(p.freeS) : c.size >= n => b.size <= c.size
<1>1. PICK S \in Seq(Blk) : S = p.freeS
  OBVIOUS
<1>2. PICK m : m = Fitting(S, n)
  OBVIOUS
<1>3. PICK b : b = FindFreeBlock(p, n)
  OBVIOUS
<1>4. b = IF m = 0 THEN NoBlock ELSE S[m]
  BY <1>1, <1>2, <1>3 DEF FindFreeBlock
<1>5. /\ m \in 0 .. Len(S)
      /\ \A i \in 1 .. m : S[i].size >= n
      /\ m < Len(S) => ~(S[m + 1].size >= n)
  BY <1>2, LeadingFit
<1>6. Len(S) \in Nat /\ \A i \in 1 .. Len(S) : S[i] \in Blk /\ S[i].size \in Nat /\ S[i].addr \in Nat
  BY BlkNat, MNats
<1>7. \A i \in 1 .. Len(S), j \in 1 .. Len(S) : i < j => S[i].size >= S[j].size
  BY <1>1, <1>6 DEF SortedS
<1>8. ASSUME NEW i \in 1 .. Len(S), i > m PROVE S[i].size < n
  <2>1. m + 1 \in 1 .. Len(S) /\ S[m + 1].size < n
    BY <1>5, <1>6, <1>8
  <2>2. m + 1 = i \/ m + 1 < i
    BY <1>5, <1>8
  <2> QED BY <1>6, <1>7, <2>1, <2>2
<1>9. CASE m = 0
  <2>1. \A c \in ToSet(S) : c.size < n
    BY <1>8, <1>9, Elements
  <2> QED BY <1>1, <1>3, <1>4, <1>9, <2>1
<1>10. CASE m > 0
  <2>1. m \in 1 .. Len(S) /\ b = S[m]
    BY <1>4, <1>5, <1>10
  <2>2. b \in ToSet(S) /\ b \in Blk /\ b # NoBlock /\ b.size >= n
    <3>1. b \in Blk /\ b.addr \in Nat /\ b.size >= n
      BY <1>5, <1>6, <2>1
    <3>2. NoBlock.addr = -1
      BY DEF NoBlock, None
    <3> QED BY <2>1, <3>1, <3>2, Elements
  <2>3. ASSUME NEW i \in 1 .. Len(S), S[i].size >= n PROVE b.size <= S[i].size
    <3>1. i <= m
      BY <1>5, <1>6, <1>8, <2>3
    <3>2. i = m \/ i < m
      BY <1>5, <3>1
    <3> QED BY <1>6, <1>7, <2>1, <3>2
  <2>4. \A c \in ToSet(S) : c.size >= n => b.size <= c.size
    BY <2>3, Elements
  <2> QED BY <1>1, <1>3, <2>2, <2>4
<1> QED BY <1>5, <1>9, <1>10

(***************************************************************************)
(* The neighbours that a released block merges with: the free blocks that  *)
(* touch it, of which there is at most one on each side.                   *)
(***************************************************************************)
LEMMA FreeApart ==
  ASSUME NEW M \in Seq(Blk), SortedM(M), NEW b \in ToSet(M), NEW c \in ToSet(M), b # c
  PROVE  End(b) < c.addr \/ End(c) < b.addr
<1>1. PICK i \in 1 .. Len(M), j \in 1 .. Len(M) : b = M[i] /\ c = M[j]
  BY Elements
<1>2. Len(M) \in Nat /\ (i < j \/ j < i)
  BY <1>1, Elements
<1> QED BY <1>1, <1>2 DEF SortedM

LEMMA LeftFound ==
  ASSUME NEW M \in Seq(Blk), SortedM(M), NEW b \in Blk,
         NEW l, l = LeftOf(M, b)
  PROVE  \/ l = NoBlock /\ \A c \in ToSet(M) : End(c) # b.addr
         \/ l \in ToSet(M) /\ End(l) = b.addr
<1>1. PICK m : m = Below(M, b)
  OBVIOUS
<1>8. b.addr \in Nat
  BY BlkNat
<1>9. Len(M) \in Nat
  OBVIOUS
<1>2. /\ m \in 0 .. Len(M) /\ Len(M) \in Nat
      /\ \A i \in 1 .. Len(M) : IF i <= m THEN M[i].addr < b.addr ELSE M[i].addr >= b.addr
  BY <1>1, <1>8, <1>9, BelowM
<1>3. l = IF m > 0 /\ End(M[m]) = b.addr THEN M[m] ELSE NoBlock
  BY <1>1 DEF LeftOf
<1>4. b.addr \in Nat /\ \A i \in 1 .. Len(M) : M[i].addr \in Nat /\ End(M[i]) \in Nat /\ End(M[i]) > M[i].addr
  BY BlkNat, MNats
<1>5. ASSUME NEW i \in 1 .. Len(M), End(M[i]) = b.addr PROVE i = m
  <2>1. i <= m
    BY <1>2, <1>4, <1>5
  <2>2. ASSUME i < m PROVE FALSE
    <3>1. m \in DOMAIN M /\ i \in DOMAIN M /\ End(M[i]) < M[m].addr
      BY <1>2, <2>2 DEF SortedM
    <3>2. M[m].addr < b.addr /\ M[m].addr \in Nat
      BY <1>2, <1>4, <2>2
    <3> QED BY <1>4, <1>5, <3>1, <3>2
  <2> QED BY <1>2, <2>1, <2>2
<1>6. CASE m > 0 /\ End(M[m]) = b.addr
  BY <1>2, <1>3, <1>6, Elements
<1>7. CASE ~(m > 0 /\ End(M[m]) = b.addr)
  <2>1. \A i \in 1 .. Len(M) : End(M[i]) # b.addr
    BY <1>2, <1>5, <1>7
  <2> QED BY <1>3, <1>7, <2>1, Elements
<1> QED BY <1>6, <1>7

LEMMA RightFound ==
  ASSUME NEW M \in Seq(Blk), SortedM(M), NEW b \in Blk,
         \A c \in ToSet(M) : ~Meet(b, c),
         NEW r, r = RightOf(M, b)
  PROVE  \/ r = NoBlock /\ \A c \in ToSet(M) : c.addr # End(b)
         \/ r \in ToSet(M) /\ r.addr = End(b)
<1>1. PICK m : m = Below(M, b)
  OBVIOUS
<1>2. /\ m \in 0 .. Len(M) /\ Len(M) \in Nat
      /\ \A i \in 1 .. Len(M) : IF i <= m THEN M[i].addr < b.addr ELSE M[i].addr >= b.addr
  BY <1>1, BelowM, BlkNat
<1>3. r = IF m < Len(M) /\ M[m + 1].addr = End(b) THEN M[m + 1] ELSE NoBlock
  BY <1>1 DEF RightOf
<1>4. /\ b.addr \in Nat /\ End(b) \in Nat /\ End(b) > b.addr
      /\ \A i \in 1 .. Len(M) : M[i].addr \in Nat /\ End(M[i]) \in Nat /\ End(M[i]) > M[i].addr
  BY BlkNat, MNats
<1>5. ASSUME NEW i \in 1 .. Len(M), M[i].addr = End(b) PROVE i = m + 1
  <2>1. i > m
    BY <1>2, <1>4, <1>5
  <2>2. ASSUME i > m + 1 PROVE FALSE
    <3>1. m + 1 \in DOMAIN M /\ i \in DOMAIN M /\ End(M[m + 1]) < M[i].addr
      BY <1>2, <2>2 DEF SortedM
    <3>2. M[m + 1].addr >= b.addr /\ M[m + 1].addr \in Nat /\ End(M[m + 1]) \in Nat /\ End(M[m + 1]) > M[m + 1].addr
      BY <1>2, <1>4, <2>2
    <3>3. ~Meet(b, M[m + 1])
      BY <1>2, <2>2, Elements
    <3> QED BY <1>4, <1>5, <3>1, <3>2, <3>3 DEF Meet
  <2> QED BY <1>2, <2>1, <2>2
<1>6. CASE m < Len(M) /\ M[m + 1].addr = End(b)
  <2>1. m + 1 \in 1 .. Len(M)
    BY <1>2, <1>6
  <2> QED BY <1>3, <1>6, <2>1, Elements
<1>7. CASE ~(m < Len(M) /\ M[m + 1].addr = End(b))
  <2>1. \A i \in 1 .. Len(M) : M[i].addr # End(b)
    BY <1>2, <1>5, <1>7
  <2> QED BY <1>3, <1>7, <2>1, Elements
<1> QED BY <1>6, <1>7

============================================================================
