-------------------- MODULE VortexMemoryAllocatorProofs --------------------
(***************************************************************************)
(* The allocator for any base address, capacity, alignments, sizes and     *)
(* reservations: whatever is allocated, reserved and released, each page   *)
(* is tiled by its blocks, the free lists agree and the pages are in       *)
(* order; and so the allocator implements BlockAllocator.                  *)
(***************************************************************************)
EXTENDS AllocatorLists

----------------------------------------------------------------------------
(* The inductive invariant: a page.                                        *)

PageRec == [addr : Nat, size : Whole, used : SUBSET Blk, freeS : Seq(Blk), freeM : Seq(Blk)]

Free(p) == ToSet(p.freeM)

\* The free lists hold the same blocks, each by its own order; free blocks
\* never touch.
ListsOK(p) ==
  /\ SortedM(p.freeM) /\ SortedS(p.freeS) /\ Distinct(p.freeS)
  /\ ToSet(p.freeS) = Free(p)

Within(b, p) == p.addr <= b.addr /\ End(b) <= End(p)
Has(b, a)    == b.addr <= a /\ a < End(b)

Tiled(p) ==
  /\ \A b, c \in p.used \cup Free(p) : b = c \/ ~Meet(b, c)
  /\ p.used \cap Free(p) = {}
  /\ \A b \in p.used \cup Free(p) : Within(b, p)
  /\ \A a \in p.addr .. End(p) - 1 : \E b \in p.used \cup Free(p) : Has(b, a)

PageOK(p) == p \in PageRec /\ ListsOK(p) /\ Tiled(p)

LEMMA PageFields ==
  ASSUME NEW p \in PageRec
  PROVE  /\ p.addr \in Nat /\ p.size \in Whole /\ p.size \in Nat /\ p.size > 0
         /\ End(p) \in Nat /\ End(p) = p.addr + p.size
         /\ p.used \subseteq Blk /\ p.freeS \in Seq(Blk) /\ p.freeM \in Seq(Blk)
         /\ Free(p) \subseteq Blk
<1>1. /\ p.addr \in Nat /\ p.size \in Whole
      /\ p.used \subseteq Blk /\ p.freeS \in Seq(Blk) /\ p.freeM \in Seq(Blk)
  BY DEF PageRec
<1>2. Free(p) \subseteq Blk
  BY <1>1, Elements DEF Free
<1> QED BY <1>1, <1>2, WholeNat DEF End

\* Of the free blocks of a page, the address names one.
LEMMA FreeNamed ==
  ASSUME NEW p, PageOK(p), NEW b \in Free(p), NEW c \in Free(p), b.addr = c.addr
  PROVE  b = c
<1>1. b \in Blk /\ c \in Blk /\ p.freeM \in Seq(Blk) /\ SortedM(p.freeM)
  BY PageFields DEF PageOK, ListsOK
<1> QED BY <1>1, FreeApart, BlkNat DEF Free

(***************************************************************************)
(* Unlinking a free block from both lists.                                 *)
(***************************************************************************)
Lists(M, S) ==
  /\ M \in Seq(Blk) /\ S \in Seq(Blk)
  /\ SortedM(M) /\ SortedS(S) /\ Distinct(S)
  /\ ToSet(S) = ToSet(M)

LEMMA PageLists ==
  ASSUME NEW p, PageOK(p)
  PROVE  Lists(p.freeM, p.freeS)
BY PageFields DEF PageOK, ListsOK, Lists, Free

LEMMA Unlinks ==
  ASSUME NEW M, NEW S, Lists(M, S), NEW b
  PROVE  /\ Lists(Without(M, b), Without(S, b))
         /\ ToSet(Without(M, b)) = {c \in ToSet(M) : c.addr # b.addr}
<1>1. PICK m, s : m = Without(M, b) /\ s = Without(S, b)
  OBVIOUS
<1>2. Distinct(M)
  BY DistinctM DEF Lists
<1>3. m \in Seq(Blk) /\ Thins(m, M) /\ ToSet(m) = {c \in ToSet(M) : c.addr # b.addr}
  BY <1>1, <1>2, WithoutList DEF Lists
<1>4. s \in Seq(Blk) /\ Thins(s, S) /\ ToSet(s) = {c \in ToSet(S) : c.addr # b.addr}
  BY <1>1, WithoutList DEF Lists
<1>5. SortedM(m) /\ SortedS(s) /\ Distinct(s)
  BY <1>3, <1>4, ThinsKeeps DEF Lists
<1> QED BY <1>1, <1>3, <1>4, <1>5 DEF Lists

LEMMA Links ==
  ASSUME NEW M, NEW S, Lists(M, S), NEW b \in Blk,
         \A c \in ToSet(M) : End(c) < b.addr \/ End(b) < c.addr
  PROVE  /\ Lists(InsertM(M, b), InsertS(S, b))
         /\ ToSet(InsertM(M, b)) = ToSet(M) \cup {b}
<1>1. \A c \in ToSet(S) : c.addr # b.addr
  <2>1. \A c \in ToSet(S) : c \in Blk /\ (End(c) < b.addr \/ End(b) < c.addr)
    BY Elements DEF Lists
  <2> QED BY <2>1, BlkNat
<1>2. /\ InsertM(M, b) \in Seq(Blk) /\ SortedM(InsertM(M, b))
      /\ ToSet(InsertM(M, b)) = ToSet(M) \cup {b}
  BY InsertsM DEF Lists
<1>3. /\ InsertS(S, b) \in Seq(Blk) /\ SortedS(InsertS(S, b)) /\ Distinct(InsertS(S, b))
      /\ ToSet(InsertS(S, b)) = ToSet(S) \cup {b}
  BY <1>1, InsertsS DEF Lists
<1> QED BY <1>2, <1>3 DEF Lists

(***************************************************************************)
(* A new page is one free block.                                           *)
(***************************************************************************)
LEMMA NewPageOK ==
  ASSUME NEW a \in Nat, NEW n \in Whole
  PROVE  /\ PageOK(NewPage(a, n))
         /\ NewPage(a, n).addr = a /\ NewPage(a, n).size = n /\ NewPage(a, n).used = {}
         /\ Free(NewPage(a, n)) = {[addr |-> a, size |-> n]}
<1>1. PICK b : b = [addr |-> a, size |-> n]
  OBVIOUS
<1>2. b \in Blk /\ b.addr = a /\ b.size = n
  BY <1>1 DEF Blk
<1>3. PICK p : p = NewPage(a, n)
  OBVIOUS
<1>4. p = [addr |-> a, size |-> n, used |-> {}, freeS |-> <<b>>, freeM |-> <<b>>]
  BY <1>1, <1>3 DEF NewPage
<1>5. <<b>> \in Seq(Blk) /\ Len(<<b>>) = 1 /\ <<b>>[1] = b /\ DOMAIN <<b>> = 1 .. 1
  BY <1>2
<1>6. p \in PageRec /\ p.used = {} /\ p.freeM = <<b>> /\ p.freeS = <<b>> /\ p.addr = a /\ p.size = n
  BY <1>2, <1>4, <1>5 DEF PageRec
<1>7. Free(p) = {b} /\ ToSet(p.freeS) = {b}
  BY <1>5, <1>6 DEF Free, ToSet
<1>8. ListsOK(p)
  BY <1>5, <1>6, <1>7 DEF ListsOK, SortedM, SortedS, Distinct
<1>9. End(p) = End(b) /\ n \in Nat
  BY <1>2, <1>6, WholeNat DEF End
<1>10. Tiled(p)
  <2>1. p.used \cup Free(p) = {b} /\ p.used \cap Free(p) = {}
    BY <1>6, <1>7
  <2>2. Within(b, p)
    <3>1. p.addr = b.addr /\ b.addr \in Nat /\ End(p) \in Nat /\ End(b) = End(p)
      BY <1>2, <1>6, <1>9, BlkNat
    <3> QED BY <3>1 DEF Within
  <2>3. \A x \in p.addr .. End(p) - 1 : Has(b, x)
    BY <1>2, <1>6, <1>9, BlkNat DEF Has
  <2> QED BY <2>1, <2>2, <2>3 DEF Tiled
<1> QED BY <1>1, <1>3, <1>6, <1>7, <1>8, <1>10 DEF PageOK

(***************************************************************************)
(* page_t::allocate cuts the block in two, or takes all of it.             *)
(***************************************************************************)
LEMMA PageAllocates ==
  ASSUME NEW p, PageOK(p), NEW b \in Free(p), NEW n \in Whole, n <= b.size,
         NEW q, q = PageAllocate(p, n, b)
  PROVE  /\ PageOK(q) /\ q.addr = p.addr /\ q.size = p.size
         /\ q.used = p.used \cup {[addr |-> b.addr, size |-> n]}
         /\ [addr |-> b.addr, size |-> n] \notin p.used
<1>1. PICK M, S : M = Without(p.freeM, b) /\ S = Without(p.freeS, b)
  OBVIOUS
<1>2. PICK t : t = [addr |-> b.addr, size |-> n]
  OBVIOUS
<1>3. PICK rest : rest = [addr |-> b.addr + n, size |-> b.size - n]
  OBVIOUS
<1>4. /\ p \in PageRec /\ p.addr \in Nat /\ p.size \in Whole /\ End(p) \in Nat
      /\ End(p) = p.addr + p.size /\ p.used \subseteq Blk /\ Free(p) \subseteq Blk
  BY PageFields DEF PageOK
<1>5. /\ b \in Blk /\ b.addr \in Nat /\ b.size \in Nat /\ b.size > 0 /\ End(b) \in Nat
      /\ End(b) = b.addr + b.size /\ b.size \in Whole
      /\ n \in Nat /\ n > 0 /\ n >= BlockAlign
  BY <1>4, BlkNat, WholeNat DEF Blk
<1>6. t \in Blk /\ t.addr = b.addr /\ t.size = n /\ End(t) = b.addr + n /\ t = [b EXCEPT !.size = n]
  BY <1>2, <1>5 DEF Blk, End
<1>7. Lists(M, S) /\ ToSet(M) = Free(p) \ {b}
  <2>1. Lists(M, S) /\ ToSet(M) = {c \in Free(p) : c.addr # b.addr}
    BY <1>1, PageLists, Unlinks DEF Free
  <2>2. \A c \in Free(p) : c.addr # b.addr <=> c # b
    BY FreeNamed
  <2> QED BY <2>1, <2>2
<1>8. \A c \in p.used \cup Free(p) : c # b => ~Meet(b, c)
  BY DEF PageOK, Tiled
<1>9. t \notin p.used
  <2>1. ASSUME t \in p.used PROVE FALSE
    <3>1. t # b => ~Meet(b, t)
      BY <1>8, <2>1
    <3>2. Meet(b, t)
      BY <1>5, <1>6 DEF Meet
    <3>3. b \notin p.used
      BY DEF PageOK, Tiled
    <3> QED BY <2>1, <3>1, <3>2, <3>3
  <2> QED BY <2>1
<1>10. CASE b.size = n
  <2>1. t = b
    BY <1>2, <1>4, <1>5, <1>10 DEF Blk
  <2>2. q = [p EXCEPT !.used = @ \cup {b}, !.freeM = M, !.freeS = S]
    BY <1>1, <1>3, <1>5, <1>10, AllocatorAssumption DEF PageAllocate
  <2>3. /\ q \in PageRec /\ q.addr = p.addr /\ q.size = p.size
        /\ q.used = p.used \cup {b} /\ q.freeM = M /\ q.freeS = S
    <3>1. PICK u : u = p.used \cup {b}
      OBVIOUS
    <3>2. u \in SUBSET Blk /\ M \in Seq(Blk) /\ S \in Seq(Blk)
      BY <1>4, <1>5, <1>7, <3>1 DEF Lists
    <3>3. q = [p EXCEPT !.used = u, !.freeM = M, !.freeS = S]
      BY <1>4, <2>2, <3>1 DEF PageRec
    <3>4. /\ q.addr = p.addr /\ q.size = p.size
          /\ q.used = u /\ q.freeM = M /\ q.freeS = S
      BY <1>4, <3>3 DEF PageRec
    <3>5. q \in PageRec
      BY <1>4, <3>2, <3>3 DEF PageRec
    <3> QED BY <3>1, <3>4, <3>5
  <2>4. Free(q) = Free(p) \ {b} /\ ListsOK(q)
    BY <1>7, <2>3 DEF Free, ListsOK, Lists
  <2>5. q.used \cup Free(q) = p.used \cup Free(p) /\ q.used \cap Free(q) = {} /\ End(q) = End(p)
    BY <2>3, <2>4 DEF PageOK, Tiled, End
  <2>6. Tiled(q)
    BY <2>3, <2>5 DEF PageOK, Tiled, Within
  <2> QED BY <1>2, <1>9, <2>1, <2>3, <2>4, <2>6 DEF PageOK
<1>11. CASE n < b.size
  <2>1. rest \in Blk /\ rest.addr = b.addr + n /\ rest.size >= BlockAlign /\ End(rest) = End(b)
    <3>1. b.size - n \in Whole
      BY <1>5, <1>11, WholeLess
    <3> QED BY <1>3, <1>5, <3>1, WholeNat DEF Blk, End
  <2>2. q = [p EXCEPT !.used = @ \cup {t}, !.freeM = InsertM(M, rest), !.freeS = InsertS(S, rest)]
    BY <1>1, <1>3, <1>6, <2>1 DEF PageAllocate
  <2>3. \A c \in ToSet(M) : End(c) < rest.addr \/ End(rest) < c.addr
    <3>1. ASSUME NEW c \in ToSet(M) PROVE End(c) < b.addr \/ End(b) < c.addr
      BY <1>7, <3>1, FreeApart, PageLists DEF Free, Lists
    <3>2. ASSUME NEW c \in ToSet(M) PROVE End(c) \in Nat /\ c.addr \in Nat
      BY <1>4, <1>7, <3>2, BlkNat
    <3> QED BY <1>5, <2>1, <3>1, <3>2
  <2>4. Lists(InsertM(M, rest), InsertS(S, rest)) /\ ToSet(InsertM(M, rest)) = (Free(p) \ {b}) \cup {rest}
    BY <1>7, <2>1, <2>3, Links
  <2>5. /\ q \in PageRec /\ q.addr = p.addr /\ q.size = p.size
        /\ q.used = p.used \cup {t} /\ q.freeM = InsertM(M, rest) /\ q.freeS = InsertS(S, rest)
    <3>1. InsertM(M, rest) \in Seq(Blk) /\ InsertS(S, rest) \in Seq(Blk)
      BY <2>4 DEF Lists
    <3>2. p.used \cup {t} \in SUBSET Blk
      BY <1>4, <1>6
    <3> QED BY <1>4, <2>2, <3>1, <3>2 DEF PageRec
  <2>6. Free(q) = (Free(p) \ {b}) \cup {rest} /\ ListsOK(q) /\ End(q) = End(p)
    BY <2>4, <2>5 DEF Free, ListsOK, Lists, End
  <2>7. q.used \cup Free(q) = ((p.used \cup Free(p)) \ {b}) \cup {t, rest}
    BY <2>5, <2>6 DEF PageOK, Tiled
  <2>8. ASSUME NEW c \in (p.used \cup Free(p)) \ {b}
        PROVE  /\ ~Meet(t, c) /\ ~Meet(rest, c) /\ ~Meet(c, t) /\ ~Meet(c, rest)
               /\ c # t /\ c # rest
    <3>1. c.addr \in Nat /\ End(c) \in Nat /\ End(c) > c.addr /\ ~Meet(b, c)
      BY <1>4, <1>8, <2>8, BlkNat
    <3>2. End(rest) > rest.addr
      BY <2>1, BlkNat
    <3> QED BY <1>5, <1>6, <2>1, <3>1, <3>2 DEF Meet
  <2>9. ~Meet(t, rest) /\ ~Meet(rest, t) /\ t # rest
    <3>1. ~(rest.addr < End(t))
      BY <1>5, <1>6, <2>1
    <3>2. rest.addr # t.addr
      BY <1>5, <1>6, <2>1
    <3> QED BY <3>1, <3>2 DEF Meet
  <2>10. \A c, d \in q.used \cup Free(q) : c = d \/ ~Meet(c, d)
    <3>1. \A c, d \in (p.used \cup Free(p)) \ {b} : c = d \/ ~Meet(c, d)
      BY DEF PageOK, Tiled
    <3> QED BY <2>7, <2>8, <2>9, <3>1
  <2>11. q.used \cap Free(q) = {}
    <3>1. p.used \cap Free(p) = {}
      BY DEF PageOK, Tiled
    <3> QED BY <2>5, <2>6, <2>8, <2>9, <3>1
  <2>12. \A c \in q.used \cup Free(q) : Within(c, q)
    <3>1. Within(b, p) /\ \A c \in (p.used \cup Free(p)) \ {b} : Within(c, p)
      BY DEF PageOK, Tiled
    <3>2. Within(t, q) /\ Within(rest, q)
      BY <1>4, <1>5, <1>6, <1>11, <2>1, <2>5, <2>6, <3>1 DEF Within
    <3> QED BY <2>5, <2>6, <2>7, <3>1, <3>2 DEF Within
  <2>13. ASSUME NEW a \in q.addr .. End(q) - 1
         PROVE  \E c \in q.used \cup Free(q) : Has(c, a)
    <3>1. PICK c \in p.used \cup Free(p) : Has(c, a)
      BY <2>5, <2>6 DEF PageOK, Tiled
    <3>2. CASE c = b
      <4>1. a \in Int
        BY <1>4, <2>5, <2>6
      <4>2. Has(t, a) \/ Has(rest, a)
        BY <1>5, <1>6, <2>1, <3>1, <3>2, <4>1 DEF Has
      <4> QED BY <2>7, <4>2
    <3>3. CASE c # b
      BY <2>7, <3>1, <3>3
    <3> QED BY <3>2, <3>3
  <2>14. Tiled(q)
    BY <2>10, <2>11, <2>12, <2>13 DEF Tiled
  <2> QED BY <1>2, <1>9, <2>5, <2>6, <2>14 DEF PageOK
<1> QED BY <1>5, <1>10, <1>11

(***************************************************************************)
(* page_t::release: the block and the free blocks that touch it become one *)
(* that touches no free block.                                             *)
(***************************************************************************)
LEMMA PageReleases ==
  ASSUME NEW p, PageOK(p), NEW b \in p.used, NEW q, q = PageRelease(p, b)
  PROVE  /\ PageOK(q) /\ q.addr = p.addr /\ q.size = p.size
         /\ q.used = p.used \ {b}
<1>1. PICK l, r : l = LeftOf(p.freeM, b) /\ r = RightOf(p.freeM, b)
  OBVIOUS
<1>2. PICK m : m = [addr |-> IF l = NoBlock THEN b.addr ELSE l.addr, size |-> l.size + b.size + r.size]
  OBVIOUS
<1>3. PICK M, S : M = Without(Without(p.freeM, l), r) /\ S = Without(Without(p.freeS, l), r)
  OBVIOUS
<1>4. q = [p EXCEPT !.used = @ \ {b}, !.freeM = InsertM(M, m), !.freeS = InsertS(S, m)]
  BY <1>1, <1>2, <1>3 DEF PageRelease
<1>5. /\ p \in PageRec /\ p.addr \in Nat /\ p.size \in Whole /\ End(p) \in Nat
      /\ End(p) = p.addr + p.size /\ p.used \subseteq Blk /\ Free(p) \subseteq Blk
      /\ Lists(p.freeM, p.freeS)
  BY PageFields, PageLists DEF PageOK
<1>6. /\ b \in Blk /\ b.addr \in Nat /\ b.size \in Nat /\ b.size > 0 /\ End(b) \in Nat
      /\ End(b) = b.addr + b.size /\ b.size \in Whole /\ b \notin Free(p)
  BY <1>5, BlkNat DEF Blk, PageOK, Tiled
<1>7. \A c \in p.used \cup Free(p) : c # b => ~Meet(b, c) /\ ~Meet(c, b)
  BY DEF PageOK, Tiled
<1>8. \/ l = NoBlock /\ \A c \in Free(p) : End(c) # b.addr
      \/ l \in Free(p) /\ End(l) = b.addr
  BY <1>1, <1>5, <1>6, LeftFound DEF Free, Lists
<1>9. \/ r = NoBlock /\ \A c \in Free(p) : c.addr # End(b)
      \/ r \in Free(p) /\ r.addr = End(b)
  <2>1. \A c \in ToSet(p.freeM) : ~Meet(b, c)
    BY <1>6, <1>7 DEF Free
  <2> QED BY <1>1, <1>5, <1>6, <2>1, RightFound DEF Free, Lists
<1>10. NoBlock.addr = -1 /\ NoBlock.size = 0 /\ NoBlock \notin Free(p)
  <2>1. NoBlock.addr = -1 /\ NoBlock.size = 0
    BY DEF NoBlock, None
  <2> QED BY <1>5, <2>1, BlkNat
<1>11. \A c \in Free(p) : c \in Blk /\ c.addr \in Nat /\ c.size \in Nat /\ End(c) \in Nat
                          /\ End(c) = c.addr + c.size /\ c.size > 0 /\ c.size \in Whole
  BY <1>5, BlkNat DEF Blk
\* The merged block, from where its left part begins to where its right part ends
<1>12. /\ m \in Blk
       /\ m.addr = IF l = NoBlock THEN b.addr ELSE l.addr
       /\ End(m) = IF r = NoBlock THEN End(b) ELSE End(r)
  <2>1. CASE l = NoBlock /\ r = NoBlock
    BY <1>2, <1>6, <1>10, <2>1 DEF Blk, End
  <2>2. CASE l # NoBlock /\ r = NoBlock
    <3>1. l.size + b.size \in Whole
      BY <1>6, <1>8, <1>11, <2>2, WholeSum
    <3> QED BY <1>2, <1>6, <1>8, <1>10, <1>11, <2>2, <3>1 DEF Blk, End
  <2>3. CASE l = NoBlock /\ r # NoBlock
    <3>1. b.size + r.size \in Whole
      BY <1>6, <1>9, <1>11, <2>3, WholeSum
    <3> QED BY <1>2, <1>6, <1>9, <1>10, <1>11, <2>3, <3>1 DEF Blk, End
  <2>4. CASE l # NoBlock /\ r # NoBlock
    <3>1. l.size + b.size \in Whole
      BY <1>6, <1>8, <1>11, <2>4, WholeSum
    <3>2. l.size + b.size + r.size \in Whole
      BY <1>9, <1>11, <2>4, <3>1, WholeSum
    <3> QED BY <1>2, <1>6, <1>8, <1>9, <1>10, <1>11, <2>4, <3>2 DEF Blk, End
  <2> QED BY <2>1, <2>2, <2>3, <2>4
<1>13. Lists(M, S) /\ ToSet(M) = Free(p) \ {l, r}
  <2>1. /\ Lists(Without(p.freeM, l), Without(p.freeS, l))
        /\ ToSet(Without(p.freeM, l)) = {c \in Free(p) : c.addr # l.addr}
    BY <1>5, Unlinks DEF Free
  <2>2. Lists(M, S) /\ ToSet(M) = {c \in ToSet(Without(p.freeM, l)) : c.addr # r.addr}
    BY <1>3, <2>1, Unlinks
  <2>3. \A c \in Free(p) : c.addr # l.addr <=> c # l
    BY <1>8, <1>10, <1>11, FreeNamed
  <2>4. \A c \in Free(p) : c.addr # r.addr <=> c # r
    BY <1>9, <1>10, <1>11, FreeNamed
  <2> QED BY <2>1, <2>2, <2>3, <2>4
<1>14. ASSUME NEW c \in Free(p) \ {l, r}
       PROVE  End(c) < m.addr \/ End(m) < c.addr
  <2>1. ~Meet(b, c)
    BY <1>6, <1>7, <1>14
  <2>2. End(c) <= b.addr \/ End(b) <= c.addr
    BY <1>6, <1>11, <1>14, <2>1 DEF Meet
  <2>3. l # NoBlock => End(c) < l.addr \/ End(l) < c.addr
    BY <1>5, <1>8, <1>14, FreeApart DEF Free, Lists
  <2>4. r # NoBlock => End(c) < r.addr \/ End(r) < c.addr
    BY <1>5, <1>9, <1>14, FreeApart DEF Free, Lists
  <2>5. l = NoBlock => End(c) # b.addr
    BY <1>8, <1>10, <1>14
  <2>6. r = NoBlock => c.addr # End(b)
    BY <1>9, <1>10, <1>14
  <2>7. l # NoBlock => End(l) = b.addr /\ l.addr \in Nat /\ l.addr < b.addr
    BY <1>6, <1>8, <1>11
  <2>8. r # NoBlock => r.addr = End(b) /\ End(r) \in Nat /\ End(b) < End(r)
    BY <1>6, <1>9, <1>11
  <2>9. c.addr \in Nat /\ End(c) \in Nat /\ c.addr < End(c)
    BY <1>11, <1>14
  <2>10. CASE l = NoBlock /\ r = NoBlock
    BY <1>6, <1>12, <2>2, <2>5, <2>6, <2>9, <2>10
  <2>11. CASE l # NoBlock /\ r = NoBlock
    BY <1>6, <1>12, <2>2, <2>3, <2>6, <2>7, <2>9, <2>11
  <2>12. CASE l = NoBlock /\ r # NoBlock
    BY <1>6, <1>12, <2>2, <2>4, <2>5, <2>8, <2>9, <2>12
  <2>13. CASE l # NoBlock /\ r # NoBlock
    BY <1>6, <1>12, <2>2, <2>3, <2>4, <2>7, <2>8, <2>9, <2>13
  <2> QED BY <2>10, <2>11, <2>12, <2>13
<1>15. Lists(InsertM(M, m), InsertS(S, m)) /\ ToSet(InsertM(M, m)) = (Free(p) \ {l, r}) \cup {m}
  BY <1>12, <1>13, <1>14, Links
<1>16. /\ q \in PageRec /\ q.addr = p.addr /\ q.size = p.size
       /\ q.used = p.used \ {b} /\ q.freeM = InsertM(M, m) /\ q.freeS = InsertS(S, m)
  BY <1>4, <1>5, <1>15 DEF PageRec, Lists
<1>17. Free(q) = (Free(p) \ {l, r}) \cup {m} /\ ListsOK(q) /\ End(q) = End(p)
  BY <1>15, <1>16 DEF Free, ListsOK, Lists, End
<1>18. m.addr \in Nat /\ End(m) \in Nat /\ m.addr <= b.addr /\ End(b) <= End(m)
  <2>1. l # NoBlock => l.addr \in Nat /\ l.addr < b.addr
    BY <1>6, <1>8, <1>11
  <2>2. r # NoBlock => End(r) \in Nat /\ End(b) < End(r)
    BY <1>6, <1>9, <1>11
  <2> QED BY <1>6, <1>12, <2>1, <2>2
<1>19. ASSUME NEW c \in (p.used \ {b}) \cup (Free(p) \ {l, r})
       PROVE  ~Meet(m, c) /\ ~Meet(c, m) /\ c # m
  <2>1. c \in Blk /\ c.addr \in Nat /\ End(c) \in Nat /\ c.addr < End(c)
    BY <1>5, <1>19, BlkNat
  <2>2. ~Meet(b, c)
    BY <1>6, <1>7, <1>19
  <2>3. l # NoBlock => ~Meet(l, c) /\ End(l) = b.addr /\ l.addr \in Nat
    <3>1. l # NoBlock => l \in Free(p) /\ l # c
      BY <1>8, <1>19 DEF PageOK, Tiled
    <3> QED BY <1>8, <1>11, <1>19, <3>1 DEF PageOK, Tiled
  <2>4. r # NoBlock => ~Meet(r, c) /\ r.addr = End(b) /\ End(r) \in Nat
    <3>1. r # NoBlock => r \in Free(p) /\ r # c
      BY <1>9, <1>19 DEF PageOK, Tiled
    <3> QED BY <1>9, <1>11, <1>19, <3>1 DEF PageOK, Tiled
  <2>5. ~Meet(m, c)
    <3>1. l = NoBlock => m.addr = b.addr
      BY <1>12
    <3>2. l # NoBlock => m.addr = l.addr
      BY <1>12
    <3>3. r = NoBlock => End(m) = End(b)
      BY <1>12
    <3>4. r # NoBlock => End(m) = End(r)
      BY <1>12
    <3> QED BY <1>6, <1>18, <2>1, <2>2, <2>3, <2>4, <3>1, <3>2, <3>3, <3>4 DEF Meet
  <2>6. Meet(m, m)
    BY <1>6, <1>18 DEF Meet
  <2> QED BY <2>5, <2>6 DEF Meet
<1>20. q.used \cup Free(q) = (p.used \ {b}) \cup (Free(p) \ {l, r}) \cup {m}
  BY <1>16, <1>17
<1>21. \A c, d \in q.used \cup Free(q) : c = d \/ ~Meet(c, d)
  <2>1. \A c, d \in p.used \cup Free(p) : c = d \/ ~Meet(c, d)
    BY DEF PageOK, Tiled
  <2> QED BY <1>19, <1>20, <2>1
<1>22. q.used \cap Free(q) = {}
  <2>1. p.used \cap Free(p) = {}
    BY DEF PageOK, Tiled
  <2> QED BY <1>16, <1>17, <1>19, <2>1
<1>23. \A c \in q.used \cup Free(q) : Within(c, q)
  <2>1. \A c \in p.used \cup Free(p) : Within(c, p)
    BY DEF PageOK, Tiled
  <2>2. Within(m, p)
    <3>1. Within(b, p) /\ (l # NoBlock => Within(l, p)) /\ (r # NoBlock => Within(r, p))
      BY <1>8, <1>9, <2>1
    <3> QED BY <1>12, <3>1 DEF Within
  <2> QED BY <1>16, <1>17, <1>20, <2>1, <2>2 DEF Within
<1>24. ASSUME NEW a \in q.addr .. End(q) - 1
       PROVE  \E c \in q.used \cup Free(q) : Has(c, a)
  <2>1. PICK c \in p.used \cup Free(p) : Has(c, a)
    BY <1>16, <1>17 DEF PageOK, Tiled
  <2>2. CASE c \in {b, l, r}
    <3>1. c \in Blk /\ c.addr \in Nat /\ End(c) \in Nat /\ c # NoBlock
      BY <1>5, <1>10, <2>1, BlkNat
    <3>2. m.addr <= c.addr /\ End(c) <= End(m)
      BY <1>6, <1>8, <1>9, <1>11, <1>12, <1>18, <2>2, <3>1
    <3>3. a \in Nat
      BY <1>5, <1>16, <1>17
    <3>4. Has(m, a)
      BY <1>18, <2>1, <3>1, <3>2, <3>3 DEF Has
    <3> QED BY <1>20, <3>4
  <2>3. CASE c \notin {b, l, r}
    BY <1>20, <2>1, <2>3
  <2> QED BY <2>2, <2>3
<1>25. Tiled(q)
  BY <1>21, <1>22, <1>23, <1>24 DEF Tiled
<1> QED BY <1>16, <1>17, <1>25 DEF PageOK

----------------------------------------------------------------------------
(* The inductive invariant: the list of pages.                             *)

Ordered(P) == \A i, j \in DOMAIN P : i < j => End(P[i]) <= P[j].addr

Good(P) ==
  /\ P \in Seq(PageRec)
  /\ \A i \in DOMAIN P : PageOK(P[i]) /\ P[i].used # {}
  /\ Ordered(P)

InMemory(P) == \A i \in DOMAIN P : Base <= P[i].addr /\ End(P[i]) <= Base + Capacity

UsedOf(P) == UNION {P[i].used : i \in DOMAIN P}

LEMMA GoodPage ==
  ASSUME NEW P, Good(P), NEW i \in DOMAIN P
  PROVE  /\ P[i] \in PageRec /\ P[i].addr \in Nat /\ End(P[i]) \in Nat /\ P[i].addr < End(P[i])
         /\ DOMAIN P = 1 .. Len(P) /\ Len(P) \in Nat /\ i \in 1 .. Len(P)
         /\ \A b \in P[i].used : b \in Blk /\ b.addr \in Nat /\ End(b) \in Nat /\ b.addr < End(b)
                                 /\ P[i].addr <= b.addr /\ End(b) <= End(P[i])
<1>1. DOMAIN P = 1 .. Len(P) /\ Len(P) \in Nat /\ i \in 1 .. Len(P) /\ P[i] \in PageRec
  BY Elements DEF Good
<1>2. P[i].addr \in Nat /\ End(P[i]) \in Nat /\ P[i].addr < End(P[i]) /\ P[i].used \subseteq Blk
  BY <1>1, PageFields
<1>3. \A b \in P[i].used : Within(b, P[i])
  BY DEF Good, PageOK, Tiled
<1> QED BY <1>1, <1>2, <1>3, BlkNat DEF Within

\* Used blocks of two pages are apart.
LEMMA UsedApart ==
  ASSUME NEW P, Good(P), NEW i \in DOMAIN P, NEW j \in DOMAIN P, i # j,
         NEW b \in P[i].used, NEW c \in P[j].used
  PROVE  ~Meet(b, c) /\ b # c
<1>1. /\ P[i].addr \in Nat /\ End(P[i]) \in Nat /\ b.addr \in Nat /\ End(b) \in Nat /\ b.addr < End(b)
      /\ P[i].addr <= b.addr /\ End(b) <= End(P[i])
  BY GoodPage
<1>2. /\ P[j].addr \in Nat /\ End(P[j]) \in Nat /\ c.addr \in Nat /\ End(c) \in Nat /\ c.addr < End(c)
      /\ P[j].addr <= c.addr /\ End(c) <= End(P[j])
  BY GoodPage
<1>3. i \in Nat /\ j \in Nat
  BY GoodPage
<1>4. End(P[i]) <= P[j].addr \/ End(P[j]) <= P[i].addr
  BY <1>3 DEF Good, Ordered
<1> QED BY <1>1, <1>2, <1>4 DEF Meet

\* So are all used blocks.
LEMMA UsedBlocks ==
  ASSUME NEW P, Good(P)
  PROVE  /\ UsedOf(P) \subseteq Blk
         /\ \A b, c \in UsedOf(P) : b = c \/ ~Meet(b, c)
<1>1. UsedOf(P) \subseteq Blk
  BY GoodPage DEF UsedOf
<1>2. ASSUME NEW b \in UsedOf(P), NEW c \in UsedOf(P), b # c PROVE ~Meet(b, c)
  <2>1. PICK i \in DOMAIN P, j \in DOMAIN P : b \in P[i].used /\ c \in P[j].used
    BY DEF UsedOf
  <2>2. CASE i = j
    BY <1>2, <2>1, <2>2 DEF Good, PageOK, Tiled
  <2>3. CASE i # j
    BY <2>1, <2>3, UsedApart
  <2> QED BY <2>2, <2>3
<1> QED BY <1>1, <1>2

\* A page changes its blocks.
Change(P, i, q, Q) ==
  /\ Good(P) /\ i \in DOMAIN P
  /\ PageOK(q) /\ q.used # {} /\ q.addr = P[i].addr /\ q.size = P[i].size
  /\ Q = [P EXCEPT ![i] = q]

LEMMA Changes ==
  ASSUME NEW P, NEW i, NEW q, NEW Q, Change(P, i, q, Q)
  PROVE  /\ Good(Q)
         /\ InMemory(P) => InMemory(Q)
         /\ UsedOf(Q) = (UsedOf(P) \ P[i].used) \cup q.used
<1>0. /\ Good(P) /\ i \in DOMAIN P
      /\ PageOK(q) /\ q.used # {} /\ q.addr = P[i].addr /\ q.size = P[i].size
      /\ Q = [P EXCEPT ![i] = q]
  BY DEF Change
<1>1. P \in Seq(PageRec) /\ i \in 1 .. Len(P) /\ DOMAIN P = 1 .. Len(P) /\ q \in PageRec
  BY <1>0, GoodPage DEF Good, PageOK
<1>2. /\ Q \in Seq(PageRec) /\ DOMAIN Q = DOMAIN P
      /\ \A j \in DOMAIN P : Q[j] = IF j = i THEN q ELSE P[j]
  BY <1>0, <1>1, ExceptSeq
<1>3. \A j \in DOMAIN P : Q[j].addr = P[j].addr /\ End(Q[j]) = End(P[j])
  BY <1>0, <1>2 DEF End
<1>4. Good(Q)
  BY <1>0, <1>2, <1>3 DEF Good, Ordered
<1>5. InMemory(P) => InMemory(Q)
  BY <1>0, <1>2, <1>3 DEF InMemory
<1>6. \A j \in DOMAIN P \ {i} : P[j].used \cap P[i].used = {}
  BY <1>0, UsedApart
<1>7. UsedOf(P) \ P[i].used = UNION {P[j].used : j \in DOMAIN P \ {i}}
  BY <1>0, <1>6 DEF UsedOf
<1>8. UsedOf(Q) = q.used \cup UNION {P[j].used : j \in DOMAIN P \ {i}}
  BY <1>0, <1>2 DEF UsedOf
<1> QED BY <1>4, <1>5, <1>7, <1>8

\* A page that is apart from the others is put at its place.
Creation(P, q, Q) ==
  /\ Good(P) /\ PageOK(q) /\ q.used # {}
  /\ \A i \in DOMAIN P : End(P[i]) <= q.addr \/ End(q) <= P[i].addr
  /\ Q = CreatePage(P, q)

LEMMA Creates ==
  ASSUME NEW P, NEW q, NEW Q, Creation(P, q, Q)
  PROVE  /\ Good(Q)
         /\ InMemory(P) /\ Base <= q.addr /\ End(q) <= Base + Capacity => InMemory(Q)
         /\ UsedOf(Q) = UsedOf(P) \cup q.used
         /\ \A i \in DOMAIN Q : Q[i] = q \/ \E j \in DOMAIN P : Q[i] = P[j]
<1>0. /\ Good(P) /\ PageOK(q) /\ q.used # {}
      /\ \A i \in DOMAIN P : End(P[i]) <= q.addr \/ End(q) <= P[i].addr
      /\ Q = CreatePage(P, q)
  BY DEF Creation
<1>1. PICK m : m = Below(P, q)
  OBVIOUS
<1>2. P \in Seq(PageRec) /\ Len(P) \in Nat /\ DOMAIN P = 1 .. Len(P)
  BY <1>0, Elements DEF Good
<1>3. /\ m \in 0 .. Len(P)
      /\ \A i \in 1 .. m : P[i].addr < q.addr
      /\ m < Len(P) => ~(P[m + 1].addr < q.addr)
  BY <1>1, <1>2, LeadingBelow
<1>4. q \in PageRec /\ q.addr \in Nat /\ End(q) \in Nat /\ q.addr < End(q)
  BY <1>0, PageFields DEF PageOK
<1>5. \A i \in 1 .. Len(P) : P[i].addr \in Nat /\ End(P[i]) \in Nat /\ P[i].addr < End(P[i])
  BY <1>0, <1>2, GoodPage
<1>6. ASSUME NEW i \in 1 .. m PROVE End(P[i]) <= q.addr
  <2>1. i \in 1 .. Len(P) /\ P[i].addr < q.addr
    BY <1>2, <1>3
  <2> QED BY <1>0, <1>2, <1>4, <1>5, <2>1
<1>7. ASSUME NEW i \in m + 1 .. Len(P) PROVE End(q) <= P[i].addr
  <2>1. m + 1 \in 1 .. Len(P) /\ ~(P[m + 1].addr < q.addr)
    BY <1>2, <1>3, <1>7
  <2>2. End(q) <= P[m + 1].addr
    BY <1>0, <1>2, <1>4, <1>5, <2>1
  <2>3. i = m + 1 \/ End(P[m + 1]) <= P[i].addr
    BY <1>0, <1>2, <1>3, <1>7, <2>1 DEF Good, Ordered
  <2> QED BY <1>2, <1>3, <1>4, <1>5, <1>7, <2>1, <2>2, <2>3
<1>8. Q = InsertAt(P, m + 1, q) /\ m + 1 \in 1 .. Len(P) + 1
  BY <1>0, <1>1, <1>2, <1>3 DEF CreatePage
<1>9. /\ Q \in Seq(PageRec) /\ Len(Q) = Len(P) + 1
      /\ \A j \in 1 .. Len(P) + 1 :
           Q[j] = IF j < m + 1 THEN P[j] ELSE IF j = m + 1 THEN q ELSE P[j - 1]
  <2>1. P \in Seq(PageRec) /\ m + 1 \in 1 .. Len(P) + 1 /\ q \in PageRec
    BY <1>2, <1>4, <1>8
  <2>2. PICK k : k = m + 1
    OBVIOUS
  <2>3. P \in Seq(PageRec) /\ k \in 1 .. Len(P) + 1 /\ q \in PageRec /\ Q = InsertAt(P, k, q)
    BY <1>8, <2>1, <2>2
  <2>4. /\ Q \in Seq(PageRec) /\ Len(Q) = Len(P) + 1
        /\ \A j \in 1 .. Len(P) + 1 :
             Q[j] = IF j < k THEN P[j] ELSE IF j = k THEN q ELSE P[j - 1]
    <3>1. Inserted(PageRec, P, k, q, Q)
      BY <2>3, InsertedAt
    <3> QED BY <3>1 DEF Inserted
  <2> QED BY <2>2, <2>4
<1>10. DOMAIN Q = 1 .. Len(P) + 1 /\ ToSet(Q) = ToSet(P) \cup {q}
  BY <1>2, <1>4, <1>8, <1>9, InsertedSet, Elements
<1>11. /\ \A i \in DOMAIN Q : Q[i] = q \/ \E j \in DOMAIN P : Q[i] = P[j]
       /\ \A j \in DOMAIN P : \E i \in DOMAIN Q : Q[i] = P[j]
       /\ \E i \in DOMAIN Q : Q[i] = q
  BY <1>10 DEF ToSet
<1>12. Ordered(Q)
  <2> SUFFICES ASSUME NEW i \in 1 .. Len(P) + 1, NEW j \in 1 .. Len(P) + 1, i < j
               PROVE  End(Q[i]) <= Q[j].addr
    BY <1>10 DEF Ordered
  <2>1. CASE i <= m /\ j <= m
    <3>1. i \in DOMAIN P /\ j \in DOMAIN P /\ Q[i] = P[i] /\ Q[j] = P[j]
      BY <1>2, <1>3, <1>9, <2>1
    <3> QED BY <1>0, <3>1 DEF Good, Ordered
  <2>2. CASE i <= m /\ j = m + 1
    <3>1. i \in 1 .. m /\ Q[i] = P[i] /\ Q[j] = q
      BY <1>2, <1>3, <1>9, <2>2
    <3> QED BY <1>6, <3>1
  <2>3. CASE i <= m /\ j > m + 1
    <3>1. i \in DOMAIN P /\ j - 1 \in DOMAIN P /\ i < j - 1 /\ Q[i] = P[i] /\ Q[j] = P[j - 1]
      BY <1>2, <1>3, <1>9, <2>3
    <3> QED BY <1>0, <3>1 DEF Good, Ordered
  <2>4. CASE i = m + 1
    <3>1. j - 1 \in m + 1 .. Len(P) /\ Q[i] = q /\ Q[j] = P[j - 1]
      BY <1>2, <1>3, <1>9, <2>4
    <3> QED BY <1>7, <3>1
  <2>5. CASE i > m + 1
    <3>1. i - 1 \in DOMAIN P /\ j - 1 \in DOMAIN P /\ i - 1 < j - 1 /\ Q[i] = P[i - 1] /\ Q[j] = P[j - 1]
      BY <1>2, <1>3, <1>9, <2>5
    <3> QED BY <1>0, <3>1 DEF Good, Ordered
  <2>6. m \in Int /\ i \in Int /\ j \in Int
    BY <1>2, <1>3
  <2>7. i <= m \/ i = m + 1 \/ i > m + 1
    BY <2>6
  <2>8. j <= m \/ j = m + 1 \/ j > m + 1
    BY <2>6
  <2>9. CASE i <= m
    BY <2>1, <2>2, <2>3, <2>8, <2>9
  <2> QED BY <2>4, <2>5, <2>7, <2>9
<1>13. Good(Q)
  <2>1. \A j \in DOMAIN P : PageOK(P[j]) /\ P[j].used # {}
    BY <1>0 DEF Good
  <2>2. PageOK(q) /\ q.used # {}
    BY <1>0
  <2>3. \A i \in DOMAIN Q : PageOK(Q[i]) /\ Q[i].used # {}
    BY <1>11, <2>1, <2>2
  <2> QED BY <1>9, <1>12, <2>3 DEF Good
<1>14. InMemory(P) /\ Base <= q.addr /\ End(q) <= Base + Capacity => InMemory(Q)
  BY <1>0, <1>11 DEF InMemory
<1>15. UsedOf(Q) = UsedOf(P) \cup q.used
  <2>1. UsedOf(Q) \subseteq UsedOf(P) \cup q.used
    BY <1>0, <1>11 DEF UsedOf
  <2>2. UsedOf(P) \cup q.used \subseteq UsedOf(Q)
    BY <1>0, <1>11 DEF UsedOf
  <2> QED BY <2>1, <2>2
<1> QED BY <1>11, <1>13, <1>14, <1>15

\* A page is taken out.
LEMMA Deletes ==
  ASSUME NEW P, Good(P), NEW i \in DOMAIN P, NEW Q, Q = RemoveAt(P, i)
  PROVE  /\ Good(Q)
         /\ InMemory(P) => InMemory(Q)
         /\ UsedOf(Q) = UsedOf(P) \ P[i].used
         /\ \A j \in DOMAIN Q : \E k \in DOMAIN P : Q[j] = P[k]
<1>1. P \in Seq(PageRec) /\ Len(P) \in Nat /\ DOMAIN P = 1 .. Len(P) /\ i \in 1 .. Len(P)
  BY GoodPage DEF Good
<1>2. /\ Q \in Seq(PageRec) /\ Len(Q) = Len(P) - 1
      /\ \A j \in 1 .. Len(P) - 1 : Q[j] = IF j < i THEN P[j] ELSE P[j + 1]
  <2>1. P \in Seq(PageRec) /\ i \in 1 .. Len(P) + 1 /\ i <= Len(P)
    BY <1>1
  <2> QED BY <2>1, RemovedAt
<1>3. DOMAIN Q = 1 .. Len(P) - 1
  BY <1>1, <1>2
<1>4. ASSUME NEW j \in DOMAIN Q PROVE \E k \in DOMAIN P \ {i} : Q[j] = P[k]
  <2>1. PICK k : k = IF j < i THEN j ELSE j + 1
    OBVIOUS
  <2>2. k \in DOMAIN P \ {i} /\ Q[j] = P[k]
    BY <1>1, <1>2, <1>3, <2>1
  <2> QED BY <2>2
<1>5. ASSUME NEW k \in DOMAIN P \ {i} PROVE \E j \in DOMAIN Q : Q[j] = P[k]
  <2>1. PICK j : j = IF k < i THEN k ELSE k - 1
    OBVIOUS
  <2>2. j \in DOMAIN Q /\ Q[j] = P[k]
    BY <1>1, <1>2, <1>3, <2>1
  <2> QED BY <2>2
<1>6. Ordered(Q)
  <2> SUFFICES ASSUME NEW j \in DOMAIN Q, NEW k \in DOMAIN Q, j < k
               PROVE  End(Q[j]) <= Q[k].addr
    BY DEF Ordered
  <2>1. PICK x : x = IF j < i THEN j ELSE j + 1
    OBVIOUS
  <2>2. PICK y : y = IF k < i THEN k ELSE k + 1
    OBVIOUS
  <2>3. x \in DOMAIN P /\ y \in DOMAIN P /\ x < y
    BY <1>1, <1>3, <2>1, <2>2
  <2>4. Q[j] = P[x] /\ Q[k] = P[y]
    BY <1>2, <1>3, <2>1, <2>2
  <2> QED BY <2>3, <2>4 DEF Good, Ordered
<1>7. Good(Q)
  BY <1>2, <1>4, <1>6 DEF Good
<1>8. InMemory(P) => InMemory(Q)
  BY <1>4 DEF InMemory
<1>9. \A j \in DOMAIN P \ {i} : P[j].used \cap P[i].used = {}
  BY UsedApart
<1>10. UsedOf(P) \ P[i].used = UNION {P[j].used : j \in DOMAIN P \ {i}}
  BY <1>9 DEF UsedOf
<1>11. UsedOf(Q) = UNION {P[j].used : j \in DOMAIN P \ {i}}
  <2>1. UsedOf(Q) \subseteq UNION {P[j].used : j \in DOMAIN P \ {i}}
    BY <1>4 DEF UsedOf
  <2>2. UNION {P[j].used : j \in DOMAIN P \ {i}} \subseteq UsedOf(Q)
    BY <1>5 DEF UsedOf
  <2> QED BY <2>1, <2>2
<1> QED BY <1>4, <1>7, <1>8, <1>10, <1>11

----------------------------------------------------------------------------
(* Where a new page goes.                                                  *)

\* The gap before each page, and the one after the last
LEMMA Gaps ==
  ASSUME Good(pages)
  PROVE  /\ Len(pages) \in Nat /\ DOMAIN pages = 1 .. Len(pages)
         /\ (pages = <<>>) <=> (Len(pages) = 0)
         /\ EndBefore(1) = Base
         /\ \A i \in 2 .. Len(pages) + 1 : i - 1 \in DOMAIN pages /\ EndBefore(i) = End(pages[i - 1])
         /\ \A i \in 1 .. Len(pages) + 1 : EndBefore(i) \in Nat
<1>1. /\ Len(pages) \in Nat /\ DOMAIN pages = 1 .. Len(pages)
      /\ (pages = <<>>) <=> (Len(pages) = 0)
  <2>1. pages \in Seq(PageRec)
    BY DEF Good
  <2> HIDE DEF PageRec
  <2> QED BY <2>1
<1>2. EndBefore(1) = Base /\ Base \in Nat
  BY AllocatorAssumption DEF EndBefore
<1>3. ASSUME NEW i \in 2 .. Len(pages) + 1
      PROVE  i - 1 \in DOMAIN pages /\ EndBefore(i) = End(pages[i - 1]) /\ EndBefore(i) \in Nat
  <2>1. i - 1 \in DOMAIN pages /\ i # 1
    BY <1>1, <1>3
  <2> QED BY <2>1, GoodPage DEF EndBefore
<1>4. \A i \in 1 .. Len(pages) + 1 : i = 1 \/ i \in 2 .. Len(pages) + 1
  BY <1>1
<1> QED BY <1>1, <1>2, <1>3, <1>4

\* What findNextAddress returns is apart from every page.
LEMMA NextAddress ==
  ASSUME Good(pages), NEW m \in Nat, NEW a, a = FindNextAddress(m), a # None
  PROVE  /\ a \in Nat
         /\ \A i \in DOMAIN pages : End(pages[i]) <= a \/ a + m <= pages[i].addr
         /\ InMemory(pages) => Base <= a
         /\ InMemory(pages) /\ pages # <<>> => a + m <= Base + Capacity
<1>1. PICK n : n = Len(pages)
  OBVIOUS
<1>2. /\ n \in Nat /\ DOMAIN pages = 1 .. n /\ ((pages = <<>>) <=> (n = 0))
      /\ EndBefore(1) = Base
      /\ \A i \in 2 .. n + 1 : i - 1 \in DOMAIN pages /\ EndBefore(i) = End(pages[i - 1])
      /\ \A i \in 1 .. n + 1 : EndBefore(i) \in Nat
  BY <1>1, Gaps
<1>3. PICK gaps : gaps = {i \in DOMAIN pages : EndBefore(i) + m <= pages[i].addr}
  OBVIOUS
<1>4. a = IF pages = <<>> THEN Base
          ELSE IF gaps # {} THEN EndBefore(Min(gaps))
          ELSE IF EndBefore(n + 1) + m <= Base + Capacity THEN EndBefore(n + 1) ELSE None
  BY <1>1, <1>3 DEF FindNextAddress
<1>5. Base \in Nat /\ Capacity \in Nat
  BY AllocatorAssumption
<1>6. \A i \in 1 .. n : pages[i].addr \in Nat /\ End(pages[i]) \in Nat /\ pages[i].addr < End(pages[i])
  BY <1>2, GoodPage
<1>7. \A i, j \in 1 .. n : i < j => End(pages[i]) <= pages[j].addr
  BY <1>2 DEF Good, Ordered
<1>8. InMemory(pages) => \A i \in 1 .. n : Base <= pages[i].addr /\ End(pages[i]) <= Base + Capacity
  BY <1>2 DEF InMemory
<1>9. CASE pages = <<>>
  <2>1. a = Base /\ DOMAIN pages = {}
    BY <1>2, <1>4, <1>9
  <2> QED BY <1>5, <1>9, <2>1
<1>10. CASE pages # <<>> /\ gaps # {}
  <2>1. PICK g : g = Min(gaps)
    OBVIOUS
  <2>2. gaps \in SUBSET Nat
    BY <1>2, <1>3
  <2>3. g \in gaps
    BY <1>10, <2>1, <2>2, MinNat
  <2>4. g \in 1 .. n /\ EndBefore(g) + m <= pages[g].addr /\ a = EndBefore(g)
    BY <1>2, <1>3, <1>4, <1>10, <2>1, <2>3
  <2>5. a \in Nat
    BY <1>2, <2>4
  <2>6. ASSUME NEW i \in 1 .. n PROVE End(pages[i]) <= a \/ a + m <= pages[i].addr
    <3>1. CASE i < g
      <4>1. g \in 2 .. n + 1 /\ g - 1 \in 1 .. n
        BY <1>2, <2>4, <2>6, <3>1
      <4>2. a = End(pages[g - 1])
        BY <1>2, <2>4, <4>1
      <4>3. i = g - 1 \/ End(pages[i]) <= pages[g - 1].addr
        BY <1>2, <1>7, <2>4, <2>6, <3>1, <4>1
      <4> QED BY <1>6, <2>6, <4>1, <4>2, <4>3
    <3>2. CASE i >= g
      <4>1. i = g \/ End(pages[g]) <= pages[i].addr
        BY <1>2, <1>7, <2>4, <2>6, <3>2
      <4> QED BY <1>6, <2>4, <2>5, <2>6, <4>1
    <3> QED BY <1>2, <2>4, <2>6, <3>1, <3>2
  <2>7. ASSUME InMemory(pages) PROVE Base <= a /\ a + m <= Base + Capacity
    <3>1. a + m <= Base + Capacity
      BY <1>5, <1>6, <1>8, <2>4, <2>5, <2>7
    <3>2. CASE g = 1
      BY <1>2, <1>5, <2>4, <3>1, <3>2
    <3>3. CASE g # 1
      <4>1. g \in 2 .. n + 1 /\ g - 1 \in 1 .. n
        BY <1>2, <2>4, <3>3
      <4>2. a = End(pages[g - 1])
        BY <1>2, <2>4, <4>1
      <4> QED BY <1>5, <1>6, <1>8, <2>7, <3>1, <4>1, <4>2
    <3> QED BY <3>2, <3>3
  <2> QED BY <1>2, <2>5, <2>6, <2>7
<1>11. CASE pages # <<>> /\ gaps = {}
  <2>1. n \in 1 .. n /\ n + 1 \in 2 .. n + 1 /\ n + 1 - 1 = n
    BY <1>2, <1>11
  <2>2. a = End(pages[n]) /\ a + m <= Base + Capacity
    BY <1>2, <1>4, <1>11, <2>1
  <2>3. ASSUME NEW i \in 1 .. n PROVE End(pages[i]) <= a
    <3>1. i = n \/ End(pages[i]) <= pages[n].addr
      BY <1>2, <1>7, <2>1, <2>3
    <3> QED BY <1>6, <2>1, <2>2, <2>3, <3>1
  <2>4. a \in Nat /\ (InMemory(pages) => Base <= a)
    BY <1>5, <1>6, <1>8, <2>1, <2>2
  <2> QED BY <1>2, <2>2, <2>3, <2>4
<1> QED BY <1>9, <1>10, <1>11

\* When it returns nothing, a page would meet some page wherever it is put.
LEMMA NoRoom ==
  ASSUME Good(pages), NEW m \in Nat, FindNextAddress(m) = None,
         NEW a \in Base .. Base + Capacity - m
  PROVE  \E i \in DOMAIN pages : Meet([addr |-> a, size |-> m], pages[i])
<1>1. PICK n : n = Len(pages)
  OBVIOUS
<1>2. /\ n \in Nat /\ DOMAIN pages = 1 .. n /\ ((pages = <<>>) <=> (n = 0))
      /\ EndBefore(1) = Base
      /\ \A i \in 2 .. n + 1 : i - 1 \in DOMAIN pages /\ EndBefore(i) = End(pages[i - 1])
      /\ \A i \in 1 .. n + 1 : EndBefore(i) \in Nat
  BY <1>1, Gaps
<1>3. Base \in Nat /\ Capacity \in Nat /\ a \in Nat /\ Base <= a /\ a + m <= Base + Capacity
  BY AllocatorAssumption
<1>4. /\ n # 0
      /\ \A i \in 1 .. n : ~(EndBefore(i) + m <= pages[i].addr)
      /\ ~(EndBefore(n + 1) + m <= Base + Capacity)
  <2>1. PICK gaps : gaps = {i \in DOMAIN pages : EndBefore(i) + m <= pages[i].addr}
    OBVIOUS
  <2>2. None = IF pages = <<>> THEN Base
               ELSE IF gaps # {} THEN EndBefore(Min(gaps))
               ELSE IF EndBefore(n + 1) + m <= Base + Capacity THEN EndBefore(n + 1) ELSE None
    BY <1>1, <2>1 DEF FindNextAddress
  <2>3. None \notin Nat
    BY DEF None
  <2>4. pages # <<>>
    BY <1>3, <2>2, <2>3
  <2>5. gaps = {}
    <3>1. ASSUME gaps # {} PROVE FALSE
      <4>1. Min(gaps) \in gaps
        <5>1. gaps \in SUBSET Nat
          BY <1>2, <2>1
        <5> QED BY <3>1, <5>1, MinNat
      <4>2. EndBefore(Min(gaps)) \in Nat
        BY <1>2, <2>1, <4>1
      <4> QED BY <2>2, <2>3, <2>4, <3>1, <4>2
    <3> QED BY <3>1
  <2>6. EndBefore(n + 1) \in Nat
    BY <1>2
  <2> QED BY <1>2, <2>1, <2>2, <2>3, <2>4, <2>5, <2>6
<1>5. \A i \in 1 .. n : pages[i].addr \in Nat /\ End(pages[i]) \in Nat /\ pages[i].addr < End(pages[i])
  BY <1>2, GoodPage
<1>6. ASSUME \A i \in 1 .. n : End(pages[i]) <= a \/ a + m <= pages[i].addr
      PROVE  FALSE
  <2>0. PICK above : above = {i \in 1 .. n : a + m <= pages[i].addr}
    OBVIOUS
  <2>1. above \in SUBSET Nat /\ \A i \in 1 .. n : i \in above <=> a + m <= pages[i].addr
    BY <1>2, <2>0
  <2>2. CASE above = {}
    <3>1. n \in 1 .. n /\ n + 1 \in 2 .. n + 1 /\ n + 1 - 1 = n
      BY <1>2, <1>4
    <3>2. EndBefore(n + 1) = End(pages[n]) /\ End(pages[n]) <= a
      <4>1. EndBefore(n + 1) = End(pages[n])
        BY <1>2, <3>1
      <4> QED BY <1>6, <2>1, <2>2, <3>1, <4>1
    <3> QED BY <1>3, <1>4, <1>5, <3>1, <3>2
  <2>3. CASE above # {}
    <3>1. PICK g \in above : \A i \in above : g <= i
      BY <2>1, <2>3, LeastNat
    <3>2. g \in 1 .. n /\ a + m <= pages[g].addr
      BY <2>0, <3>1
    <3>3. EndBefore(g) <= a
      <4>1. CASE g = 1
        BY <1>2, <1>3, <4>1
      <4>2. CASE g # 1
        <5>1. g \in 2 .. n + 1 /\ g - 1 \in 1 .. n /\ ~(g <= g - 1)
          BY <1>2, <3>2, <4>2
        <5>2. EndBefore(g) = End(pages[g - 1]) /\ g - 1 \notin above
          BY <1>2, <3>1, <5>1
        <5> QED BY <1>6, <2>1, <5>1, <5>2
      <4> QED BY <4>1, <4>2
    <3>4. EndBefore(g) \in Nat /\ pages[g].addr \in Nat
      BY <1>2, <1>5, <3>2
    <3> QED BY <1>3, <1>4, <3>2, <3>3, <3>4
  <2> QED BY <2>2, <2>3
<1>7. PICK i \in 1 .. n : ~(End(pages[i]) <= a) /\ ~(a + m <= pages[i].addr)
  BY <1>6
<1>8. PICK b : b = [addr |-> a, size |-> m]
  OBVIOUS
<1>9. b.addr = a /\ End(b) = a + m
  BY <1>8 DEF End
<1>10. Meet(b, pages[i])
  BY <1>3, <1>5, <1>7, <1>9 DEF Meet
<1> QED BY <1>2, <1>8, <1>10

----------------------------------------------------------------------------
(* Steps.                                                                  *)

(***************************************************************************)
(* What the callers ask for lies in the memory.  reserve does not compare  *)
(* the region with baseAddress_, nor findNextAddress the first page with   *)
(* capacity_; only the bounds of blocks depend on this.                    *)
(***************************************************************************)
RequestsFit ==
  /\ \A r \in Reservations : r.addr >= Base
  /\ \A size \in Sizes : AlignSize(AlignSize(size, BlockAlign), PageAlign) <= Capacity

\* A step hands out b, or takes b back.
Adds(b) ==
  /\ b \in Blk /\ b \notin UsedOf(pages) /\ UsedOf(pages') = UsedOf(pages) \cup {b}
  /\ allocated' = allocated + b.size
  /\ Good(pages') /\ (RequestsFit /\ InMemory(pages) => InMemory(pages'))

Removes(b) ==
  /\ b \in UsedOf(pages) /\ UsedOf(pages') = UsedOf(pages) \ {b}
  /\ allocated' = allocated - b.size
  /\ Good(pages') /\ (InMemory(pages) => InMemory(pages'))

Sized(size) ==
  LET n == AlignSize(size, BlockAlign)
      m == AlignSize(n, PageAlign)
  IN size \in Nat /\ (size > 0 => n \in Whole /\ m \in Whole /\ n <= m)

LEMMA SizesAligned ==
  ASSUME NEW size \in Sizes
  PROVE  Sized(size)
<1>1. size \in Nat /\ BlockAlign \in Nat \ {0} /\ PageAlign \in Nat \ {0}
  BY AllocatorAssumption
<1>2. PICK n : n = AlignSize(size, BlockAlign)
  OBVIOUS
<1>3. PICK m : m = AlignSize(n, PageAlign)
  OBVIOUS
<1>4. ASSUME size > 0 PROVE n \in Whole /\ m \in Whole /\ n <= m
  <2>1. n \in Whole
    BY <1>1, <1>2, <1>4, AlignedWhole
  <2>2. n \in Nat \ {0}
    BY <2>1, WholeNat
  <2> QED BY <1>1, <1>3, <2>1, <2>2, AlignedWhole, Aligns
<1> QED BY <1>1, <1>2, <1>3, <1>4 DEF Sized

LEMMA UsedIn ==
  ASSUME NEW P, NEW b
  PROVE  b \in UsedOf(P) <=> \E i \in DOMAIN P : b \in P[i].used
BY DEF UsedOf

\* A page that is made for a block has that block first.
LEMMA FirstBlock ==
  ASSUME NEW a \in Nat, NEW m \in Whole, NEW n \in Whole, n <= m,
         NEW p, p = NewPage(a, m), NEW q, q = PageAllocate(p, n, FindFreeBlock(p, n))
  PROVE  /\ PageOK(q) /\ q.addr = a /\ q.size = m /\ End(q) = a + m
         /\ q.used = {[addr |-> a, size |-> n]}
<1>1. PICK b : b = FindFreeBlock(p, n)
  OBVIOUS
<1>2. PageOK(p) /\ p.addr = a /\ p.size = m /\ p.used = {} /\ Free(p) = {[addr |-> a, size |-> m]}
  BY NewPageOK
<1>3. p.freeS \in Seq(Blk) /\ SortedS(p.freeS) /\ ToSet(p.freeS) = Free(p) /\ n \in Nat
  BY <1>2, PageLists, WholeNat DEF Lists, Free
<1>4. \/ b = NoBlock /\ \A c \in ToSet(p.freeS) : c.size < n
      \/ b \in ToSet(p.freeS)
  BY <1>1, <1>3, FindsBest
<1>5. b = [addr |-> a, size |-> m]
  <2>1. [addr |-> a, size |-> m].size = m /\ m \in Nat
    BY WholeNat
  <2> QED BY <1>2, <1>3, <1>4, <2>1
<1>6. b \in Free(p) /\ b.size = m /\ b.addr = a
  BY <1>2, <1>5
<1>7. PICK x : x = [addr |-> b.addr, size |-> n]
  OBVIOUS
<1>8. /\ PageOK(q) /\ q.addr = p.addr /\ q.size = p.size
      /\ q.used = p.used \cup {x}
  BY <1>1, <1>2, <1>6, <1>7, PageAllocates
<1> QED BY <1>2, <1>6, <1>7, <1>8 DEF End

\* A page with a used block that is made apart from the others
LEMMA NewPageStep ==
  ASSUME Good(pages), NEW a \in Nat, NEW m \in Whole, NEW n \in Whole, n <= m,
         \A i \in DOMAIN pages : End(pages[i]) <= a \/ a + m <= pages[i].addr,
         RequestsFit /\ InMemory(pages) => Base <= a /\ a + m <= Base + Capacity,
         NEW p, p = NewPage(a, m),
         pages' = CreatePage(pages, PageAllocate(p, n, FindFreeBlock(p, n))),
         allocated' = allocated + n
  PROVE  Adds([addr |-> a, size |-> n])
<1>1. PICK q : q = PageAllocate(p, n, FindFreeBlock(p, n))
  OBVIOUS
<1>2. PICK b : b = [addr |-> a, size |-> n]
  OBVIOUS
<1>3. PageOK(q) /\ q.addr = a /\ q.size = m /\ End(q) = a + m /\ q.used = {b}
  BY <1>1, <1>2, FirstBlock
<1>4. PICK P, Q : P = pages /\ Q = pages'
  OBVIOUS
<1>5. /\ Good(Q)
      /\ InMemory(P) /\ Base <= q.addr /\ End(q) <= Base + Capacity => InMemory(Q)
      /\ UsedOf(Q) = UsedOf(P) \cup {b}
  <2>1. \A i \in DOMAIN P : End(P[i]) <= q.addr \/ End(q) <= P[i].addr
    BY <1>3, <1>4
  <2>2. Good(P) /\ q.used # {} /\ Q = CreatePage(P, q)
    BY <1>1, <1>3, <1>4
  <2>3. Creation(P, q, Q)
    BY <1>3, <2>1, <2>2 DEF Creation
  <2> QED BY <1>3, <2>3, Creates
<1>6. b \in Blk /\ b.addr = a /\ b.size = n /\ End(b) = a + n
  BY <1>2 DEF Blk, End
<1>7. b \notin UsedOf(P)
  <2>1. ASSUME NEW i \in DOMAIN P, b \in P[i].used PROVE FALSE
    <3>1. /\ P[i].addr \in Nat /\ End(P[i]) \in Nat /\ End(b) \in Nat /\ b.addr < End(b)
          /\ P[i].addr <= b.addr /\ End(b) <= End(P[i])
      BY <1>4, <2>1, GoodPage
    <3>2. End(P[i]) <= a \/ a + m <= P[i].addr
      BY <1>4
    <3>3. m \in Nat /\ m > 0
      BY WholeNat
    <3> QED BY <1>6, <3>1, <3>2, <3>3
  <2> QED BY <2>1 DEF UsedOf
<1> QED BY <1>2, <1>3, <1>4, <1>5, <1>6, <1>7 DEF Adds

LEMMA AllocatePageStep ==
  ASSUME Good(pages), NEW size \in Sizes, AllocatePage(size)
  PROVE  \E b : Adds(b)
<1>1. PICK n : n = AlignSize(size, BlockAlign)
  OBVIOUS
<1>2. PICK m : m = AlignSize(n, PageAlign)
  OBVIOUS
<1>3. PICK a : a = FindNextAddress(m)
  OBVIOUS
<1>4. PICK p : p = NewPage(a, m)
  OBVIOUS
<1>5. /\ size > 0 /\ a # None
      /\ pages' = CreatePage(pages, PageAllocate(p, n, FindFreeBlock(p, n)))
      /\ allocated' = allocated + n
  BY <1>1, <1>2, <1>3, <1>4 DEF AllocatePage
<1>6. n \in Whole /\ m \in Whole /\ n <= m /\ m \in Nat
  BY <1>1, <1>2, <1>5, SizesAligned, WholeNat DEF Sized
<1>7. /\ a \in Nat
      /\ \A i \in DOMAIN pages : End(pages[i]) <= a \/ a + m <= pages[i].addr
      /\ InMemory(pages) => Base <= a
      /\ InMemory(pages) /\ pages # <<>> => a + m <= Base + Capacity
  BY <1>3, <1>5, <1>6, NextAddress
<1>8. RequestsFit /\ InMemory(pages) => Base <= a /\ a + m <= Base + Capacity
  <2>1. pages = <<>> => a = Base
    BY <1>3 DEF FindNextAddress
  <2>2. RequestsFit => m <= Capacity
    BY <1>1, <1>2 DEF RequestsFit
  <2>3. Base \in Nat /\ Capacity \in Nat
    BY AllocatorAssumption
  <2> QED BY <1>6, <1>7, <2>1, <2>2, <2>3
<1> QED BY <1>4, <1>5, <1>6, <1>7, <1>8, NewPageStep

LEMMA ReserveStep ==
  ASSUME Good(pages), NEW r \in Reservations, Reserve(r.addr, r.size)
  PROVE  \E b : Adds(b)
<1>1. PICK a, n : a = r.addr /\ n = AlignSize(r.size, PageAlign)
  OBVIOUS
<1>2. PICK p : p = NewPage(a, n)
  OBVIOUS
<1>3. /\ r.size > 0 /\ a + n <= Base + Capacity /\ ~HasPageOverlap(a, n)
      /\ pages' = CreatePage(pages, PageAllocate(p, n, FindFreeBlock(p, n)))
      /\ allocated' = allocated + n
  BY <1>1, <1>2 DEF Reserve
<1>4. a \in Nat /\ r.size \in Nat
  BY <1>1, AllocatorAssumption
<1>5. n \in Whole /\ n \in Nat
  BY <1>1, <1>3, <1>4, AlignedWhole, WholeNat
<1>6. ASSUME NEW i \in DOMAIN pages PROVE End(pages[i]) <= a \/ a + n <= pages[i].addr
  <2>1. ~(a <= End(pages[i]) /\ a + n >= pages[i].addr)
    BY <1>3 DEF HasPageOverlap
  <2> QED BY <1>4, <1>5, <2>1, GoodPage
<1>7. RequestsFit => Base <= a
  BY <1>1, <1>4, AllocatorAssumption DEF RequestsFit
<1>8. RequestsFit /\ InMemory(pages) => Base <= a /\ a + n <= Base + Capacity
  BY <1>3, <1>7
<1>9. n <= n
  BY <1>5
<1>10. Adds([addr |-> a, size |-> n])
  BY <1>2, <1>3, <1>4, <1>5, <1>6, <1>8, <1>9, NewPageStep
<1> QED BY <1>10

LEMMA AllocateBlockStep ==
  ASSUME Good(pages), NEW size \in Sizes, AllocateBlock(size)
  PROVE  \E b : Adds(b)
<1>1. PICK P, Q : P = pages /\ Q = pages'
  OBVIOUS
<1>2. PICK n : n = AlignSize(size, BlockAlign)
  OBVIOUS
<1>3. PICK fit : fit = {j \in DOMAIN P : FindFreeBlock(P[j], n) # NoBlock}
  OBVIOUS
<1>4. PICK i : i = Min(fit)
  OBVIOUS
<1>5. PICK b : b = FindFreeBlock(P[i], n)
  OBVIOUS
<1>6. /\ size > 0 /\ fit # {}
      /\ Q = [P EXCEPT ![i] = PageAllocate(P[i], n, b)]
      /\ allocated' = allocated + n
  BY <1>1, <1>2, <1>3, <1>4, <1>5 DEF AllocateBlock
<1>7. n \in Whole /\ n \in Nat
  BY <1>2, <1>6, SizesAligned, WholeNat DEF Sized
<1>8. Good(P) /\ i \in DOMAIN P /\ b # NoBlock
  <2>1. \A j \in DOMAIN P : j \in Nat
    BY <1>1, GoodPage
  <2>2. fit \in SUBSET Nat
    BY <1>3, <2>1
  <2>3. i \in fit
    BY <1>4, <1>6, <2>2, MinNat
  <2> QED BY <1>1, <1>3, <1>5, <2>3
<1>9. PageOK(P[i]) /\ P[i].used # {}
  BY <1>8 DEF Good
<1>10. b \in Free(P[i]) /\ n <= b.size
  <2>1. P[i].freeS \in Seq(Blk) /\ SortedS(P[i].freeS) /\ ToSet(P[i].freeS) = Free(P[i])
    BY <1>9, PageLists DEF Lists, Free
  <2> QED BY <1>5, <1>7, <1>8, <2>1, FindsBest
<1>11. PICK q : q = PageAllocate(P[i], n, b)
  OBVIOUS
<1>12. PICK x : x = [addr |-> b.addr, size |-> n]
  OBVIOUS
<1>13. /\ PageOK(q) /\ q.addr = P[i].addr /\ q.size = P[i].size
       /\ q.used = P[i].used \cup {x} /\ x \notin P[i].used
  BY <1>7, <1>9, <1>10, <1>11, <1>12, PageAllocates
<1>14. Q = [P EXCEPT ![i] = q] /\ q.used # {}
  BY <1>6, <1>11, <1>13
<1>15. /\ Good(Q) /\ (InMemory(P) => InMemory(Q))
       /\ UsedOf(Q) = (UsedOf(P) \ P[i].used) \cup q.used
  <2>1. Change(P, i, q, Q)
    BY <1>8, <1>13, <1>14 DEF Change
  <2> QED BY <2>1, Changes
<1>16. x \in Blk /\ x.size = n
  <2>1. b \in Blk
    BY <1>9, <1>10, PageFields DEF PageOK
  <2> QED BY <1>7, <1>12, <2>1 DEF Blk
<1>17. x \notin UsedOf(P)
  <2>1. ASSUME NEW j \in DOMAIN P, x \in P[j].used PROVE FALSE
    <3>1. j # i
      BY <1>13, <2>1
    <3>2. j \in DOMAIN Q /\ i \in DOMAIN Q /\ Q[j] = P[j] /\ Q[i] = q
      BY <1>8, <1>14, <3>1
    <3> QED BY <1>13, <1>15, <2>1, <3>1, <3>2, UsedApart
  <2> QED BY <2>1 DEF UsedOf
<1>18. UsedOf(Q) = UsedOf(P) \cup {x}
  <2>1. P[i].used \subseteq UsedOf(P)
    BY <1>8 DEF UsedOf
  <2> QED BY <1>13, <1>15, <2>1
<1> QED BY <1>1, <1>6, <1>15, <1>16, <1>17, <1>18 DEF Adds

LEMMA ReleaseStep ==
  ASSUME Good(pages), NEW addr, Release(addr)
  PROVE  \E b : Removes(b)
<1>1. PICK P, Q : P = pages /\ Q = pages'
  OBVIOUS
<1>0. PICK i \in DOMAIN P :
        \E c \in P[i].used :
          /\ Q = IF PageRelease(P[i], c).used = {} THEN RemoveAt(P, i)
                 ELSE [P EXCEPT ![i] = PageRelease(P[i], c)]
          /\ allocated' = allocated - c.size
  BY <1>1 DEF Release
<1>2. PICK b \in P[i].used :
        /\ Q = IF PageRelease(P[i], b).used = {} THEN RemoveAt(P, i)
               ELSE [P EXCEPT ![i] = PageRelease(P[i], b)]
        /\ allocated' = allocated - b.size
  BY <1>0
<1>3. PICK q : q = PageRelease(P[i], b)
  OBVIOUS
<1>4. Good(P) /\ PageOK(P[i])
  BY <1>1, <1>2 DEF Good
<1>5. PageOK(q) /\ q.addr = P[i].addr /\ q.size = P[i].size /\ q.used = P[i].used \ {b}
  BY <1>2, <1>3, <1>4, PageReleases
<1>6. P[i].used \subseteq UsedOf(P)
  BY <1>2 DEF UsedOf
<1>7. CASE q.used = {}
  <2>1. Good(Q) /\ (InMemory(P) => InMemory(Q)) /\ UsedOf(Q) = UsedOf(P) \ P[i].used
    BY <1>2, <1>3, <1>4, <1>7, Deletes
  <2>2. P[i].used = {b}
    BY <1>2, <1>5, <1>7
  <2> QED BY <1>1, <1>2, <1>6, <2>1, <2>2 DEF Removes
<1>8. CASE q.used # {}
  <2>1. Q = [P EXCEPT ![i] = q]
    BY <1>2, <1>3, <1>8
  <2>2. /\ Good(Q) /\ (InMemory(P) => InMemory(Q))
        /\ UsedOf(Q) = (UsedOf(P) \ P[i].used) \cup q.used
    <3>1. Change(P, i, q, Q)
      BY <1>2, <1>4, <1>5, <1>8, <2>1 DEF Change
    <3> QED BY <3>1, Changes
  <2>3. UsedOf(Q) = UsedOf(P) \ {b}
    <3>1. ASSUME NEW c \in UsedOf(P) \ P[i].used PROVE c # b
      BY <1>2, <3>1
    <3> QED BY <1>2, <1>5, <1>6, <2>2, <3>1
  <2> QED BY <1>1, <1>2, <1>6, <2>2, <2>3 DEF Removes
<1> QED BY <1>7, <1>8

----------------------------------------------------------------------------
(* The theorems.                                                           *)

IInv == Good(pages) /\ (RequestsFit => InMemory(pages))

\* What a step does to the used blocks: one more, one less, or none.
LEMMA Steps ==
  ASSUME Good(pages), [Next]_vars
  PROVE  \/ \E b : Adds(b)
         \/ \E b : Removes(b)
         \/ UNCHANGED <<pages, allocated>>
<1>1. CASE UNCHANGED vars
  BY <1>1 DEF vars
<1>2. ASSUME NEW size \in Sizes, AllocateBlock(size) PROVE \E b : Adds(b)
  BY <1>2, AllocateBlockStep
<1>3. ASSUME NEW size \in Sizes, AllocatePage(size) PROVE \E b : Adds(b)
  BY <1>3, AllocatePageStep
<1>4. ASSUME NEW size \in Sizes, AllocateFails(size) PROVE UNCHANGED <<pages, allocated>>
  BY <1>4 DEF AllocateFails
<1>5. ASSUME NEW addr \in Addrs, Release(addr) PROVE \E b : Removes(b)
  BY <1>5, ReleaseStep
<1>6. ASSUME NEW addr \in Addrs, ReleaseFails(addr) PROVE UNCHANGED <<pages, allocated>>
  BY <1>6 DEF ReleaseFails
<1>7. ASSUME NEW r \in Reservations, Reserve(r.addr, r.size) PROVE \E b : Adds(b)
  BY <1>7, ReserveStep
<1>8. ASSUME NEW r \in Reservations, ReserveFails(r.addr, r.size) PROVE UNCHANGED <<pages, allocated>>
  BY <1>8 DEF ReserveFails
<1> QED BY <1>1, <1>2, <1>3, <1>4, <1>5, <1>6, <1>7, <1>8 DEF Next

\* No page is as good as it gets.
LEMMA Empty ==
  ASSUME Init
  PROVE  IInv /\ UsedOf(pages) = {}
<1>1. pages = <<>> /\ <<>> \in Seq(PageRec) /\ DOMAIN pages = {}
  BY DEF Init
<1> QED BY <1>1 DEF IInv, Good, Ordered, InMemory, UsedOf

LEMMA Preserved ==
  ASSUME IInv, [Next]_vars
  PROVE  IInv'
<1>1. CASE \E b : Adds(b)
  BY <1>1 DEF IInv, Adds, RequestsFit
<1>2. CASE \E b : Removes(b)
  BY <1>2 DEF IInv, Removes, RequestsFit
<1>3. CASE UNCHANGED <<pages, allocated>>
  BY <1>3 DEF IInv, RequestsFit
<1> QED BY <1>1, <1>2, <1>3, Steps DEF IInv

(***************************************************************************)
(* Whatever is allocated, released and reserved, in any order: the pages   *)
(* are well formed, and in the memory if the requests are.                 *)
(***************************************************************************)
THEOREM Invariance == Spec => []IInv
BY Empty, Preserved, PTL DEF Spec

(***************************************************************************)
(* The list of pages is sorted by address and no two pages overlap.        *)
(***************************************************************************)
THEOREM PagesStayInOrder == Spec => []PagesInOrder
<1>1. IInv => PagesInOrder
  BY DEF IInv, Good, Ordered, PagesInOrder
<1> QED BY <1>1, Invariance, PTL

(***************************************************************************)
(* Splits and merges lose and duplicate no byte of a page, and leave no    *)
(* two free blocks that touch.                                             *)
(***************************************************************************)
THEOREM PagesStayTiled == Spec => []PagesTiled
<1>1. ASSUME IInv, NEW i \in DOMAIN pages
      PROVE  LET p == pages[i]  free == ToSet(p.freeM) IN
               /\ \A b, c \in p.used \cup free : b = c \/ ~Meet(b, c)
               /\ p.used \cap free = {}
               /\ \A b \in p.used \cup free : b.addr >= p.addr /\ End(b) <= End(p)
               /\ \A a \in p.addr .. End(p) - 1 :
                    \E b \in p.used \cup free : b.addr <= a /\ a < End(b)
               /\ \A b, c \in free : End(b) # c.addr
               /\ p.used # {}
  <2>1. PICK p : p = pages[i]
    OBVIOUS
  <2>2. PageOK(p) /\ p.used # {}
    BY <1>1, <2>1 DEF IInv, Good
  <2>3. /\ \A b, c \in p.used \cup Free(p) : b = c \/ ~Meet(b, c)
        /\ p.used \cap Free(p) = {}
        /\ \A b \in p.used \cup Free(p) : Within(b, p)
        /\ \A a \in p.addr .. End(p) - 1 : \E b \in p.used \cup Free(p) : Has(b, a)
    BY <2>2 DEF PageOK, Tiled
  <2>4. /\ p.addr \in Nat /\ End(p) \in Nat /\ p.freeM \in Seq(Blk) /\ SortedM(p.freeM)
        /\ p.used \subseteq Blk /\ Free(p) \subseteq Blk
    BY <2>2, PageFields DEF PageOK, ListsOK
  <2>5. ASSUME NEW b \in p.used \cup Free(p)
        PROVE  b.addr >= p.addr /\ End(b) <= End(p)
    <3>1. b.addr \in Nat /\ Within(b, p)
      BY <2>3, <2>4, BlkNat
    <3> QED BY <2>4, <3>1 DEF Within
  <2>6. ASSUME NEW b \in Free(p), NEW c \in Free(p) PROVE End(b) # c.addr
    <3>1. /\ b.addr \in Nat /\ End(b) \in Nat /\ b.addr < End(b)
          /\ c.addr \in Nat /\ End(c) \in Nat /\ c.addr < End(c)
      BY <2>4, BlkNat
    <3>2. b = c \/ End(b) < c.addr \/ End(c) < b.addr
      <4>1. PICK M : M = p.freeM
        OBVIOUS
      <4>2. M \in Seq(Blk) /\ SortedM(M) /\ b \in ToSet(M) /\ c \in ToSet(M)
        BY <2>4, <4>1 DEF Free
      <4>3. b # c => End(b) < c.addr \/ End(c) < b.addr
        BY <4>2, FreeApart
      <4> QED BY <4>3
    <3> QED BY <3>1, <3>2
  <2>7. \A a \in p.addr .. End(p) - 1 :
          \E b \in p.used \cup Free(p) : b.addr <= a /\ a < End(b)
    BY <2>3 DEF Has
  <2> QED BY <2>1, <2>2, <2>3, <2>5, <2>6, <2>7 DEF Free
<1>2. IInv => PagesTiled
  BY <1>1 DEF PagesTiled
<1> QED BY <1>2, Invariance, PTL

\* A list in which an address occurs once is as long as it has blocks.
LEMMA DistinctLength ==
  ASSUME NEW list \in Seq(Blk), Distinct(list)
  PROVE  Len(list) = Cardinality(ToSet(list))
<1>1. /\ Len(list) \in Nat /\ DOMAIN list = 1 .. Len(list)
      /\ ToSet(list) = {list[i] : i \in 1 .. Len(list)}
  BY Elements
<1>2. PICK f : f = [i \in 1 .. Len(list) |-> list[i]]
  OBVIOUS
<1>3. f \in Bijection(1 .. Len(list), ToSet(list))
  <2>1. f \in [1 .. Len(list) -> ToSet(list)]
    BY <1>1, <1>2
  <2>2. \A i, j \in 1 .. Len(list) : f[i] = f[j] => i = j
    BY <1>1, <1>2 DEF Distinct
  <2>3. \A b \in ToSet(list) : \E i \in 1 .. Len(list) : f[i] = b
    BY <1>1, <1>2
  <2> QED BY <2>1, <2>2, <2>3 DEF Bijection, Injection, Surjection, IsInjective
<1>4. IsFiniteSet(1 .. Len(list)) /\ Cardinality(1 .. Len(list)) = Len(list)
  BY <1>1, FS_Interval
<1>5. ExistsBijection(1 .. Len(list), ToSet(list))
  BY <1>3 DEF ExistsBijection
<1> QED BY <1>4, <1>5, FS_Bijection

(***************************************************************************)
(* The lists by size and by address hold the same free blocks, each once,  *)
(* and each in the order it promises.                                      *)
(***************************************************************************)
THEOREM FreeListsStayEqual == Spec => []FreeListsAgree
<1>1. ASSUME IInv, NEW i \in DOMAIN pages
      PROVE  LET p == pages[i] IN
               /\ ToSet(p.freeS) = ToSet(p.freeM)
               /\ Len(p.freeS) = Cardinality(ToSet(p.freeS)) /\ Len(p.freeM) = Len(p.freeS)
               /\ \A j, k \in DOMAIN p.freeS : j < k => /\ p.freeS[j].size >= p.freeS[k].size
                                                      /\ p.freeM[j].addr < p.freeM[k].addr
  <2>1. PICK p : p = pages[i]
    OBVIOUS
  <2>2. PICK M, S : M = p.freeM /\ S = p.freeS
    OBVIOUS
  <2>3. /\ M \in Seq(Blk) /\ S \in Seq(Blk)
        /\ SortedM(M) /\ SortedS(S) /\ Distinct(S) /\ Distinct(M)
        /\ ToSet(S) = ToSet(M)
    BY <1>1, <2>1, <2>2, PageLists, DistinctM DEF IInv, Good, Lists
  <2>4. Len(S) = Cardinality(ToSet(S)) /\ Len(M) = Len(S)
    BY <2>3, DistinctLength
  <2>5. DOMAIN S = 1 .. Len(S) /\ DOMAIN M = DOMAIN S /\ \A j \in DOMAIN M : M[j] \in Blk
    BY <2>3, <2>4, Elements
  <2>6. ASSUME NEW j \in DOMAIN S, NEW k \in DOMAIN S, j < k
        PROVE  S[j].size >= S[k].size /\ M[j].addr < M[k].addr
    <3>1. End(M[j]) < M[k].addr /\ S[j].size >= S[k].size
      BY <2>3, <2>5, <2>6 DEF SortedM, SortedS
    <3>2. M[j] \in Blk /\ M[k] \in Blk
      BY <2>5
    <3>3. M[j].addr \in Nat /\ End(M[j]) \in Nat /\ M[j].addr < End(M[j]) /\ M[k].addr \in Nat
      BY <3>2, BlkNat
    <3> QED BY <3>1, <3>3
  <2> QED BY <2>1, <2>2, <2>3, <2>4, <2>6
<1>2. IInv => FreeListsAgree
  BY <1>1 DEF FreeListsAgree
<1> QED BY <1>2, Invariance, PTL

\* What a lookup in a page finds
LEMMA Lookup ==
  ASSUME NEW P, Good(P), NEW i \in DOMAIN P, NEW n \in Nat, NEW b, b = FindFreeBlock(P[i], n)
  PROVE  \/ b = NoBlock /\ \A c \in Free(P[i]) : c.size < n
         \/ /\ b # NoBlock /\ b \in Free(P[i]) /\ b.size >= n
            /\ \A c \in Free(P[i]) : c.size >= n => b.size <= c.size
<1>1. PageOK(P[i])
  BY DEF Good
<1>2. P[i].freeS \in Seq(Blk) /\ SortedS(P[i].freeS) /\ ToSet(P[i].freeS) = Free(P[i])
  BY <1>1, PageLists DEF Lists, Free
<1> QED BY <1>2, FindsBest

LEMMA RefusedFull ==
  ASSUME IInv, NEW size \in Sizes, AllocateFails(size)
  PROVE  RefusedOnlyWhenFull'
<1>1. PICK n : n = AlignSize(size, BlockAlign)
  OBVIOUS
<1>2. PICK m : m = AlignSize(n, PageAlign)
  OBVIOUS
<1>3. /\ ret' = [op |-> "allocate", size |-> size, addr |-> None, ok |-> FALSE]
      /\ pages' = pages
      /\ size > 0 => /\ \A i \in DOMAIN pages : FindFreeBlock(pages[i], n) = NoBlock
                     /\ FindNextAddress(m) = None
  <2>1. size \in Nat
    BY AllocatorAssumption
  <2> QED BY <1>1, <1>2, <2>1 DEF AllocateFails, Answer
<1>4. ret'.size = size
  BY <1>3
<1>5. ASSUME size > 0
      PROVE  /\ \A i \in DOMAIN pages : \A b \in ToSet(pages[i].freeM) : b.size < n
             /\ \A a \in Base .. Base + Capacity - m :
                  \E i \in DOMAIN pages : Meet([addr |-> a, size |-> m], pages[i])
  <2>1. n \in Nat /\ m \in Nat
    BY <1>1, <1>2, <1>5, SizesAligned, WholeNat DEF Sized
  <2>2. ASSUME NEW i \in DOMAIN pages PROVE \A b \in ToSet(pages[i].freeM) : b.size < n
    <3>1. FindFreeBlock(pages[i], n) = NoBlock
      BY <1>3, <1>5
    <3> QED BY <2>1, <3>1, Lookup DEF IInv, Free
  <2>3. ASSUME NEW a \in Base .. Base + Capacity - m
        PROVE  \E i \in DOMAIN pages : Meet([addr |-> a, size |-> m], pages[i])
    BY <1>3, <1>5, <2>1, NoRoom DEF IInv
  <2> QED BY <2>2, <2>3
<1> QED BY <1>1, <1>2, <1>3, <1>4, <1>5 DEF RefusedOnlyWhenFull

\* What a call answers
LEMMA Answers ==
  ASSUME Next
  PROVE  \/ \E size \in Sizes : /\ AllocateBlock(size) \/ AllocatePage(size)
                                /\ ret'.op = "allocate" /\ ret'.ok = TRUE /\ ret'.size = size
         \/ \E size \in Sizes : /\ AllocateFails(size)
                                /\ ret'.op = "allocate" /\ ret'.ok = FALSE /\ ret'.size = size
         \/ ret'.op = "release"
         \/ ret'.op = "reserve"
<1>1. ASSUME NEW size \in Sizes, AllocateBlock(size)
      PROVE  ret'.op = "allocate" /\ ret'.ok = TRUE /\ ret'.size = size
  BY <1>1 DEF AllocateBlock, Answer
<1>2. ASSUME NEW size \in Sizes, AllocatePage(size)
      PROVE  ret'.op = "allocate" /\ ret'.ok = TRUE /\ ret'.size = size
  BY <1>2 DEF AllocatePage, Answer
<1>3. ASSUME NEW size \in Sizes, AllocateFails(size)
      PROVE  ret'.op = "allocate" /\ ret'.ok = FALSE /\ ret'.size = size
  BY <1>3 DEF AllocateFails, Answer
<1>4. ASSUME NEW addr \in Addrs, Release(addr) \/ ReleaseFails(addr) PROVE ret'.op = "release"
  BY <1>4 DEF Release, ReleaseFails, Answer
<1>5. ASSUME NEW r \in Reservations, Reserve(r.addr, r.size) \/ ReserveFails(r.addr, r.size)
      PROVE  ret'.op = "reserve"
  BY <1>5 DEF Reserve, ReserveFails, Answer
<1> QED BY <1>1, <1>2, <1>3, <1>4, <1>5 DEF Next

(***************************************************************************)
(* An allocation is refused for want of room only when no free block is    *)
(* large enough and no new page would fit anywhere in the memory.          *)
(***************************************************************************)
THEOREM RefusalsAreJustified == Spec => []RefusedOnlyWhenFull
<1>1. Init => RefusedOnlyWhenFull
  BY DEF Init, RefusedOnlyWhenFull
<1>2. IInv /\ RefusedOnlyWhenFull /\ [Next]_vars => RefusedOnlyWhenFull'
  <2> SUFFICES ASSUME IInv, RefusedOnlyWhenFull, [Next]_vars PROVE RefusedOnlyWhenFull'
    OBVIOUS
  <2>1. CASE UNCHANGED vars
    BY <2>1 DEF vars, RefusedOnlyWhenFull
  <2>2. CASE Next
    <3>1. ASSUME NEW size \in Sizes, AllocateFails(size) PROVE RefusedOnlyWhenFull'
      BY <3>1, RefusedFull
    <3>2. ASSUME ret'.op # "allocate" \/ ret'.ok = TRUE PROVE RefusedOnlyWhenFull'
      BY <3>2 DEF RefusedOnlyWhenFull
    <3> QED BY <2>2, <3>1, <3>2, Answers
  <2> QED BY <2>1, <2>2
<1> QED BY <1>1, <1>2, Invariance, PTL DEF Spec

LEMMA TakesBest ==
  ASSUME IInv, NEW size \in Sizes, AllocateBlock(size), ret'.size = size
  PROVE  BestFitStep
<1>1. PICK n : n = AlignSize(size, BlockAlign)
  OBVIOUS
<1>2. PICK found : found = {j \in DOMAIN pages : FindFreeBlock(pages[j], n) # NoBlock}
  OBVIOUS
<1>3. PICK fit : fit = {j \in DOMAIN pages : FreeFor(j, n) # {}}
  OBVIOUS
<1>4. PICK i : i = Min(found)
  OBVIOUS
<1>5. PICK b : b = FindFreeBlock(pages[i], n)
  OBVIOUS
<1>6. size > 0 /\ found # {} /\ ret'.addr = b.addr
  BY <1>1, <1>2, <1>4, <1>5 DEF AllocateBlock, Answer
<1>7. n \in Nat /\ Good(pages)
  BY <1>1, <1>6, SizesAligned, WholeNat DEF Sized, IInv
<1>8. fit = found
  <2>1. ASSUME NEW j \in DOMAIN pages
        PROVE  FreeFor(j, n) # {} <=> FindFreeBlock(pages[j], n) # NoBlock
    <3>1. PICK c : c = FindFreeBlock(pages[j], n)
      OBVIOUS
    <3>2. \/ c = NoBlock /\ \A d \in Free(pages[j]) : d.size < n
          \/ c # NoBlock /\ c \in Free(pages[j]) /\ c.size >= n
      BY <1>7, <3>1, Lookup
    <3>3. \A d \in Free(pages[j]) : d.size \in Nat
      <4>1. pages[j] \in PageRec
        BY <1>7, GoodPage
      <4> QED BY <4>1, PageFields, BlkNat
    <3> QED BY <1>7, <3>1, <3>2, <3>3 DEF FreeFor, Free
  <2> QED BY <1>2, <1>3, <2>1
<1>9. i \in DOMAIN pages /\ b # NoBlock
  <2>1. found \in SUBSET Nat
    BY <1>2, <1>7, GoodPage
  <2>2. i \in found
    BY <1>4, <1>6, <2>1, MinNat
  <2> QED BY <1>2, <1>5, <2>2
<1>10. /\ b \in Free(pages[i]) /\ b.size >= n
       /\ \A c \in Free(pages[i]) : c.size >= n => b.size <= c.size
  BY <1>5, <1>7, <1>9, Lookup
<1>11. b \in FreeFor(Min(fit), n) /\ \A c \in FreeFor(Min(fit), n) : b.size <= c.size
  BY <1>4, <1>8, <1>10 DEF FreeFor, Free
<1>12. n = AlignSize(ret'.size, BlockAlign)
  BY <1>1
<1> QED BY <1>3, <1>6, <1>11, <1>12 DEF BestFitStep

\* A page is opened when there is nothing to take.
LEMMA NothingToTake ==
  ASSUME IInv, NEW size \in Sizes, AllocatePage(size), ret'.size = size
  PROVE  BestFitStep
<1>1. PICK n : n = AlignSize(size, BlockAlign)
  OBVIOUS
<1>2. size > 0 /\ \A i \in DOMAIN pages : FindFreeBlock(pages[i], n) = NoBlock
  BY <1>1 DEF AllocatePage
<1>3. n \in Nat /\ Good(pages)
  BY <1>1, <1>2, SizesAligned, WholeNat DEF Sized, IInv
<1>4. ASSUME NEW i \in DOMAIN pages PROVE FreeFor(i, n) = {}
  <2>1. \A c \in Free(pages[i]) : c.size < n
    BY <1>2, <1>3, Lookup
  <2>2. \A c \in Free(pages[i]) : c.size \in Nat
    <3>1. pages[i] \in PageRec
      BY <1>3, GoodPage
    <3> QED BY <3>1, PageFields, BlkNat
  <2> QED BY <1>3, <2>1, <2>2 DEF FreeFor, Free
<1>5. n = AlignSize(ret'.size, BlockAlign)
  BY <1>1
<1> QED BY <1>4, <1>5 DEF BestFitStep

(***************************************************************************)
(* An allocation takes the smallest free block that fits, of the first     *)
(* page that has one, and opens a new page only when none has.             *)
(***************************************************************************)
THEOREM TakesTheBestFit == Spec => BestFit
<1>1. IInv /\ [Next]_vars => [BestFitStep]_vars
  <2> SUFFICES ASSUME IInv, Next PROVE BestFitStep
    OBVIOUS
  <2>1. ASSUME NEW size \in Sizes, AllocateBlock(size) \/ AllocatePage(size), ret'.size = size
        PROVE  BestFitStep
    BY <2>1, TakesBest, NothingToTake
  <2>2. ASSUME ret'.op # "allocate" \/ ret'.ok = FALSE PROVE BestFitStep
    BY <2>2 DEF BestFitStep
  <2> QED BY <2>1, <2>2, Answers
<1> QED BY <1>1, Invariance, PTL DEF Spec, BestFit

----------------------------------------------------------------------------
(* The bytes of a set of blocks.                                           *)

Total(S) == MapThenSumSet(LAMBDA b : b.size, S)

\* The sum takes some block of the set first, then sums the rest.
Some(S) == CHOOSE b \in S : TRUE

Sums(f, S) ==
  f = [s \in SUBSET S |-> IF s = {} THEN 0 ELSE Some(s).size + f[s \ {Some(s)}]]

LEMMA TotalIs ==
  ASSUME NEW S
  PROVE  Total(S) = (CHOOSE f : Sums(f, S))[S]
BY DEF Total, MapThenSumSet, MapThenFoldSet, Sums, Some

\* The subsets of S of up to n blocks
UpTo(S, n) == {s \in SUBSET S : Cardinality(s) <= n}

SumsTo(f, S, n) ==
  f = [s \in UpTo(S, n) |-> IF s = {} THEN 0 ELSE Some(s).size + f[s \ {Some(s)}]]

LEMMA Smaller ==
  ASSUME NEW S, IsFiniteSet(S), NEW T \in SUBSET S, T # {}
  PROVE  /\ Some(T) \in T
         /\ Cardinality(T) \in Nat /\ Cardinality(T) > 0
         /\ Cardinality(T \ {Some(T)}) = Cardinality(T) - 1
<1>1. Some(T) \in T
  BY DEF Some
<1>2. IsFiniteSet(T)
  BY FS_Subset
<1>3. Cardinality(T) \in Nat /\ Cardinality(T) # 0
  BY <1>2, FS_CardinalityType, FS_EmptySet
<1>4. PICK b : b = Some(T)
  OBVIOUS
<1>5. Cardinality(T \ {b}) = Cardinality(T) - 1
  BY <1>1, <1>2, <1>4, FS_RemoveElement
<1> QED BY <1>1, <1>3, <1>4, <1>5

LEMMA SumsToNone ==
  ASSUME NEW S, IsFiniteSet(S)
  PROVE  \E f : SumsTo(f, S, 0)
<1>1. PICK f : f = [s \in UpTo(S, 0) |-> 0]
  OBVIOUS
<1>2. ASSUME NEW s \in UpTo(S, 0) PROVE s = {}
  <2>1. s \in SUBSET S /\ Cardinality(s) <= 0
    BY DEF UpTo
  <2>2. ASSUME s # {} PROVE FALSE
    <3>1. Cardinality(s) \in Nat /\ Cardinality(s) > 0
      BY <2>1, <2>2, Smaller
    <3> QED BY <2>1, <3>1
  <2> QED BY <2>2
<1>3. \A s \in UpTo(S, 0) : (IF s = {} THEN 0 ELSE Some(s).size + f[s \ {Some(s)}]) = 0
  BY <1>2
<1>4. SumsTo(f, S, 0)
  BY <1>1, <1>3 DEF SumsTo
<1> QED BY <1>4

LEMMA SumsToMore ==
  ASSUME NEW S, IsFiniteSet(S), NEW n \in Nat, NEW h, SumsTo(h, S, n)
  PROVE  \E f : SumsTo(f, S, n + 1)
<1>1. PICK f : f = [s \in UpTo(S, n + 1) |-> IF s = {} THEN 0 ELSE Some(s).size + h[s \ {Some(s)}]]
  OBVIOUS
<1>2. h = [s \in UpTo(S, n) |-> IF s = {} THEN 0 ELSE Some(s).size + h[s \ {Some(s)}]]
  BY DEF SumsTo
<1>3. ASSUME NEW s \in UpTo(S, n) PROVE s \in UpTo(S, n + 1) /\ f[s] = h[s]
  <2>1. s \in SUBSET S /\ Cardinality(s) <= n
    BY DEF UpTo
  <2>2. Cardinality(s) \in Nat
    BY <2>1, FS_Subset, FS_CardinalityType
  <2>3. s \in UpTo(S, n + 1)
    BY <2>1, <2>2 DEF UpTo
  <2> QED BY <1>1, <1>2, <2>3
<1>4. ASSUME NEW s \in UpTo(S, n + 1), s # {} PROVE s \ {Some(s)} \in UpTo(S, n)
  <2>1. s \in SUBSET S /\ Cardinality(s) <= n + 1
    BY DEF UpTo
  <2>2. Cardinality(s) \in Nat /\ Cardinality(s \ {Some(s)}) = Cardinality(s) - 1
    BY <1>4, <2>1, Smaller
  <2> QED BY <2>1, <2>2 DEF UpTo
<1>5. ASSUME NEW s \in UpTo(S, n + 1)
      PROVE  (IF s = {} THEN 0 ELSE Some(s).size + h[s \ {Some(s)}])
             = (IF s = {} THEN 0 ELSE Some(s).size + f[s \ {Some(s)}])
  BY <1>3, <1>4
<1>6. SumsTo(f, S, n + 1)
  BY <1>1, <1>5 DEF SumsTo
<1> QED BY <1>6

LEMMA SumsExist ==
  ASSUME NEW S, IsFiniteSet(S)
  PROVE  \E f : Sums(f, S)
<1>1. PICK bad : bad = {n \in Nat : ~\E f : SumsTo(f, S, n)}
  OBVIOUS
<1>2. bad = {}
  <2> SUFFICES ASSUME bad # {} PROVE FALSE
    OBVIOUS
  <2>1. bad \in SUBSET Nat
    BY <1>1
  <2>2. PICK n \in bad : \A k \in bad : n <= k
    BY <2>1, LeastNat
  <2>3. n \in Nat /\ ~\E f : SumsTo(f, S, n)
    BY <1>1
  <2>4. n # 0
    BY <2>3, SumsToNone
  <2>5. n - 1 \in Nat /\ n - 1 \notin bad /\ n - 1 + 1 = n
    BY <2>2, <2>3, <2>4
  <2>6. PICK h : SumsTo(h, S, n - 1)
    BY <1>1, <2>5
  <2> QED BY <2>3, <2>5, <2>6, SumsToMore
<1>3. Cardinality(S) \in Nat
  BY FS_CardinalityType
<1>4. UpTo(S, Cardinality(S)) = SUBSET S
  BY FS_Subset DEF UpTo
<1>5. PICK f : SumsTo(f, S, Cardinality(S))
  BY <1>1, <1>2, <1>3
<1> QED BY <1>4, <1>5 DEF SumsTo, Sums

LEMMA SumsStep ==
  ASSUME NEW S, NEW f, Sums(f, S), NEW T \in SUBSET S
  PROVE  f[T] = IF T = {} THEN 0 ELSE Some(T).size + f[T \ {Some(T)}]
<1>1. f = [s \in SUBSET S |-> IF s = {} THEN 0 ELSE Some(s).size + f[s \ {Some(s)}]]
  BY DEF Sums
<1> QED BY <1>1

\* Two sums agree on what is in both.
LEMMA SumsAgree ==
  ASSUME NEW S, IsFiniteSet(S), NEW f, Sums(f, S), NEW T \in SUBSET S, NEW g, Sums(g, T)
  PROVE  f[T] = g[T]
<1>1. PICK bad : bad = {n \in Nat : \E U \in SUBSET T : Cardinality(U) = n /\ f[U] # g[U]}
  OBVIOUS
<1>2. ASSUME bad # {} PROVE FALSE
  <2>1. bad \in SUBSET Nat
    BY <1>1
  <2>2. PICK n \in bad : \A k \in bad : n <= k
    BY <1>2, <2>1, LeastNat
  <2>3. PICK U \in SUBSET T : Cardinality(U) = n /\ f[U] # g[U]
    BY <1>1, <2>2
  <2>4. U \in SUBSET S /\ n \in Nat
    BY <1>1, <2>2
  <2>5. U # {}
    BY <2>3, <2>4, SumsStep
  <2>6. PICK V : V = U \ {Some(U)}
    OBVIOUS
  <2>7. V \in SUBSET T /\ V \in SUBSET S /\ Cardinality(V) = n - 1 /\ n > 0
    BY <2>3, <2>4, <2>5, <2>6, Smaller
  <2>8. f[V] = g[V]
    <3>1. n - 1 \in Nat /\ n - 1 \notin bad
      BY <2>2, <2>4, <2>7
    <3> QED BY <1>1, <2>7, <3>1
  <2>9. f[U] = Some(U).size + f[V] /\ g[U] = Some(U).size + g[V]
    <3>1. f[U] = Some(U).size + f[U \ {Some(U)}]
      BY <2>4, <2>5, SumsStep
    <3>2. g[U] = Some(U).size + g[U \ {Some(U)}]
      BY <2>5, SumsStep
    <3> QED BY <2>6, <3>1, <3>2
  <2> QED BY <2>3, <2>8, <2>9
<1>3. Cardinality(T) \in Nat
  BY FS_Subset, FS_CardinalityType
<1> QED BY <1>1, <1>2, <1>3

LEMMA TotalSums ==
  ASSUME NEW S, IsFiniteSet(S)
  PROVE  \E f : Sums(f, S) /\ Total(S) = f[S]
<1>1. PICK f : f = CHOOSE g : Sums(g, S)
  OBVIOUS
<1>2. Sums(f, S)
  BY <1>1, SumsExist
<1> QED BY <1>1, <1>2, TotalIs

LEMMA TotalSome ==
  ASSUME NEW S, IsFiniteSet(S)
  PROVE  Total(S) = IF S = {} THEN 0 ELSE Some(S).size + Total(S \ {Some(S)})
<1>1. PICK f : Sums(f, S) /\ Total(S) = f[S]
  BY TotalSums
<1>2. f[S] = IF S = {} THEN 0 ELSE Some(S).size + f[S \ {Some(S)}]
  BY <1>1, SumsStep
<1>3. PICK T : T = S \ {Some(S)}
  OBVIOUS
<1>4. T \in SUBSET S /\ IsFiniteSet(T)
  BY <1>3, FS_Subset
<1>5. PICK g : Sums(g, T) /\ Total(T) = g[T]
  BY <1>4, TotalSums
<1>6. f[T] = g[T]
  BY <1>1, <1>4, <1>5, SumsAgree
<1> QED BY <1>1, <1>2, <1>3, <1>5, <1>6

LEMMA TotalNat ==
  ASSUME NEW S, IsFiniteSet(S), S \subseteq Blk
  PROVE  Total(S) \in Nat
<1>1. PICK bad : bad = {n \in Nat : \E U \in SUBSET S : Cardinality(U) = n /\ Total(U) \notin Nat}
  OBVIOUS
<1>2. ASSUME bad # {} PROVE FALSE
  <2>1. bad \in SUBSET Nat
    BY <1>1
  <2>2. PICK n \in bad : \A k \in bad : n <= k
    BY <1>2, <2>1, LeastNat
  <2>3. PICK U \in SUBSET S : Cardinality(U) = n /\ Total(U) \notin Nat
    BY <1>1, <2>2
  <2>4. n \in Nat /\ IsFiniteSet(U)
    BY <1>1, <2>2, FS_Subset
  <2>5. U # {}
    BY <2>3, <2>4, TotalSome
  <2>6. PICK V : V = U \ {Some(U)}
    OBVIOUS
  <2>7. V \in SUBSET S /\ Cardinality(V) = n - 1 /\ n > 0 /\ Some(U) \in U
    BY <2>3, <2>4, <2>5, <2>6, Smaller
  <2>8. Total(V) \in Nat
    <3>1. n - 1 \in Nat /\ n - 1 \notin bad
      BY <2>2, <2>4, <2>7
    <3> QED BY <1>1, <2>7, <3>1
  <2>9. Total(U) = Some(U).size + Total(V)
    BY <2>4, <2>5, <2>6, TotalSome
  <2>10. Some(U).size \in Nat
    BY <2>7, BlkNat
  <2> QED BY <2>3, <2>8, <2>9, <2>10
<1>3. Cardinality(S) \in Nat
  BY FS_CardinalityType
<1> QED BY <1>1, <1>2, <1>3

\* Whichever block is taken first, the sum is the same.
LEMMA TotalAny ==
  ASSUME NEW S, IsFiniteSet(S), S \subseteq Blk, NEW b \in S
  PROVE  Total(S) = b.size + Total(S \ {b})
<1>1. PICK bad : bad = {n \in Nat : \E U \in SUBSET S : /\ Cardinality(U) = n
                                    /\ \E c \in U : Total(U) # c.size + Total(U \ {c})}
  OBVIOUS
<1>2. ASSUME bad # {} PROVE FALSE
  <2>1. bad \in SUBSET Nat
    BY <1>1
  <2>2. PICK n \in bad : \A k \in bad : n <= k
    BY <1>2, <2>1, LeastNat
  <2>3. PICK U \in SUBSET S : Cardinality(U) = n /\ \E c \in U : Total(U) # c.size + Total(U \ {c})
    BY <1>1, <2>2
  <2>4. PICK c \in U : Total(U) # c.size + Total(U \ {c})
    BY <2>3
  <2>5. PICK d : d = Some(U)
    OBVIOUS
  <2>6. n \in Nat /\ IsFiniteSet(U)
    BY <1>1, <2>2, FS_Subset
  <2>7. /\ d \in U /\ Total(U) = d.size + Total(U \ {d})
        /\ Cardinality(U \ {d}) = n - 1 /\ n > 0
    BY <2>3, <2>4, <2>5, <2>6, Smaller, TotalSome
  <2>8. c # d
    BY <2>4, <2>7
  <2>9. PICK V, W : V = U \ {d} /\ W = U \ {c}
    OBVIOUS
  <2>10. Cardinality(W) = n - 1
    BY <2>3, <2>4, <2>6, <2>9, FS_RemoveElement
  <2>11. V \in SUBSET S /\ W \in SUBSET S /\ c \in V /\ d \in W
    BY <2>4, <2>7, <2>8, <2>9
  <2>12. n - 1 \in Nat /\ n - 1 \notin bad
    BY <2>2, <2>6, <2>7
  <2>13. Total(V) = c.size + Total(V \ {c}) /\ Total(W) = d.size + Total(W \ {d})
    <3>1. \A X \in SUBSET S : Cardinality(X) = n - 1 => \A e \in X : Total(X) = e.size + Total(X \ {e})
      BY <1>1, <2>12
    <3>2. Cardinality(V) = n - 1
      BY <2>7, <2>9
    <3> QED BY <2>10, <2>11, <3>1, <3>2
  <2>14. V \ {c} = W \ {d}
    BY <2>9
  <2>15. Total(V \ {c}) \in Nat /\ c.size \in Nat /\ d.size \in Nat
    <3>1. V \ {c} \in SUBSET S /\ c \in Blk /\ d \in Blk
      BY <2>11
    <3> QED BY <3>1, FS_Subset, TotalNat, BlkNat
  <2>16. Total(U) = d.size + Total(V) /\ Total(U) # c.size + Total(W)
    BY <2>4, <2>7, <2>9
  <2>17. PICK t, x, y : t = Total(V \ {c}) /\ x = c.size /\ y = d.size
    OBVIOUS
  <2>18. Total(V) = x + t /\ Total(W) = y + t
    BY <2>13, <2>14, <2>17
  <2>19. y + (x + t) = x + (y + t)
    BY <2>15, <2>17
  <2> QED BY <2>16, <2>17, <2>18, <2>19
<1>3. Cardinality(S) \in Nat
  BY FS_CardinalityType
<1>4. Cardinality(S) \notin bad
  BY <1>2
<1> QED BY <1>1, <1>3, <1>4

----------------------------------------------------------------------------
(* What is counted, and what the callers see.                              *)

Counted == IsFiniteSet(UsedOf(pages)) /\ allocated = Total(UsedOf(pages))

LEMMA CountedStays ==
  ASSUME IInv, Counted, [Next]_vars
  PROVE  Counted'
<1>1. PICK U, V : U = UsedOf(pages) /\ V = UsedOf(pages')
  OBVIOUS
<1>2. IsFiniteSet(U) /\ allocated = Total(U)
  BY <1>1 DEF Counted
<1>3. U \subseteq Blk /\ Total(U) \in Nat
  BY <1>1, <1>2, UsedBlocks, TotalNat DEF IInv
<1>4. ASSUME IsFiniteSet(V), allocated' = Total(V) PROVE Counted'
  BY <1>1, <1>4 DEF Counted
<1>5. ASSUME NEW b, Adds(b) PROVE Counted'
  <2>1. b \in Blk /\ b \notin U /\ V = U \cup {b} /\ allocated' = allocated + b.size
    BY <1>1, <1>5 DEF Adds
  <2>2. IsFiniteSet(V) /\ V \subseteq Blk /\ b \in V /\ V \ {b} = U
    BY <1>2, <1>3, <2>1, FS_AddElement
  <2>3. Total(V) = b.size + Total(U)
    BY <2>2, TotalAny
  <2>4. b.size \in Nat
    BY <2>1, BlkNat
  <2> QED BY <1>2, <1>3, <1>4, <2>1, <2>2, <2>3, <2>4
<1>6. ASSUME NEW b, Removes(b) PROVE Counted'
  <2>1. b \in U /\ V = U \ {b} /\ allocated' = allocated - b.size
    BY <1>1, <1>6 DEF Removes
  <2>2. IsFiniteSet(V) /\ V \subseteq Blk
    BY <1>2, <1>3, <2>1, FS_RemoveElement
  <2>3. Total(U) = b.size + Total(V) /\ Total(V) \in Nat
    BY <1>2, <1>3, <2>1, <2>2, TotalAny, TotalNat
  <2>4. b.size \in Nat
    BY <1>3, <2>1, BlkNat
  <2> QED BY <1>2, <1>4, <2>1, <2>2, <2>3, <2>4
<1>7. ASSUME UNCHANGED <<pages, allocated>> PROVE Counted'
  <2>1. V = U /\ allocated' = allocated
    BY <1>1, <1>7
  <2> QED BY <1>2, <1>4, <2>1
<1> QED BY <1>5, <1>6, <1>7, Steps DEF IInv

LEMMA CountedInvariant == Spec => []Counted
<1>1. Init => Counted
  <2> SUFFICES ASSUME Init PROVE Counted
    OBVIOUS
  <2>1. UsedOf(pages) = {} /\ allocated = 0
    BY Empty DEF Init
  <2>2. IsFiniteSet({}) /\ Total({}) = 0
    BY FS_EmptySet, TotalSome
  <2> QED BY <2>1, <2>2 DEF Counted
<1> QED BY <1>1, CountedStays, Invariance, PTL DEF Spec

(***************************************************************************)
(* allocated_ is the number of bytes in used blocks.                       *)
(***************************************************************************)
THEOREM BytesAreAccounted == Spec => []Accounted
<1>1. Counted => Accounted
  BY DEF Counted, Accounted, Total, UsedOf, Used
<1> QED BY <1>1, CountedInvariant, PTL

\* A size that fits in the memory is one of its units.
LEMMA UnitsFit ==
  ASSUME NEW n \in Whole, n <= Capacity
  PROVE  n \in Units
<1>1. PICK k \in Nat \ {0} : n = k * BlockAlign
  BY DEF Whole
<1>2. BlockAlign \in Nat \ {0} /\ Capacity \in Nat
  BY AllocatorAssumption
<1>3. PICK q, r : q = Capacity \div BlockAlign /\ r = Capacity % BlockAlign
  OBVIOUS
<1>4. q \in Int /\ r \in 0 .. BlockAlign - 1 /\ Capacity = BlockAlign * q + r
  BY <1>2, <1>3
<1>5. k <= q
  <2>1. ASSUME k >= q + 1 PROVE FALSE
    <3>1. k * BlockAlign >= (q + 1) * BlockAlign
      BY <1>2, <1>4, <2>1
    <3>2. (q + 1) * BlockAlign = BlockAlign * q + BlockAlign
      BY <1>2, <1>4
    <3>3. BlockAlign * q \in Int
      BY <1>2, <1>4
    <3> QED BY <1>1, <1>2, <1>4, <3>1, <3>2, <3>3
  <2> QED BY <1>4, <2>1
<1>6. k \in 1 .. Capacity \div BlockAlign
  BY <1>3, <1>4, <1>5
<1> QED BY <1>1, <1>6 DEF Units

\* Blocks in the memory
LEMMA BlocksFit ==
  ASSUME NEW b \in Blk, Base <= b.addr, End(b) <= Base + Capacity
  PROVE  b.addr \in Addrs /\ b.size \in Units /\ b \in Block
<1>1. b.addr \in Nat /\ b.size \in Nat /\ b.size > 0 /\ End(b) = b.addr + b.size /\ b.size \in Whole
  BY BlkNat DEF Blk
<1>2. Base \in Nat /\ Capacity \in Nat
  BY AllocatorAssumption
<1>3. b.addr \in Addrs /\ b.size \in Units
  BY <1>1, <1>2, UnitsFit DEF Addrs
<1> QED BY <1>3 DEF Blk, Block

LEMMA PagesFit ==
  ASSUME Good(pages), InMemory(pages), NEW i \in DOMAIN pages
  PROVE  /\ pages[i].addr \in Addrs /\ pages[i].size \in Units
         /\ pages[i].used \subseteq Block
         /\ ToSet(pages[i].freeS) \cup ToSet(pages[i].freeM) \subseteq Block
         /\ \A b \in pages[i].used : Base <= b.addr /\ End(b) <= Base + Capacity
<1>1. PICK p : p = pages[i]
  OBVIOUS
<1>2. PageOK(p) /\ Base <= p.addr /\ End(p) <= Base + Capacity
  BY <1>1 DEF Good, InMemory
<1>3. /\ p.addr \in Nat /\ p.size \in Whole /\ p.size \in Nat /\ p.size > 0
      /\ End(p) \in Nat /\ End(p) = p.addr + p.size
      /\ p.used \subseteq Blk /\ Free(p) \subseteq Blk
  BY <1>2, PageFields DEF PageOK
<1>4. Base \in Nat /\ Capacity \in Nat
  BY AllocatorAssumption
<1>5. p.addr \in Addrs /\ p.size \in Units
  <2>1. p.size <= Capacity
    BY <1>2, <1>3, <1>4
  <2> QED BY <1>2, <1>3, <1>4, <2>1, UnitsFit DEF Addrs
<1>6. ASSUME NEW b \in p.used \cup Free(p)
      PROVE  b \in Block /\ Base <= b.addr /\ End(b) <= Base + Capacity
  <2>1. b \in Blk /\ Within(b, p)
    BY <1>2, <1>3 DEF PageOK, Tiled
  <2>2. b.addr \in Nat /\ End(b) \in Nat
    BY <2>1, BlkNat
  <2>3. Base <= b.addr /\ End(b) <= Base + Capacity
    BY <1>2, <1>3, <1>4, <2>1, <2>2 DEF Within
  <2> QED BY <2>1, <2>3, BlocksFit
<1>7. ToSet(p.freeS) = Free(p) /\ ToSet(p.freeM) = Free(p)
  BY <1>2 DEF PageOK, ListsOK, Free
<1> QED BY <1>1, <1>5, <1>6, <1>7

RetOK ==
  /\ ret.op \in {"none", "allocate", "release", "reserve"} /\ ret.ok \in BOOLEAN
  /\ ret.size \in Nat /\ ret.addr \in Nat \cup {None}

LEMMA AnswerOK ==
  ASSUME IInv, Next
  PROVE  RetOK'
<1>1. ASSUME NEW op \in {"allocate", "release", "reserve"}, NEW size \in Nat,
             NEW addr \in Nat \cup {None}, NEW ok \in BOOLEAN, Answer(op, size, addr, ok)
      PROVE  RetOK'
  BY <1>1 DEF Answer, RetOK
<1>2. ASSUME NEW size \in Sizes, AllocateBlock(size) PROVE RetOK'
  <2>1. PICK n, fit, i, b : /\ n = AlignSize(size, BlockAlign)
                            /\ fit = {j \in DOMAIN pages : FindFreeBlock(pages[j], n) # NoBlock}
                            /\ i = Min(fit) /\ b = FindFreeBlock(pages[i], n)
    OBVIOUS
  <2>2. size > 0 /\ fit # {} /\ Answer("allocate", size, b.addr, TRUE)
    BY <1>2, <2>1 DEF AllocateBlock
  <2>3. n \in Nat /\ size \in Nat
    BY <2>1, <2>2, SizesAligned, WholeNat DEF Sized
  <2>4. fit \in SUBSET Nat
    BY <2>1, GoodPage DEF IInv
  <2>5. i \in fit
    BY <2>1, <2>2, <2>4, MinNat
  <2>6. i \in DOMAIN pages /\ b # NoBlock
    BY <2>1, <2>5
  <2>7. b \in Free(pages[i]) /\ pages[i] \in PageRec
    BY <2>1, <2>3, <2>6, Lookup, GoodPage DEF IInv
  <2>8. b.addr \in Nat
    BY <2>7, PageFields, BlkNat
  <2> QED BY <1>1, <2>2, <2>3, <2>8
<1>3. ASSUME NEW size \in Sizes, AllocatePage(size) PROVE RetOK'
  <2>1. PICK n, m, a : /\ n = AlignSize(size, BlockAlign) /\ m = AlignSize(n, PageAlign)
                       /\ a = FindNextAddress(m)
    OBVIOUS
  <2>2. size > 0 /\ a # None /\ Answer("allocate", size, a, TRUE)
    BY <1>3, <2>1 DEF AllocatePage
  <2>3. size \in Nat /\ m \in Nat
    BY <2>1, <2>2, SizesAligned, WholeNat DEF Sized
  <2>4. a \in Nat
    BY <2>1, <2>2, <2>3, NextAddress DEF IInv
  <2> QED BY <1>1, <2>2, <2>3, <2>4
<1>4. ASSUME NEW size \in Sizes, AllocateFails(size) PROVE RetOK'
  BY <1>1, <1>4, AllocatorAssumption DEF AllocateFails
<1>5. ASSUME NEW addr \in Addrs, Release(addr) \/ ReleaseFails(addr) PROVE RetOK'
  <2>1. addr \in Nat
    BY AllocatorAssumption DEF Addrs
  <2>2. Answer("release", 0, addr, TRUE) \/ Answer("release", 0, addr, FALSE)
    BY <1>5 DEF Release, ReleaseFails
  <2> QED BY <1>1, <2>1, <2>2
<1>6. ASSUME NEW r \in Reservations, Reserve(r.addr, r.size) \/ ReserveFails(r.addr, r.size) PROVE RetOK'
  <2>1. r.addr \in Nat /\ r.size \in Nat
    BY AllocatorAssumption
  <2>2. Answer("reserve", r.size, r.addr, TRUE) \/ Answer("reserve", r.size, r.addr, FALSE)
    BY <1>6 DEF Reserve, ReserveFails
  <2> QED BY <1>1, <2>1, <2>2
<1> QED BY <1>2, <1>3, <1>4, <1>5, <1>6 DEF Next

(***************************************************************************)
(* Every page and block lies in the memory and is a whole number of units, *)
(* and no count is negative, when the requests fit.                        *)
(***************************************************************************)
THEOREM TypeCorrect == ASSUME RequestsFit PROVE Spec => []TypeOK
<1>1. Init => RetOK
  BY DEF Init, RetOK
<1>2. IInv /\ RetOK /\ [Next]_vars => RetOK'
  <2>1. ASSUME RetOK, UNCHANGED vars PROVE RetOK'
    BY <2>1 DEF RetOK, vars
  <2> QED BY <2>1, AnswerOK
<1>3. IInv /\ Counted /\ RetOK => TypeOK
  <2> SUFFICES ASSUME IInv, Counted, RetOK PROVE TypeOK
    OBVIOUS
  <2>1. Good(pages) /\ InMemory(pages)
    BY DEF IInv
  <2>2. allocated \in Nat
    BY <2>1, UsedBlocks, TotalNat DEF Counted
  <2>3. \A i \in DOMAIN pages : LET p == pages[i] IN
          /\ p.addr \in Addrs /\ p.size \in Units
          /\ p.used \subseteq Block
          /\ ToSet(p.freeS) \cup ToSet(p.freeM) \subseteq Block
    BY <2>1, PagesFit
  <2> QED BY <2>2, <2>3 DEF TypeOK, RetOK
<1>4. Spec => []RetOK
  BY <1>1, <1>2, Invariance, PTL DEF Spec
<1> QED BY <1>3, <1>4, Invariance, CountedInvariant, PTL

(***************************************************************************)
(* Pages, lists, splits and merges implement a plain allocator of disjoint *)
(* blocks within the capacity, when the requests fit.                      *)
(***************************************************************************)
THEOREM BlockRefinement == ASSUME RequestsFit PROVE Spec => ImplementsBlockAllocator
<1>1. Init => BA!Init
  BY Empty DEF BA!Init, Used, UsedOf
<1>2. Used = UsedOf(pages) /\ Used' = UsedOf(pages')
  BY DEF Used, UsedOf
<1>3. ASSUME NEW P, Good(P), NEW b \in UsedOf(P), NEW c \in UsedOf(P), b # c
      PROVE  BA!Apart(b, c)
  <2>1. b \in Blk /\ c \in Blk /\ ~Meet(b, c)
    BY <1>3, UsedBlocks
  <2>2. /\ b.addr \in Nat /\ End(b) \in Nat /\ End(b) = b.addr + b.size
        /\ c.addr \in Nat /\ End(c) \in Nat /\ End(c) = c.addr + c.size
    BY <2>1, BlkNat
  <2> QED BY <2>1, <2>2 DEF Meet, BA!Apart
<1>4. ASSUME NEW P, Good(P), InMemory(P), NEW b \in UsedOf(P)
      PROVE  /\ b \in Blk /\ b.addr \in Base .. Base + Capacity /\ b.size \in Units
             /\ b.addr >= Base /\ b.addr + b.size <= Base + Capacity
             /\ b = [addr |-> b.addr, size |-> b.size]
  <2>1. PICK i \in DOMAIN P : b \in P[i].used
    BY DEF UsedOf
  <2>2. /\ b \in Blk /\ b.addr \in Nat /\ End(b) \in Nat /\ b.addr < End(b)
        /\ P[i].addr <= b.addr /\ End(b) <= End(P[i])
        /\ P[i].addr \in Nat /\ End(P[i]) \in Nat
    BY <1>4, <2>1, GoodPage
  <2>3. Base <= P[i].addr /\ End(P[i]) <= Base + Capacity
    BY <1>4 DEF InMemory
  <2>4. Base \in Nat /\ Capacity \in Nat /\ End(b) = b.addr + b.size
    BY <2>2, AllocatorAssumption, BlkNat
  <2>5. Base <= b.addr /\ End(b) <= Base + Capacity
    BY <2>2, <2>3, <2>4
  <2>6. b.size \in Units
    BY <2>2, <2>5, BlocksFit
  <2> QED BY <2>2, <2>4, <2>5, <2>6 DEF Blk
<1>5. ASSUME NEW b, BA!Alloc(b) \/ BA!Free(b),
             b.addr \in Base .. Base + Capacity, b.size \in Units,
             b = [addr |-> b.addr, size |-> b.size]
      PROVE  BA!Next
  BY <1>5 DEF BA!Next
<1>6. ASSUME IInv, NEW b, Adds(b) PROVE BA!Next
  <2>1. Good(pages') /\ InMemory(pages') /\ UsedOf(pages') = UsedOf(pages) \cup {b} /\ b \notin UsedOf(pages)
    BY <1>6 DEF IInv, Adds
  <2>2. /\ b.addr \in Base .. Base + Capacity /\ b.size \in Units
        /\ b.addr >= Base /\ b.addr + b.size <= Base + Capacity
        /\ b = [addr |-> b.addr, size |-> b.size]
    BY <1>4, <2>1
  <2>3. \A c \in UsedOf(pages) : BA!Apart(b, c)
    BY <1>3, <2>1
  <2>4. BA!Alloc(b)
    BY <1>2, <2>1, <2>2, <2>3 DEF BA!Alloc
  <2> QED BY <1>5, <2>2, <2>4
<1>7. ASSUME IInv, NEW b, Removes(b) PROVE BA!Next
  <2>1. Good(pages) /\ InMemory(pages) /\ b \in UsedOf(pages) /\ UsedOf(pages') = UsedOf(pages) \ {b}
    BY <1>7 DEF IInv, Removes
  <2>2. /\ b.addr \in Base .. Base + Capacity /\ b.size \in Units
        /\ b = [addr |-> b.addr, size |-> b.size]
    BY <1>4, <2>1
  <2>3. BA!Free(b)
    BY <1>2, <2>1 DEF BA!Free
  <2> QED BY <1>5, <2>2, <2>3
<1>8. IInv /\ [Next]_vars => [BA!Next]_Used
  <2>1. ASSUME UNCHANGED <<pages, allocated>> PROVE UNCHANGED Used
    BY <2>1 DEF Used
  <2> QED BY <1>6, <1>7, <2>1, Steps DEF IInv
<1> QED BY <1>1, <1>8, Invariance, PTL DEF Spec, ImplementsBlockAllocator, BA!Spec

----------------------------------------------------------------------------
(* Requests of one page each.                                              *)

(***************************************************************************)
(* AddressSpaceManager asks for pages only (PAGE_SIZE, the page alignment  *)
(* of its allocator), and the memory begins at a page boundary.            *)
(***************************************************************************)
PagesOnly ==
  /\ Base % PageAlign = 0 /\ PageAlign <= Capacity
  /\ Sizes = {PageAlign} /\ Reservations = {}

LEMMA DivMul ==
  ASSUME NEW a \in Nat \ {0}, NEW f \in Int
  PROVE  (f * a) \div a = f
<1>1. PICK q, r : q = (f * a) \div a /\ r = (f * a) % a
  OBVIOUS
<1>2. f * a \in Int
  OBVIOUS
<1>3. q \in Int /\ r \in 0 .. a - 1 /\ f * a = a * q + r
  BY <1>1, <1>2
<1>4. r = (f - q) * a
  BY <1>3
<1>5. ASSUME f - q >= 1 PROVE FALSE
  <2>1. (f - q) * a >= 1 * a
    BY <1>3, <1>5
  <2> QED BY <1>3, <1>4, <2>1
<1>6. ASSUME f - q <= -1 PROVE FALSE
  <2>1. (f - q) * a <= (-1) * a
    BY <1>3, <1>6
  <2> QED BY <1>3, <1>4, <2>1
<1> QED BY <1>1, <1>3, <1>5, <1>6

\* A multiple is its own alignment.
LEMMA AlignedStays ==
  ASSUME NEW a \in Nat \ {0}, NEW f \in Nat
  PROVE  AlignSize(f * a, a) = f * a
<1>1. PICK n \in Nat : n = f * a
  OBVIOUS
<1>2. PICK k \in Nat : AlignSize(n, a) = k * a
  BY <1>1, Aligns
<1>3. PICK q, r : q = (n + a - 1) \div a /\ r = (n + a - 1) % a
  OBVIOUS
<1>4. q \in Int /\ r \in 0 .. a - 1 /\ n + a - 1 = a * q + r
  BY <1>1, <1>3
<1>5. (q - f) * a = a - 1 - r
  BY <1>1, <1>4
<1>6. ASSUME q - f >= 1 PROVE FALSE
  <2>1. (q - f) * a >= 1 * a
    BY <1>4, <1>6
  <2> QED BY <1>4, <1>5, <2>1
<1>7. ASSUME q - f <= -1 PROVE FALSE
  <2>1. (q - f) * a <= (-1) * a
    BY <1>4, <1>7
  <2> QED BY <1>4, <1>5, <2>1
<1>8. q = f
  BY <1>4, <1>6, <1>7
<1>9. AlignSize(n, a) = q * a
  BY <1>3 DEF AlignSize
<1> QED BY <1>1, <1>8, <1>9

Frames == Base \div PageAlign .. (Base + Capacity) \div PageAlign - 1

\* The addresses of frames
LEMMA FrameAddr ==
  ASSUME PagesOnly
  PROVE  /\ PageAlign \in Nat \ {0} /\ Base \in Nat /\ Capacity \in Nat
         /\ \E e \in Nat : Base = e * PageAlign
         /\ \A f \in Nat : f \in Frames <=> Base <= f * PageAlign /\ f * PageAlign + PageAlign <= Base + Capacity
         /\ Frames \subseteq Nat
<1>1. PageAlign \in Nat \ {0} /\ Base \in Nat /\ Capacity \in Nat
  BY AllocatorAssumption
<1>2. PICK e \in Nat : Base = e * PageAlign /\ Base \div PageAlign = e
  <2>1. PICK q : q = Base \div PageAlign
    OBVIOUS
  <2>2. q \in Int /\ Base = PageAlign * q + (Base % PageAlign) /\ Base % PageAlign = 0
    BY <1>1, <2>1 DEF PagesOnly
  <2>3. Base = PageAlign * q
    BY <1>1, <2>2
  <2>4. q >= 0
    <3>1. ASSUME q <= -1 PROVE FALSE
      <4>1. PageAlign * q <= PageAlign * (-1)
        BY <1>1, <2>2, <3>1
      <4> QED BY <1>1, <2>3, <4>1
    <3> QED BY <2>2, <3>1
  <2> QED BY <1>1, <2>1, <2>2, <2>3, <2>4
<1>3. PICK q, r : q = (Base + Capacity) \div PageAlign /\ r = (Base + Capacity) % PageAlign
  OBVIOUS
<1>4. q \in Int /\ r \in 0 .. PageAlign - 1 /\ Base + Capacity = PageAlign * q + r
  BY <1>1, <1>3
<1>5. ASSUME NEW f \in Nat
      PROVE  /\ e <= f <=> Base <= f * PageAlign
             /\ f <= q - 1 <=> f * PageAlign + PageAlign <= Base + Capacity
  <2>1. ASSUME e <= f PROVE Base <= f * PageAlign
    BY <1>1, <1>2, <2>1
  <2>2. ASSUME f + 1 <= e PROVE ~(Base <= f * PageAlign)
    <3>1. (f + 1) * PageAlign <= e * PageAlign
      BY <1>1, <2>2
    <3> QED BY <1>1, <1>2, <3>1
  <2>3. ASSUME f <= q - 1 PROVE f * PageAlign + PageAlign <= Base + Capacity
    <3>1. (f + 1) * PageAlign <= q * PageAlign
      BY <1>1, <1>4, <2>3
    <3> QED BY <1>1, <1>4, <3>1
  <2>4. ASSUME q <= f PROVE ~(f * PageAlign + PageAlign <= Base + Capacity)
    <3>1. q * PageAlign <= f * PageAlign
      BY <1>1, <1>4, <2>4
    <3> QED BY <1>1, <1>4, <3>1
  <2> QED BY <1>4, <2>1, <2>2, <2>3, <2>4
<1>6. \A f \in Nat : f \in Frames <=> e <= f /\ f <= q - 1
  BY <1>2, <1>3, <1>4 DEF Frames
<1>7. Frames \subseteq Nat
  BY <1>2, <1>3, <1>4 DEF Frames
<1> QED BY <1>1, <1>2, <1>5, <1>6, <1>7

\* Two frames are the same or apart.
LEMMA FramesApart ==
  ASSUME NEW a \in Nat \ {0}, NEW f \in Int, NEW g \in Int, f # g
  PROVE  f * a # g * a /\ (f * a + a <= g * a \/ g * a + a <= f * a)
<1>1. ASSUME f + 1 <= g PROVE f * a + a <= g * a
  <2>1. (f + 1) * a <= g * a
    BY <1>1
  <2> QED BY <2>1
<1>2. ASSUME g + 1 <= f PROVE g * a + a <= f * a
  <2>1. (g + 1) * a <= f * a
    BY <1>2
  <2> QED BY <2>1
<1> QED BY <1>1, <1>2

\* findNextAddress returns the base address or where some page ends,
LEMMA NextFollows ==
  ASSUME Good(pages), NEW m \in Nat, NEW a, a = FindNextAddress(m), a # None
  PROVE  /\ a = Base \/ \E j \in DOMAIN pages : a = End(pages[j])
         /\ pages = <<>> => a = Base
<1>1. PICK n : n = Len(pages)
  OBVIOUS
<1>2. /\ n \in Nat /\ DOMAIN pages = 1 .. n /\ ((pages = <<>>) <=> (n = 0))
      /\ EndBefore(1) = Base
      /\ \A i \in 2 .. n + 1 : i - 1 \in DOMAIN pages /\ EndBefore(i) = End(pages[i - 1])
  BY <1>1, Gaps
<1>3. PICK gaps : gaps = {i \in DOMAIN pages : EndBefore(i) + m <= pages[i].addr}
  OBVIOUS
<1>4. a = IF pages = <<>> THEN Base
          ELSE IF gaps # {} THEN EndBefore(Min(gaps))
          ELSE IF EndBefore(n + 1) + m <= Base + Capacity THEN EndBefore(n + 1) ELSE None
  BY <1>1, <1>3 DEF FindNextAddress
<1>5. gaps # {} => Min(gaps) \in 1 .. n
  <2>1. gaps \in SUBSET Nat
    BY <1>2, <1>3
  <2> QED BY <1>2, <1>3, <2>1, MinNat
<1>6. pages # <<>> => \E i \in 1 .. n + 1 : a = EndBefore(i)
  BY <1>2, <1>4, <1>5
<1>7. \A i \in 1 .. n + 1 : i = 1 \/ i \in 2 .. n + 1
  BY <1>2
<1> QED BY <1>2, <1>4, <1>6, <1>7

\* and no lower address is apart from every page.
LEMMA NothingLower ==
  ASSUME Good(pages), InMemory(pages), NEW m \in Nat, NEW a, a = FindNextAddress(m), a # None,
         NEW x \in Nat, Base <= x, x + m <= Base + Capacity,
         \A i \in DOMAIN pages : End(pages[i]) <= x \/ x + m <= pages[i].addr
  PROVE  a <= x
<1>1. PICK n : n = Len(pages)
  OBVIOUS
<1>2. /\ n \in Nat /\ DOMAIN pages = 1 .. n /\ ((pages = <<>>) <=> (n = 0))
      /\ EndBefore(1) = Base
      /\ \A i \in 2 .. n + 1 : i - 1 \in DOMAIN pages /\ EndBefore(i) = End(pages[i - 1])
      /\ \A i \in 1 .. n + 1 : EndBefore(i) \in Nat
  BY <1>1, Gaps
<1>3. PICK gaps : gaps = {i \in DOMAIN pages : EndBefore(i) + m <= pages[i].addr}
  OBVIOUS
<1>4. a = IF pages = <<>> THEN Base
          ELSE IF gaps # {} THEN EndBefore(Min(gaps))
          ELSE IF EndBefore(n + 1) + m <= Base + Capacity THEN EndBefore(n + 1) ELSE None
  BY <1>1, <1>3 DEF FindNextAddress
<1>5. \A i \in 1 .. n : pages[i].addr \in Nat /\ End(pages[i]) \in Nat /\ pages[i].addr < End(pages[i])
  BY <1>2, GoodPage
<1>6. ASSUME NEW i \in 1 .. n + 1, NEW j \in 1 .. n + 1, i <= j PROVE EndBefore(i) <= EndBefore(j)
  <2>1. CASE i = j
    BY <1>2, <2>1
  <2>2. CASE i < j /\ i = 1
    <3>1. j \in 2 .. n + 1 /\ j - 1 \in 1 .. n
      BY <1>2, <2>2
    <3>2. EndBefore(j) = End(pages[j - 1]) /\ Base <= pages[j - 1].addr
      BY <1>2, <3>1 DEF InMemory
    <3> QED BY <1>2, <1>5, <2>2, <3>1, <3>2, AllocatorAssumption
  <2>3. CASE i < j /\ i # 1
    <3>1. i \in 2 .. n + 1 /\ j \in 2 .. n + 1 /\ i - 1 \in 1 .. n /\ j - 1 \in 1 .. n /\ i - 1 < j - 1
      BY <1>2, <2>3
    <3>2. EndBefore(i) = End(pages[i - 1]) /\ EndBefore(j) = End(pages[j - 1])
      BY <1>2, <3>1
    <3>3. End(pages[i - 1]) <= pages[j - 1].addr
      BY <1>2, <3>1 DEF Good, Ordered
    <3> QED BY <1>5, <3>1, <3>2, <3>3
  <2> QED BY <1>2, <1>6, <2>1, <2>2, <2>3
<1>7. CASE pages = <<>>
  BY <1>4, <1>7
<1>8. CASE pages # <<>>
  <2>1. PICK above : above = {i \in 1 .. n : x + m <= pages[i].addr}
    OBVIOUS
  <2>2. above \in SUBSET Nat /\ n # 0
    BY <1>2, <1>8, <2>1
  <2>3. CASE above = {}
    <3>1. n \in 1 .. n /\ n + 1 \in 2 .. n + 1 /\ n + 1 - 1 = n /\ n + 1 \in 1 .. n + 1
      BY <1>2, <2>2
    <3>2. EndBefore(n + 1) = End(pages[n])
      BY <1>2, <3>1
    <3>3. End(pages[n]) <= x
      BY <1>2, <2>1, <2>3, <3>1
    <3>4. a <= EndBefore(n + 1)
      <4>1. CASE gaps # {}
        <5>1. gaps \in SUBSET Nat
          BY <1>2, <1>3
        <5>2. Min(gaps) \in 1 .. n
          BY <1>2, <1>3, <4>1, <5>1, MinNat
        <5>3. Min(gaps) \in 1 .. n + 1 /\ Min(gaps) <= n + 1
          BY <1>2, <5>2
        <5> QED BY <1>4, <1>6, <1>8, <3>1, <4>1, <5>3
      <4>2. CASE gaps = {}
        BY <1>2, <1>4, <1>8, <3>1, <4>2
      <4> QED BY <4>1, <4>2
    <3>5. a \in Nat
      BY NextAddress
    <3> QED BY <1>5, <3>1, <3>2, <3>3, <3>4, <3>5
  <2>4. CASE above # {}
    <3>1. PICK g \in above : \A i \in above : g <= i
      BY <2>2, <2>4, LeastNat
    <3>2. g \in 1 .. n /\ x + m <= pages[g].addr
      BY <2>1, <3>1
    <3>3. EndBefore(g) <= x
      <4>1. CASE g = 1
        BY <1>2, <4>1
      <4>2. CASE g # 1
        <5>1. g \in 2 .. n + 1 /\ g - 1 \in 1 .. n /\ ~(g <= g - 1)
          BY <1>2, <3>2, <4>2
        <5>2. EndBefore(g) = End(pages[g - 1]) /\ g - 1 \notin above
          BY <1>2, <3>1, <5>1
        <5>3. PICK k : k = g - 1
          OBVIOUS
        <5>4. k \in 1 .. n /\ EndBefore(g) = End(pages[k]) /\ ~(x + m <= pages[k].addr)
          BY <2>1, <5>1, <5>2, <5>3
        <5> QED BY <1>2, <5>4
      <4> QED BY <4>1, <4>2
    <3>4. EndBefore(g) \in Nat /\ pages[g].addr \in Nat
      BY <1>2, <1>5, <3>2
    <3>5. g \in gaps
      BY <1>2, <1>3, <3>2, <3>3, <3>4
    <3>6. gaps \in SUBSET Nat
      BY <1>2, <1>3
    <3>7. Min(gaps) \in gaps /\ Min(gaps) <= g
      BY <3>5, <3>6, MinNat
    <3>8. Min(gaps) \in 1 .. n + 1 /\ g \in 1 .. n + 1
      BY <1>2, <1>3, <3>2, <3>7
    <3>9. a = EndBefore(Min(gaps)) /\ EndBefore(Min(gaps)) <= EndBefore(g)
      BY <1>4, <1>6, <1>8, <3>5, <3>7, <3>8
    <3>10. a \in Nat
      BY NextAddress
    <3> QED BY <3>3, <3>4, <3>9, <3>10
  <2> QED BY <2>3, <2>4
<1> QED BY <1>7, <1>8

\* A page that is one frame, in use
Framed(p) ==
  \E f \in Frames :
    /\ p.addr = f * PageAlign /\ p.size = PageAlign
    /\ p.used = {[addr |-> f * PageAlign, size |-> PageAlign]}

AllFramed(P) == \A i \in DOMAIN P : Framed(P[i])

Taken(P) == {b.addr \div PageAlign : b \in UsedOf(P)}

LEMMA OneSize ==
  ASSUME PagesOnly
  PROVE  /\ PageAlign \in Whole /\ PageAlign \in Nat \ {0}
         /\ AlignSize(PageAlign, BlockAlign) = PageAlign
         /\ AlignSize(PageAlign, PageAlign) = PageAlign
         /\ RequestsFit
<1>1. PageAlign \in Nat \ {0} /\ BlockAlign \in Nat \ {0} /\ PageAlign % BlockAlign = 0
  BY AllocatorAssumption
<1>2. PICK j \in Nat : PageAlign = j * BlockAlign /\ j # 0
  <2>1. PICK q : q = PageAlign \div BlockAlign
    OBVIOUS
  <2>2. q \in Int /\ PageAlign = BlockAlign * q + (PageAlign % BlockAlign)
    BY <1>1, <2>1
  <2>3. PageAlign = BlockAlign * q
    BY <1>1, <2>2
  <2>4. ASSUME q <= 0 PROVE FALSE
    <3>1. BlockAlign * q <= BlockAlign * 0
      BY <1>1, <2>2, <2>4
    <3> QED BY <1>1, <2>3, <3>1
  <2>5. q \in Nat /\ q # 0 /\ PageAlign = q * BlockAlign
    BY <1>1, <2>2, <2>3, <2>4
  <2> QED BY <2>5
<1>3. AlignSize(PageAlign, BlockAlign) = PageAlign
  BY <1>1, <1>2, AlignedStays
<1>4. AlignSize(PageAlign, PageAlign) = PageAlign
  <2>1. 1 * PageAlign = PageAlign
    BY <1>1
  <2> QED BY <1>1, <2>1, AlignedStays
<1>5. PageAlign \in Whole
  BY <1>2 DEF Whole
<1>6. RequestsFit
  BY <1>3, <1>4 DEF RequestsFit, PagesOnly
<1> QED BY <1>1, <1>3, <1>4, <1>5, <1>6

\* What is taken, in a list of frames
LEMMA TakenIs ==
  ASSUME PagesOnly, NEW P, AllFramed(P)
  PROVE  /\ Taken(P) \subseteq Frames
         /\ \A i \in DOMAIN P : \E f \in Taken(P) : P[i].addr = f * PageAlign /\ End(P[i]) = f * PageAlign + PageAlign
         /\ \A f \in Taken(P) : \E i \in DOMAIN P : P[i].addr = f * PageAlign /\ End(P[i]) = f * PageAlign + PageAlign
         /\ \A b \in UsedOf(P) : \E f \in Frames : b = [addr |-> f * PageAlign, size |-> PageAlign]
                                                   /\ b.addr \div PageAlign = f
<1>1. PageAlign \in Nat \ {0} /\ Frames \subseteq Nat
  BY FrameAddr
<1>2. \A f \in Frames : (f * PageAlign) \div PageAlign = f
  BY <1>1, DivMul
<1>3. ASSUME NEW i \in DOMAIN P
      PROVE  \E f \in Frames : /\ P[i].addr = f * PageAlign /\ End(P[i]) = f * PageAlign + PageAlign
                               /\ P[i].used = {[addr |-> f * PageAlign, size |-> PageAlign]}
  BY DEF AllFramed, Framed, End
<1>4. ASSUME NEW i \in DOMAIN P, NEW f \in Frames,
             P[i].used = {[addr |-> f * PageAlign, size |-> PageAlign]}
      PROVE  f \in Taken(P)
  <2>1. PICK b : b = [addr |-> f * PageAlign, size |-> PageAlign]
    OBVIOUS
  <2>2. b \in UsedOf(P) /\ b.addr \div PageAlign = f
    BY <1>2, <1>4, <2>1 DEF UsedOf
  <2> QED BY <2>2 DEF Taken
<1>5. ASSUME NEW b \in UsedOf(P)
      PROVE  \E i \in DOMAIN P, f \in Frames :
               /\ P[i].addr = f * PageAlign /\ End(P[i]) = f * PageAlign + PageAlign
               /\ b = [addr |-> f * PageAlign, size |-> PageAlign]
               /\ b.addr \div PageAlign = f
  <2>1. PICK i \in DOMAIN P : b \in P[i].used
    BY DEF UsedOf
  <2>2. PICK f \in Frames : /\ P[i].addr = f * PageAlign /\ End(P[i]) = f * PageAlign + PageAlign
                            /\ P[i].used = {[addr |-> f * PageAlign, size |-> PageAlign]}
    BY <1>3
  <2>3. b = [addr |-> f * PageAlign, size |-> PageAlign]
    BY <2>1, <2>2
  <2>4. b.addr \div PageAlign = f
    BY <1>2, <2>3
  <2> QED BY <2>2, <2>3, <2>4
<1>6. \A f \in Taken(P) : f \in Frames /\ \E i \in DOMAIN P : P[i].addr = f * PageAlign /\ End(P[i]) = f * PageAlign + PageAlign
  BY <1>5 DEF Taken
<1>7. \A b \in UsedOf(P) : \E f \in Frames : b = [addr |-> f * PageAlign, size |-> PageAlign]
                                             /\ b.addr \div PageAlign = f
  BY <1>5
<1>8. \A i \in DOMAIN P : \E f \in Taken(P) : P[i].addr = f * PageAlign /\ End(P[i]) = f * PageAlign + PageAlign
  BY <1>3, <1>4
<1> QED BY <1>6, <1>7, <1>8

FInv == IInv /\ AllFramed(pages)

\* No page has a free block,
LEMMA NothingFree ==
  ASSUME PagesOnly, NEW P, Good(P), AllFramed(P), NEW i \in DOMAIN P
  PROVE  Free(P[i]) = {}
<1>1. PICK f \in Frames : /\ P[i].addr = f * PageAlign /\ P[i].size = PageAlign
                          /\ P[i].used = {[addr |-> f * PageAlign, size |-> PageAlign]}
  BY DEF AllFramed, Framed
<1>2. PICK b : b = [addr |-> f * PageAlign, size |-> PageAlign]
  OBVIOUS
<1>3. b \in P[i].used /\ b.addr = P[i].addr /\ End(b) = End(P[i])
  BY <1>1, <1>2 DEF End
<1>4. PageOK(P[i]) /\ P[i].addr \in Nat /\ End(P[i]) \in Nat /\ P[i].addr < End(P[i])
  BY GoodPage DEF Good
<1>5. ASSUME NEW c \in Free(P[i]) PROVE FALSE
  <2>1. c \in Blk
    BY <1>4, PageFields DEF PageOK
  <2>2. c.addr \in Nat /\ End(c) \in Nat /\ c.addr < End(c)
    BY <2>1, BlkNat
  <2>3. Within(c, P[i]) /\ b # c /\ ~Meet(b, c)
    BY <1>3, <1>4 DEF PageOK, Tiled
  <2> QED BY <1>3, <1>4, <2>2, <2>3 DEF Within, Meet
<1> QED BY <1>5

\* so an allocation makes a page, at the lowest frame that is not taken.
LEMMA FrameTaken ==
  ASSUME PagesOnly, FInv, NEW size \in Sizes, AllocateBlock(size) \/ AllocatePage(size)
  PROVE  /\ AllFramed(pages')
         /\ \E f \in Frames \ Taken(pages) : /\ \A g \in Frames \ Taken(pages) : f <= g
                                             /\ Taken(pages') = Taken(pages) \cup {f}
<1>1. /\ size = PageAlign /\ AlignSize(size, BlockAlign) = PageAlign
      /\ AlignSize(PageAlign, PageAlign) = PageAlign
      /\ PageAlign \in Whole /\ PageAlign \in Nat \ {0} /\ RequestsFit
  BY OneSize DEF PagesOnly
<1>2. Good(pages) /\ InMemory(pages) /\ AllFramed(pages)
  BY <1>1 DEF FInv, IInv
<1>3. \A i \in DOMAIN pages : FindFreeBlock(pages[i], PageAlign) = NoBlock
  BY <1>1, <1>2, NothingFree, Lookup
<1>4. AllocatePage(size)
  BY <1>1, <1>3 DEF AllocateBlock
<1>5. PICK a, p, q : /\ a = FindNextAddress(PageAlign) /\ p = NewPage(a, PageAlign)
                     /\ q = PageAllocate(p, PageAlign, FindFreeBlock(p, PageAlign))
  OBVIOUS
<1>6. a # None /\ pages' = CreatePage(pages, q)
  BY <1>1, <1>4, <1>5 DEF AllocatePage
<1>7. /\ a \in Nat /\ \A i \in DOMAIN pages : End(pages[i]) <= a \/ a + PageAlign <= pages[i].addr
      /\ Base <= a /\ (pages # <<>> => a + PageAlign <= Base + Capacity)
  BY <1>1, <1>2, <1>5, <1>6, NextAddress
<1>8. /\ a = Base \/ \E j \in DOMAIN pages : a = End(pages[j])
      /\ pages = <<>> => a = Base
  BY <1>1, <1>2, <1>5, <1>6, NextFollows
<1>9. PICK f \in Nat : a = f * PageAlign
  <2>1. CASE a = Base
    BY <2>1, FrameAddr
  <2>2. CASE \E j \in DOMAIN pages : a = End(pages[j])
    <3>1. PICK g \in Frames : a = g * PageAlign + PageAlign
      BY <1>2, <2>2, TakenIs
    <3>2. g \in Nat /\ a = (g + 1) * PageAlign
      BY <1>1, <3>1, FrameAddr
    <3> QED BY <3>2
  <2> QED BY <1>8, <2>1, <2>2
<1>10. f \in Frames
  <2>1. a + PageAlign <= Base + Capacity
    BY <1>1, <1>7, <1>8, AllocatorAssumption DEF PagesOnly
  <2> QED BY <1>7, <1>9, <2>1, FrameAddr
<1>11. f \notin Taken(pages)
  <2>1. ASSUME f \in Taken(pages) PROVE FALSE
    <3>1. PICK i \in DOMAIN pages : pages[i].addr = a /\ End(pages[i]) = a + PageAlign
      BY <1>2, <1>9, <2>1, TakenIs
    <3> QED BY <1>1, <1>7, <3>1
  <2> QED BY <2>1
<1>12. ASSUME NEW g \in Frames \ Taken(pages) PROVE f <= g
  <2>1. PICK x : x = g * PageAlign
    OBVIOUS
  <2>2. g \in Nat /\ x \in Nat /\ Base <= x /\ x + PageAlign <= Base + Capacity
    BY <1>1, <2>1, FrameAddr
  <2>3. ASSUME NEW i \in DOMAIN pages PROVE End(pages[i]) <= x \/ x + PageAlign <= pages[i].addr
    <3>1. PICK h \in Taken(pages) : pages[i].addr = h * PageAlign /\ End(pages[i]) = h * PageAlign + PageAlign
      BY <1>2, TakenIs
    <3>2. h \in Int /\ h # g
      BY <1>2, <3>1, TakenIs, FrameAddr
    <3>3. h * PageAlign + PageAlign <= g * PageAlign \/ g * PageAlign + PageAlign <= h * PageAlign
      BY <1>1, <2>2, <3>2, FramesApart
    <3> QED BY <2>1, <3>1, <3>3
  <2>4. a <= x
    BY <1>1, <1>2, <1>5, <1>6, <2>2, <2>3, NothingLower
  <2>5. ASSUME g < f PROVE FALSE
    <3>1. f # g /\ g + 1 <= f
      BY <1>9, <2>2, <2>5
    <3>2. (g + 1) * PageAlign <= f * PageAlign
      BY <1>1, <1>9, <2>2, <3>1
    <3> QED BY <1>1, <1>9, <2>1, <2>2, <2>4, <3>2
  <2> QED BY <1>9, <2>2, <2>5
<1>13. PICK b : b = [addr |-> a, size |-> PageAlign]
  OBVIOUS
<1>14. PageOK(q) /\ q.addr = a /\ q.size = PageAlign /\ End(q) = a + PageAlign /\ q.used = {b}
  BY <1>1, <1>5, <1>7, <1>13, FirstBlock
<1>15. PICK P, Q : P = pages /\ Q = pages'
  OBVIOUS
<1>16. /\ UsedOf(Q) = UsedOf(P) \cup {b}
       /\ \A i \in DOMAIN Q : Q[i] = q \/ \E j \in DOMAIN P : Q[i] = P[j]
  <2>1. Creation(P, q, Q)
    BY <1>2, <1>6, <1>7, <1>14, <1>15 DEF Creation
  <2> QED BY <1>14, <2>1, Creates
<1>17. AllFramed(Q)
  <2>1. Framed(q)
    BY <1>9, <1>10, <1>13, <1>14 DEF Framed
  <2> QED BY <1>2, <1>15, <1>16, <2>1 DEF AllFramed
<1>18. Taken(Q) = Taken(P) \cup {f}
  <2>1. b.addr \div PageAlign = f
    BY <1>1, <1>9, <1>13, DivMul
  <2> QED BY <1>16, <2>1 DEF Taken
<1> QED BY <1>10, <1>11, <1>12, <1>15, <1>17, <1>18

\* A release gives a page back.
LEMMA FrameGiven ==
  ASSUME PagesOnly, FInv, NEW addr, Release(addr)
  PROVE  /\ AllFramed(pages')
         /\ \E f \in Frames : Taken(pages') = Taken(pages) \ {f}
<1>1. PICK P, Q : P = pages /\ Q = pages'
  OBVIOUS
<1>2. Good(P) /\ AllFramed(P)
  BY <1>1 DEF FInv, IInv
<1>3. PICK i \in DOMAIN P :
        \E c \in P[i].used : Q = IF PageRelease(P[i], c).used = {} THEN RemoveAt(P, i)
                                 ELSE [P EXCEPT ![i] = PageRelease(P[i], c)]
  BY <1>1 DEF Release
<1>4. PICK f \in Frames : P[i].used = {[addr |-> f * PageAlign, size |-> PageAlign]}
  BY <1>2 DEF AllFramed, Framed
<1>5. PICK b : b = [addr |-> f * PageAlign, size |-> PageAlign]
  OBVIOUS
<1>6. P[i].used = {b} /\ PageOK(P[i])
  BY <1>2, <1>4, <1>5 DEF Good
<1>7. PageRelease(P[i], b).used = {}
  <2>1. PageRelease(P[i], b).used = P[i].used \ {b}
    BY <1>6, PageReleases
  <2> QED BY <1>6, <2>1
<1>8. Q = RemoveAt(P, i)
  BY <1>3, <1>6, <1>7
<1>9. UsedOf(Q) = UsedOf(P) \ {b} /\ \A j \in DOMAIN Q : \E k \in DOMAIN P : Q[j] = P[k]
  BY <1>2, <1>6, <1>8, Deletes
<1>10. AllFramed(Q)
  BY <1>2, <1>9 DEF AllFramed
<1>11. b.addr \div PageAlign = f
  BY <1>5, FrameAddr, DivMul
<1>12. ASSUME NEW c \in UsedOf(P), c # b PROVE c.addr \div PageAlign # f
  <2>1. PICK g \in Frames : c = [addr |-> g * PageAlign, size |-> PageAlign] /\ c.addr \div PageAlign = g
    BY <1>2, TakenIs
  <2> QED BY <1>5, <1>12, <2>1
<1>13. Taken(Q) = Taken(P) \ {f}
  <2>1. ASSUME NEW g \in Taken(Q) PROVE g \in Taken(P) \ {f}
    <3>1. PICK c \in UsedOf(Q) : g = c.addr \div PageAlign
      BY <2>1 DEF Taken
    <3> QED BY <1>9, <1>12, <3>1 DEF Taken
  <2>2. ASSUME NEW g \in Taken(P) \ {f} PROVE g \in Taken(Q)
    <3>1. PICK c \in UsedOf(P) : g = c.addr \div PageAlign
      BY <2>2 DEF Taken
    <3> QED BY <1>9, <1>11, <2>2, <3>1 DEF Taken
  <2> QED BY <2>1, <2>2
<1> QED BY <1>1, <1>10, <1>13

(***************************************************************************)
(* When every request is one page, the allocator hands out the lowest      *)
(* frame that nobody holds, as AddressSpaceManager takes it to do.         *)
(***************************************************************************)
THEOREM FrameRefinement == ASSUME PagesOnly PROVE Spec => ImplementsFrameAllocator
<1> DEFINE taken == {b.addr \div PageAlign : b \in Used}
<1>1. taken = Taken(pages) /\ taken' = Taken(pages')
  BY DEF Used, UsedOf, Taken
<1>2. Init => AllFramed(pages) /\ FA!Init
  <2>1. Init => pages = <<>> /\ UsedOf(pages) = {}
    BY Empty DEF Init
  <2>2. DOMAIN <<>> = {}
    OBVIOUS
  <2> QED BY <1>1, <2>1, <2>2 DEF AllFramed, FA!Init, Taken
<1>3. ASSUME FInv, [Next]_vars PROVE AllFramed(pages') /\ [FA!Next]_taken
  <2>1. ASSUME NEW f \in Frames \ Taken(pages), \A g \in Frames \ Taken(pages) : f <= g,
               Taken(pages') = Taken(pages) \cup {f}
        PROVE  FA!Next
    BY <1>1, <2>1 DEF FA!Next, FA!Take, FA!Lowest, Frames
  <2>2. ASSUME NEW f \in Frames, Taken(pages') = Taken(pages) \ {f} PROVE FA!Next
    BY <1>1, <2>2 DEF FA!Next, FA!Give, Frames
  <2>3. ASSUME pages' = pages PROVE AllFramed(pages') /\ [FA!Next]_taken
    <3>1. AllFramed(pages')
      BY <1>3, <2>3 DEF FInv
    <3>2. taken' = taken
      BY <2>3 DEF Used
    <3> QED BY <3>1, <3>2
  <2>4. ASSUME NEW size \in Sizes, AllocateBlock(size) \/ AllocatePage(size)
        PROVE  AllFramed(pages') /\ [FA!Next]_taken
    BY <1>3, <2>1, <2>4, FrameTaken
  <2>5. ASSUME NEW addr, Release(addr) PROVE AllFramed(pages') /\ [FA!Next]_taken
    BY <1>3, <2>2, <2>5, FrameGiven
  <2>6. Reservations = {}
    BY DEF PagesOnly
  <2>7. CASE Next
    BY <2>3, <2>4, <2>5, <2>6, <2>7 DEF Next, AllocateFails, ReleaseFails
  <2>8. CASE UNCHANGED vars
    BY <2>3, <2>8 DEF vars
  <2> QED BY <1>3, <2>7, <2>8
<1>4. AllFramed(pages)' <=> AllFramed(pages')
  OBVIOUS
<1>5. Spec => []AllFramed(pages)
  BY <1>2, <1>3, <1>4, Invariance, PTL DEF Spec, FInv
<1> QED BY <1>2, <1>3, <1>5, Invariance, PTL DEF Spec, FInv, ImplementsFrameAllocator, FA!Spec

============================================================================
