------------------------- MODULE KernelLayoutProofs -------------------------
(***************************************************************************)
(* The layout of a kernel for any page size, image, device and placement   *)
(* of the pages: the image is mapped page by page exactly once, every hart *)
(* has a stack of its own, and what is copied arrives where the page table *)
(* has it.                                                                 *)
(***************************************************************************)
EXTENDS KernelLayout, NaturalsInduction, WellFoundedInduction, TLAPS

----------------------------------------------------------------------------
(* Bytes and pages.                                                        *)

LEMMA Sizes ==
  /\ PageSize \in Nat /\ PageSize > 0 /\ FirstPage \in Nat /\ FirstPage > 0
  /\ BlockSize \in Nat /\ BlockSize > 0 /\ BlockSize <= PageSize
  /\ MemEnd \in Nat /\ StackEnd \in Nat /\ StackSize \in Nat /\ StackSize > 0
  /\ CopySize \in Nat
BY LayoutAssumption

LEMMA Times ==
  ASSUME NEW j \in Int, NEW k \in Int
  PROVE  /\ (k + j) * PageSize = k * PageSize + j * PageSize
         /\ (k - j) * PageSize = k * PageSize - j * PageSize
         /\ k * PageSize \in Int
         /\ k * PageSize < j * PageSize <=> k < j
         /\ k * PageSize <= j * PageSize <=> k <= j
BY Sizes, SMT

\* A byte that lies r bytes into page q
LEMMA PageIs ==
  ASSUME NEW q \in Int, NEW r \in 0 .. PageSize - 1
  PROVE  Page(q * PageSize + r) = q /\ (q * PageSize + r) % PageSize = r
<1> DEFINE a == q * PageSize + r
<1>1. a \in Int /\ a = PageSize * (a \div PageSize) + (a % PageSize)
      /\ a % PageSize \in 0 .. PageSize - 1 /\ a \div PageSize \in Int
  BY Sizes, SMT
<1>2. PICK d \in Int : d = a \div PageSize
  BY <1>1
<1>3. d * PageSize + (a % PageSize) = q * PageSize + r
  BY <1>1, <1>2, Sizes
<1>4. d < q + 1 /\ q < d + 1
  <2>1. d * PageSize < (q + 1) * PageSize /\ q * PageSize < (d + 1) * PageSize
    BY <1>1, <1>3, Sizes, Times
  <2> QED BY <2>1, Times
<1>5. d = q
  BY <1>4
<1> QED BY <1>1, <1>2, <1>3, <1>5, Sizes DEF Page

LEMMA Split ==
  ASSUME NEW a \in Int
  PROVE  /\ Page(a) \in Int /\ a % PageSize \in 0 .. PageSize - 1
         /\ a = Page(a) * PageSize + (a % PageSize)
         /\ a >= 0 => Page(a) >= 0
<1>1. a = PageSize * (a \div PageSize) + (a % PageSize)
      /\ a % PageSize \in 0 .. PageSize - 1 /\ a \div PageSize \in Int
  BY Sizes, SMT
<1>2. PICK d \in Int : d = a \div PageSize
  BY <1>1
<1>3. a >= 0 => d >= 0
  <2>1. a < (d + 1) * PageSize
    BY <1>1, <1>2, Times, Sizes
  <2>2. SUFFICES ASSUME a >= 0, d < 0 PROVE FALSE
    BY <1>2
  <2>3. (d + 1) * PageSize <= 0 * PageSize
    BY <2>2, Times
  <2> QED BY <2>1, <2>2, <2>3, Times, Sizes
<1> QED BY <1>1, <1>2, <1>3, Sizes DEF Page

LEMMA Parts ==
  ASSUME NEW a \in Int
  PROVE  \E q \in Int : \E r \in 0 .. PageSize - 1 :
           a = q * PageSize + r /\ (a >= 0 => q >= 0)
<1>1. PICK q \in Int, r \in 0 .. PageSize - 1 : q = Page(a) /\ r = a % PageSize
  BY Split
<1>2. a = q * PageSize + r /\ (a >= 0 => q >= 0)
  BY <1>1, Split
<1> QED BY <1>2

\* Which page a byte is in
LEMMA InPage ==
  ASSUME NEW a \in Int, NEW q \in Int
  PROVE  Page(a) = q <=> q * PageSize <= a /\ a < q * PageSize + PageSize
<1>1. ASSUME q * PageSize <= a, a < q * PageSize + PageSize PROVE Page(a) = q
  <2>1. PICK r \in 0 .. PageSize - 1 : r = a - q * PageSize
    BY <1>1, Times, Sizes
  <2>2. a = q * PageSize + r
    BY <2>1, Times, Sizes
  <2> QED BY <2>2, PageIs
<1>2. ASSUME Page(a) = q PROVE q * PageSize <= a /\ a < q * PageSize + PageSize
  <2>1. PICK r \in 0 .. PageSize - 1 : r = a % PageSize
    BY Split
  <2>2. a = q * PageSize + r /\ q * PageSize \in Int
    BY <1>2, <2>1, Split, Times
  <2> QED BY <2>1, <2>2, Sizes
<1> QED BY <1>1, <1>2

LEMMA PageStarts ==
  ASSUME NEW q \in Int
  PROVE  Page(q * PageSize) = q
<1>1. PICK a \in Int : a = q * PageSize
  BY Times
<1> QED BY <1>1, InPage, Sizes

LEMMA PageOrder ==
  ASSUME NEW a \in Int, NEW b \in Int
  PROVE  /\ a <= b => Page(a) <= Page(b)
         /\ \A q \in Int : Page(a) < q <=> a < q * PageSize
<1>1. PICK c \in Int, d \in Int : c = Page(a) /\ d = Page(b)
  BY Split
<1>2. /\ c * PageSize <= a /\ a < c * PageSize + PageSize
      /\ d * PageSize <= b /\ b < d * PageSize + PageSize
      /\ c * PageSize \in Int /\ d * PageSize \in Int
  BY <1>1, InPage, Times
<1>3. ASSUME NEW x \in Int, NEW y \in Int, x < y PROVE x * PageSize + PageSize <= y * PageSize
  <2>1. PICK z \in Int : z = x + 1
    OBVIOUS
  <2>2. z * PageSize = x * PageSize + 1 * PageSize /\ z * PageSize <= y * PageSize
    BY <1>3, <2>1, Times
  <2> QED BY <2>2, Times, Sizes
<1>4. a <= b => c <= d
  BY <1>2, <1>3, Sizes
<1>5. ASSUME NEW q \in Int PROVE c < q <=> a < q * PageSize
  <2>1. c < q => c * PageSize + PageSize <= q * PageSize
    BY <1>3
  <2>2. q <= c => q * PageSize <= c * PageSize
    BY Times
  <2> QED BY <1>2, <2>1, <2>2, Times, Sizes
<1> QED BY <1>1, <1>4, <1>5

LEMMA AlignIs ==
  ASSUME NEW q \in Int, NEW r \in 0 .. PageSize - 1
  PROVE  Align(q * PageSize + r) = IF r = 0 THEN q * PageSize ELSE (q + 1) * PageSize
<1>1. PICK a \in Int : a = q * PageSize + r + PageSize - 1
  BY Times, Sizes
<1>2. CASE r = 0
  <2>1. Page(a) = q
    BY <1>1, <1>2, InPage, Times, Sizes
  <2> QED BY <1>1, <1>2, <2>1 DEF Align, Page
<1>3. CASE r # 0
  <2>1. PICK z \in Int : z = q + 1
    OBVIOUS
  <2>2. z * PageSize = q * PageSize + 1 * PageSize
    BY <2>1, Times
  <2>3. Page(a) = z
    BY <1>1, <1>3, <2>2, InPage, Times, Sizes
  <2> QED BY <1>1, <1>3, <2>1, <2>3 DEF Align, Page
<1> QED BY <1>2, <1>3

\* Pages asked for from a page bound on are those of the bytes.
LEMMA PagesOfBytes ==
  ASSUME NEW x \in Int, NEW n \in Nat
  PROVE  PagesOf(x * PageSize, n) = x .. Page(x * PageSize + n - 1)
<1>1. PICK q \in Int, r \in 0 .. PageSize - 1 : n = q * PageSize + r
  BY Split
<1>2. PICK c \in Int : c = IF r = 0 THEN q ELSE q + 1
  OBVIOUS
<1>3. Align(n) = c * PageSize
  BY <1>1, <1>2, AlignIs
<1>4. Align(n) \div PageSize = c
  BY <1>3, PageStarts DEF Page
<1>5. Page(x * PageSize) = x
  BY PageStarts
<1>6. Page(x * PageSize + n - 1) = x + c - 1
  <2>1. PICK y \in Int : y = x + c
    OBVIOUS
  <2>2. PICK z \in Int : z = y - 1
    OBVIOUS
  <2>7. y * PageSize = x * PageSize + c * PageSize /\ z * PageSize = y * PageSize - 1 * PageSize
    <3>1. (x + c) * PageSize = x * PageSize + c * PageSize
      BY Times
    <3>2. (y - 1) * PageSize = y * PageSize - 1 * PageSize
      BY Times
    <3> QED BY <2>1, <2>2, <3>1, <3>2
  <2>3. c * PageSize = IF r = 0 THEN q * PageSize ELSE q * PageSize + 1 * PageSize
    BY <1>2, Times
  <2>4. x * PageSize \in Int /\ q * PageSize \in Int /\ 1 * PageSize = PageSize
    BY Times, Sizes
  <2>8. PICK a \in Int : a = x * PageSize + n - 1
    BY <2>4
  <2>5. z * PageSize <= a /\ a < z * PageSize + PageSize
    BY <1>1, <2>7, <2>3, <2>4, <2>8, Sizes
  <2>6. Page(a) = z
    BY <2>5, InPage
  <2> QED BY <2>1, <2>2, <2>6, <2>8
<1>7. PagesOf(x * PageSize, n) = {x + i : i \in 0 .. c - 1}
  BY <1>4, <1>5 DEF PagesOf
<1>8. {x + i : i \in 0 .. c - 1} = x .. x + c - 1
  <2>1. ASSUME NEW y \in x .. x + c - 1 PROVE y \in {x + i : i \in 0 .. c - 1}
    <3>1. y - x \in 0 .. c - 1 /\ y = x + (y - x)
      BY <2>1
    <3> QED BY <3>1
  <2> QED BY <2>1
<1> QED BY <1>6, <1>7, <1>8

----------------------------------------------------------------------------
(* Powers of two.  A set of natural numbers that has a member has a least  *)
(* one: this is the induction that the facts about Pow2 rest on.           *)

LEMMA LeastNumber ==
  ASSUME NEW T \in SUBSET Nat, T # {}
  PROVE  \E x \in T : \A y \in T : x <= y
<1>1. IsWellFoundedOn(OpToRel(<, Nat), Nat)
  BY NatLessThanWellFounded
<1>2. PICK x \in T : \A y \in T : ~(<<y, x>> \in OpToRel(<, Nat))
  BY <1>1, WFMin
<1>3. \A y \in T : ~(y < x)
  BY <1>2 DEF OpToRel
<1> QED BY <1>3

\* The doublings up to n
Doubles(g, n) ==
  /\ g \in [0 .. n -> Nat]
  /\ \A i \in 0 .. n : g[i] = IF i = 0 THEN 1 ELSE 2 * g[i - 1]

LEMMA DoublesExist ==
  ASSUME NEW n \in Nat
  PROVE  \E g : Doubles(g, n)
<1> DEFINE T == {k \in Nat : ~\E g : Doubles(g, k)}
<1>1. SUFFICES ASSUME T # {} PROVE FALSE
  OBVIOUS
<1>2. PICK m \in T : \A y \in T : m <= y
  BY <1>1, LeastNumber
<1>3. m # 0
  <2>1. PICK g : g = [i \in 0 .. 0 |-> 1]
    OBVIOUS
  <2>2. Doubles(g, 0)
    BY <2>1 DEF Doubles
  <2> QED BY <1>2, <2>2
<1>4. m - 1 \in Nat /\ m - 1 \notin T
  BY <1>2, <1>3
<1>5. PICK g : Doubles(g, m - 1)
  BY <1>4
<1>6. PICK h : h = [i \in 0 .. m |-> IF i = m THEN 2 * g[m - 1] ELSE g[i]]
  OBVIOUS
<1>7. g \in [0 .. m - 1 -> Nat] /\ m - 1 \in 0 .. m - 1
  BY <1>4, <1>5 DEF Doubles
<1>8. h \in [0 .. m -> Nat]
  BY <1>6, <1>7
<1>9. ASSUME NEW i \in 0 .. m PROVE h[i] = IF i = 0 THEN 1 ELSE 2 * h[i - 1]
  <2>1. CASE i = m
    BY <1>3, <1>6, <1>7, <2>1
  <2>2. CASE i # m
    <3>1. i \in 0 .. m - 1 /\ h[i] = g[i] /\ (i # 0 => h[i - 1] = g[i - 1])
      BY <1>4, <1>6, <2>2
    <3> QED BY <1>5, <3>1 DEF Doubles
  <2> QED BY <2>1, <2>2
<1>10. Doubles(h, m)
  BY <1>8, <1>9 DEF Doubles
<1> QED BY <1>2, <1>10

LEMMA DoublesAgree ==
  ASSUME NEW m \in Nat, NEW n \in Nat, NEW g, NEW h, Doubles(g, m), Doubles(h, n),
         NEW k \in 0 .. m, k \in 0 .. n
  PROVE  g[k] = h[k]
<1> DEFINE T == {i \in Nat : i <= m /\ i <= n /\ g[i] # h[i]}
<1>1. SUFFICES ASSUME T # {} PROVE FALSE
  OBVIOUS
<1>2. PICK i \in T : \A y \in T : i <= y
  BY <1>1, LeastNumber
<1>3. i \in 0 .. m /\ i \in 0 .. n /\ g[i] # h[i]
  BY <1>2
<1>4. i # 0
  BY <1>3 DEF Doubles
<1>5. i - 1 \in Nat /\ i - 1 \notin T
  BY <1>2, <1>4
<1>6. g[i - 1] = h[i - 1]
  BY <1>3, <1>5
<1> QED BY <1>3, <1>4, <1>6 DEF Doubles

\* What the definition of Pow2 says of it
LEMMA Pow2Def ==
  /\ Pow2[0] = 1
  /\ \A n \in Nat : Pow2[n] \in Nat /\ Pow2[n + 1] = 2 * Pow2[n]
<1>1. PICK G : G = [n \in Nat |-> CHOOSE g : Doubles(g, n)]
  OBVIOUS
<1>2. \A n \in Nat : Doubles(G[n], n)
  BY <1>1, DoublesExist
<1>3. PICK f : f = [n \in Nat |-> G[n][n]]
  OBVIOUS
<1>4. ASSUME NEW n \in Nat PROVE f[n] = IF n = 0 THEN 1 ELSE 2 * f[n - 1]
  <2>1. f[n] = G[n][n] /\ Doubles(G[n], n) /\ n \in 0 .. n
    BY <1>2, <1>3
  <2>2. CASE n = 0
    BY <2>1, <2>2 DEF Doubles
  <2>3. CASE n # 0
    <3>1. PICK m \in Nat : m = n - 1
      BY <2>3
    <3>2. f[m] = G[m][m] /\ Doubles(G[m], m) /\ m \in 0 .. m /\ m \in 0 .. n
      BY <1>2, <1>3, <3>1
    <3>3. G[m][m] = G[n][m]
      BY <2>1, <3>2, DoublesAgree
    <3>4. G[n][n] = 2 * G[n][n - 1]
      BY <2>1, <2>3 DEF Doubles
    <3> QED BY <2>1, <2>3, <3>1, <3>2, <3>3, <3>4
  <2> QED BY <2>2, <2>3
<1>5. f = [n \in Nat |-> IF n = 0 THEN 1 ELSE 2 * f[n - 1]]
  BY <1>3, <1>4
<1>6. Pow2 = [n \in Nat |-> IF n = 0 THEN 1 ELSE 2 * Pow2[n - 1]]
  BY <1>5 DEF Pow2
<1>7. \A n \in Nat : Pow2[n] = IF n = 0 THEN 1 ELSE 2 * Pow2[n - 1]
  BY <1>6
<1>8. ASSUME NEW n \in Nat PROVE Pow2[n] \in Nat
  <2> DEFINE T == {i \in Nat : Pow2[i] \notin Nat}
  <2>1. SUFFICES ASSUME T # {} PROVE FALSE
    OBVIOUS
  <2>2. PICK i \in T : \A y \in T : i <= y
    BY <2>1, LeastNumber
  <2>3. i # 0
    BY <1>7, <2>2
  <2>4. i - 1 \in Nat /\ i - 1 \notin T
    BY <2>2, <2>3
  <2> QED BY <1>7, <2>2, <2>3, <2>4
<1>9. ASSUME NEW n \in Nat PROVE Pow2[n + 1] = 2 * Pow2[n]
  BY <1>7
<1> QED BY <1>7, <1>8, <1>9

LEMMA Pow2Large ==
  ASSUME NEW n \in Nat
  PROVE  n < Pow2[n]
<1> DEFINE T == {i \in Nat : ~(i < Pow2[i])}
<1>1. SUFFICES ASSUME T # {} PROVE FALSE
  OBVIOUS
<1>2. PICK i \in T : \A y \in T : i <= y
  BY <1>1, LeastNumber
<1>3. i # 0
  BY <1>2, Pow2Def
<1>4. PICK j \in Nat : i = j + 1
  BY <1>3
<1>5. j \notin T
  BY <1>2, <1>4
<1>6. Pow2[i] = 2 * Pow2[j] /\ Pow2[j] \in Nat /\ j < Pow2[j]
  BY <1>4, <1>5, Pow2Def
<1> QED BY <1>2, <1>4, <1>6

LEMMA Pow2Adds ==
  ASSUME NEW m \in Nat, NEW n \in Nat
  PROVE  Pow2[m + n] = Pow2[m] * Pow2[n]
<1> DEFINE T == {i \in Nat : Pow2[m + i] # Pow2[m] * Pow2[i]}
<1>1. SUFFICES ASSUME T # {} PROVE FALSE
  OBVIOUS
<1>2. PICK i \in T : \A y \in T : i <= y
  BY <1>1, LeastNumber
<1>3. i # 0
  BY <1>2, Pow2Def
<1>4. PICK j \in Nat : i = j + 1
  BY <1>3
<1>5. j \notin T
  BY <1>2, <1>4
<1>6. PICK a \in Nat, b \in Nat : a = Pow2[m] /\ b = Pow2[j]
  BY Pow2Def
<1>7. Pow2[m + j] = a * b
  BY <1>5, <1>6
<1>8. Pow2[i] = 2 * b
  BY <1>4, <1>6, Pow2Def
<1>9. Pow2[m + i] = 2 * (a * b)
  <2>1. PICK k \in Nat : k = m + j
    OBVIOUS
  <2>2. Pow2[k + 1] = 2 * Pow2[k] /\ m + i = k + 1
    BY <1>4, <2>1, Pow2Def
  <2> QED BY <1>7, <2>1, <2>2
<1>10. 2 * (a * b) = a * (2 * b)
  OBVIOUS
<1> QED BY <1>2, <1>6, <1>8, <1>9, <1>10

\* Enough bits for every number below n
LEMMA BitsHold ==
  ASSUME NEW n \in Nat
  PROVE  Bits(n) \in Nat /\ n <= Pow2[Bits(n)]
<1>1. PICK T : T = {b \in 0 .. n : Pow2[b] >= n}
  OBVIOUS
<1>2. Pow2[n] >= n
  BY Pow2Large, Pow2Def
<1>3. n \in T
  BY <1>1, <1>2
<1>5. T \in SUBSET Nat
  BY <1>1
<1>4. Bits(n) \in T
  BY <1>1, <1>3, <1>5, LeastNumber DEF Bits, Min
<1> QED BY <1>1, <1>4, Pow2Def

----------------------------------------------------------------------------
(* Hart ids: core, warp and thread are the digits of the id.               *)

LEMMA Digits ==
  ASSUME NEW n \in Nat, NEW x \in Nat, NEW y \in Nat, NEW r \in 0 .. n - 1, NEW s \in 0 .. n - 1,
         x * n + r = y * n + s
  PROVE  x = y /\ r = s
<1>1. ASSUME NEW i \in Nat, NEW j \in Nat, i < j PROVE i * n + n <= j * n
  <2>1. PICK d \in Nat : j = i + 1 + d
    <3>1. j - i - 1 \in Nat /\ j = i + 1 + (j - i - 1)
      BY <1>1
    <3> QED BY <3>1
  <2>2. j * n = i * n + n + d * n /\ d * n >= 0
    BY <2>1, SMT
  <2> QED BY <2>2
<1>2. ~(x < y)
  BY <1>1
<1>3. ~(y < x)
  BY <1>1
<1> QED BY <1>2, <1>3

Radix(d, W, T) ==
  \A c, w, t \in Nat :
    HartId(d, c, w, t) = (c * W + w) * T + t /\ HartId(d, c, w, t) \in Nat

LEMMA HartIds ==
  ASSUME NEW d \in Devices
  PROVE  /\ d.warps \in Nat \ {0} /\ d.threads \in Nat \ {0} /\ d.cores \in Nat \ {0}
         /\ \E W, T \in Nat : d.warps <= W /\ d.threads <= T /\ Radix(d, W, T)
<1>1. d.warps \in Nat \ {0} /\ d.threads \in Nat \ {0} /\ d.cores \in Nat \ {0}
  BY LayoutAssumption
<1>2. PICK i \in Nat, j \in Nat : i = Bits(d.warps) /\ j = Bits(d.threads)
  BY <1>1, BitsHold
<1>3. PICK W \in Nat, T \in Nat : W = Pow2[i] /\ T = Pow2[j]
  BY Pow2Def
<1>4. d.warps <= W /\ d.threads <= T
  BY <1>1, <1>2, <1>3, BitsHold
<1>5. Pow2[i + j] = W * T
  BY <1>3, Pow2Adds
<1>6. ASSUME NEW c \in Nat, NEW w \in Nat, NEW t \in Nat
      PROVE  HartId(d, c, w, t) = (c * W + w) * T + t /\ HartId(d, c, w, t) \in Nat
  <2>1. HartId(d, c, w, t) = c * (W * T) + w * T + t
    BY <1>2, <1>3, <1>5 DEF HartId
  <2>2. c * (W * T) + w * T = (c * W + w) * T
    BY SMT
  <2>3. (c * W + w) * T \in Nat
    BY SMT
  <2> QED BY <2>1, <2>2, <2>3
<1>7. Radix(d, W, T)
  BY <1>6 DEF Radix
<1> QED BY <1>1, <1>4, <1>7

\* Ids of different harts differ.
LEMMA HartIdsDiffer ==
  ASSUME NEW d \in Devices,
         NEW c \in Nat, NEW w \in 0 .. d.warps - 1, NEW t \in 0 .. d.threads - 1,
         NEW e \in Nat, NEW v \in 0 .. d.warps - 1, NEW u \in 0 .. d.threads - 1,
         HartId(d, c, w, t) = HartId(d, e, v, u)
  PROVE  c = e /\ w = v /\ t = u
<1>1. PICK W \in Nat, T \in Nat : d.warps <= W /\ d.threads <= T /\ Radix(d, W, T)
  BY HartIds
<1>7. d.warps \in Nat /\ d.threads \in Nat
  BY HartIds
<1>2. w \in 0 .. W - 1 /\ v \in 0 .. W - 1 /\ t \in 0 .. T - 1 /\ u \in 0 .. T - 1
  BY <1>1, <1>7
<1>3. PICK x \in Nat, y \in Nat : x = c * W + w /\ y = e * W + v
  <2>1. c * W + w \in Nat /\ e * W + v \in Nat
    BY <1>2, SMT
  <2> QED BY <2>1
<1>4. x * T + t = y * T + u
  <2>1. HartId(d, c, w, t) = (c * W + w) * T + t /\ HartId(d, e, v, u) = (e * W + v) * T + u
    BY <1>1, <1>2 DEF Radix
  <2> QED BY <1>3, <2>1
<1>5. x = y /\ t = u
  BY <1>2, <1>4, Digits
<1>6. c = e /\ w = v
  BY <1>2, <1>3, <1>5, Digits
<1> QED BY <1>5, <1>6

\* No id is above that of the last thread of the last warp of the last core.
LEMMA HartIdsEnd ==
  ASSUME NEW d \in Devices,
         NEW c \in 0 .. num_cores - 1, NEW w \in 0 .. d.warps - 1, NEW t \in 0 .. d.threads - 1
  PROVE  /\ HartId(d, c, w, t) \in Nat
         /\ HartId(d, num_cores - 1, d.warps - 1, d.threads - 1) \in Nat
         /\ HartId(d, c, w, t) <= HartId(d, num_cores - 1, d.warps - 1, d.threads - 1)
<1>1. PICK W \in Nat, T \in Nat : d.warps <= W /\ d.threads <= T /\ Radix(d, W, T)
  BY HartIds
<1>10. d.warps \in Nat \ {0} /\ d.threads \in Nat \ {0}
  BY HartIds
<1>2. PICK m \in Nat, n \in Nat : m = d.warps - 1 /\ n = d.threads - 1 /\ w <= m /\ t <= n
  BY <1>10
<1>3. num_cores - 1 = 3 /\ c \in Nat /\ c <= 3 /\ w \in Nat /\ t \in Nat
  BY DEF num_cores
<1>4. c * W <= 3 * W
  BY <1>3, SMT
<1>5. PICK x \in Nat, y \in Nat : x = c * W + w /\ y = 3 * W + m
  <2>1. c * W + w \in Nat /\ 3 * W + m \in Nat
    BY <1>3, SMT
  <2> QED BY <2>1
<1>6. x <= y
  BY <1>2, <1>3, <1>4, <1>5
<1>7. x * T <= y * T
  BY <1>6, SMT
<1>8. /\ HartId(d, c, w, t) = x * T + t /\ HartId(d, c, w, t) \in Nat
      /\ HartId(d, 3, m, n) = y * T + n /\ HartId(d, 3, m, n) \in Nat
  <2>1. HartId(d, c, w, t) = (c * W + w) * T + t /\ HartId(d, c, w, t) \in Nat
    BY <1>1, <1>3 DEF Radix
  <2>2. PICK k \in Nat : k = 3
    OBVIOUS
  <2>3. HartId(d, k, m, n) = (k * W + m) * T + n /\ HartId(d, k, m, n) \in Nat
    BY <1>1 DEF Radix
  <2> QED BY <1>5, <2>1, <2>2, <2>3
<1>9. x * T + t <= y * T + n
  BY <1>2, <1>3, <1>7
<1> QED BY <1>2, <1>3, <1>8, <1>9

----------------------------------------------------------------------------
(* The image: what each branch of allocate_vxbin_segments_ asks for.       *)

LEMMA Image ==
  ASSUME bin \in Binaries
  PROVE  /\ bin.size \in Nat /\ bin.runtime \in Nat /\ bin.runtime > 0 /\ bin.size <= bin.runtime
         /\ min_vma \in Nat /\ min_vma > 0 /\ max_vma \in Nat /\ min_vma < max_vma
         /\ Page(min_vma) = FirstPage /\ ImagePages = FirstPage .. Page(max_vma - 1)
         /\ Page(max_vma - 1) \in Int
<1>1. bin.size \in Nat /\ bin.runtime \in Nat /\ bin.runtime > 0 /\ bin.size <= bin.runtime
  BY LayoutAssumption
<1>2. Page(min_vma) = FirstPage
  BY PageStarts, Sizes DEF min_vma
<1>3. min_vma \in Nat /\ min_vma > 0
  <2>1. FirstPage * PageSize \in Int /\ 0 * PageSize < FirstPage * PageSize
    BY Times, Sizes
  <2> QED BY <2>1, Sizes DEF min_vma
<1>4. max_vma \in Nat /\ min_vma < max_vma
  BY <1>1, <1>3 DEF max_vma
<1> QED BY <1>1, <1>2, <1>3, <1>4, Split DEF ImagePages

\* The code up to the page it shares with the data, that page, and what follows
LEMMA SharedBoundary ==
  ASSUME bin \in Binaries, shared_boundary
  PROVE  \E L \in Int :
           /\ FirstPage <= L /\ last_code_page = L * PageSize /\ data_va = (L + 1) * PageSize
           /\ last_code_page > min_vma =>
                PagesOf(min_vma, last_code_page - min_vma) = FirstPage .. L - 1
           /\ ~(last_code_page > min_vma) => FirstPage .. L - 1 = {}
           /\ PagesOf(last_code_page, PageSize) = L .. L
           /\ L * PageSize < max_vma
<1>1. PICK L \in Int : L = Page(code_end)
  <2>1. code_end \in Int
    BY Image DEF code_end
  <2> QED BY <2>1, Split
<1>2. last_code_page = L * PageSize /\ data_va = L * PageSize + PageSize /\ max_vma > code_end
  BY <1>1 DEF shared_boundary, Floor, data_va, has_data
<1>3. code_end \in Int /\ code_end >= min_vma /\ min_vma \in Nat /\ max_vma \in Nat
  BY Image DEF code_end
<1>4. L * PageSize <= code_end /\ code_end < L * PageSize + PageSize
  BY <1>1, <1>3, InPage
<1>5. FirstPage <= L
  <2>1. Page(min_vma) <= Page(code_end)
    BY <1>3, PageOrder
  <2> QED BY <1>1, <2>1, Image
<1>6. data_va = (L + 1) * PageSize
  <2>1. (L + 1) * PageSize = L * PageSize + 1 * PageSize
    BY Times
  <2> QED BY <1>2, <2>1, Sizes
<1>7. PagesOf(last_code_page, PageSize) = L .. L
  <2>1. PICK n \in Nat, a \in Int : n = PageSize /\ a = L * PageSize + n - 1
    BY Sizes, Times
  <2>2. Page(a) = L
    BY <2>1, InPage, Times, Sizes
  <2>3. PagesOf(L * PageSize, n) = L .. Page(L * PageSize + n - 1)
    BY PagesOfBytes
  <2> QED BY <1>2, <2>1, <2>2, <2>3
<1>8. ASSUME last_code_page > min_vma
      PROVE  PagesOf(min_vma, last_code_page - min_vma) = FirstPage .. L - 1
  <2>7. L * PageSize \in Int
    BY Times
  <2>1. PICK n \in Nat, a \in Int : n = last_code_page - min_vma /\ a = L * PageSize - 1
    BY <1>2, <1>3, <1>8, <2>7
  <2>2. PICK k \in Int : k = L - 1
    OBVIOUS
  <2>3. k * PageSize = L * PageSize - 1 * PageSize
    BY <2>2, Times
  <2>4. Page(a) = k
    BY <2>1, <2>3, InPage, Times, Sizes
  <2>5. PagesOf(FirstPage * PageSize, n) = FirstPage .. Page(FirstPage * PageSize + n - 1)
    BY PagesOfBytes, Sizes
  <2>6. FirstPage * PageSize + n - 1 = a
    BY <1>2, <1>3, <2>1 DEF min_vma
  <2> QED BY <2>1, <2>2, <2>4, <2>5, <2>6 DEF min_vma
<1>9. ASSUME ~(last_code_page > min_vma) PROVE FirstPage .. L - 1 = {}
  <2>3. L * PageSize \in Int /\ FirstPage * PageSize \in Int
    BY Times, Sizes
  <2>1. L * PageSize <= FirstPage * PageSize
    BY <1>2, <1>9, <2>3 DEF min_vma
  <2>2. L <= FirstPage
    BY <2>1, Times, Sizes
  <2> QED BY <2>2, Sizes
<1>10. L * PageSize < max_vma
  BY <1>2, <1>3, <1>4, Times
<1> QED BY <1>2, <1>5, <1>6, <1>7, <1>8, <1>9, <1>10

\* The code alone on its pages
LEMMA OwnBoundary ==
  ASSUME bin \in Binaries, ~shared_boundary
  PROVE  \E D \in Int :
           /\ FirstPage <= D /\ data_va = D * PageSize
           /\ PagesOf(min_vma, Align(bin.size)) = FirstPage .. D - 1
           /\ data_va < max_vma + PageSize
<1>1. PICK q \in Int : \E r \in 0 .. PageSize - 1 : bin.size = q * PageSize + r /\ q >= 0
  <2>1. PICK n \in Nat : n = bin.size
    BY Image
  <2> QED BY <2>1, Parts
<1>9. PICK r \in 0 .. PageSize - 1 : bin.size = q * PageSize + r /\ q >= 0
  BY <1>1
<1>2. PICK c \in Int : c = IF r = 0 THEN q ELSE q + 1
  OBVIOUS
<1>3. Align(bin.size) = c * PageSize /\ c >= 0
  BY <1>9, <1>2, AlignIs
<1>4. PICK D \in Int : D = FirstPage + c
  BY Sizes
<1>5. (FirstPage + c) * PageSize = FirstPage * PageSize + c * PageSize
  BY Times, Sizes
<1>6. data_va = D * PageSize
  BY <1>3, <1>4, <1>5 DEF data_va, min_vma
<1>7. PagesOf(min_vma, Align(bin.size)) = FirstPage .. D - 1
  <2>1. PICK n \in Nat, a \in Int : n = c * PageSize /\ a = D * PageSize - 1
    <3>1. 0 * PageSize <= c * PageSize /\ c * PageSize \in Int
      BY <1>3, Times
    <3>2. D * PageSize \in Int /\ 0 * PageSize = 0
      BY Times, Sizes
    <3>3. c * PageSize \in Nat
      BY <3>1, <3>2
    <3> QED BY <3>2, <3>3
  <2>2. PICK k \in Int : k = D - 1
    OBVIOUS
  <2>3. (D - 1) * PageSize = D * PageSize - 1 * PageSize
    BY Times
  <2>4. Page(a) = k
    BY <2>1, <2>2, <2>3, InPage, Times, Sizes
  <2>5. PagesOf(FirstPage * PageSize, n) = FirstPage .. Page(FirstPage * PageSize + n - 1)
    BY PagesOfBytes, Sizes
  <2>6. FirstPage * PageSize + n - 1 = a
    <3>1. FirstPage * PageSize \in Int
      BY Times, Sizes
    <3> QED BY <1>4, <1>5, <2>1, <3>1
  <2> QED BY <1>3, <2>1, <2>2, <2>4, <2>5, <2>6 DEF min_vma
<1>8. data_va < max_vma + PageSize
  <2>1. c * PageSize < bin.size + PageSize
    <3>1. (q + 1) * PageSize = q * PageSize + 1 * PageSize
      BY Times
    <3> QED BY <1>9, <1>2, <3>1, Times, Sizes
  <2>2. FirstPage * PageSize \in Int /\ c * PageSize \in Int
    BY Times, Sizes
  <2>3. PICK x \in Int, y \in Int : x = FirstPage * PageSize /\ y = c * PageSize
    BY <2>2
  <2>4. data_va = x + y /\ max_vma = x + bin.runtime
    BY <1>4, <1>5, <1>6, <2>3 DEF max_vma, min_vma
  <2>5. bin.size \in Nat /\ bin.runtime \in Nat /\ bin.size <= bin.runtime /\ PageSize \in Int
    BY Image, Sizes
  <2> QED BY <2>1, <2>3, <2>4, <2>5
<1> QED BY <1>3, <1>4, <1>6, <1>7, <1>8, Sizes

\* The rest of the image
LEMMA Rest ==
  ASSUME bin \in Binaries, NEW D \in Int, FirstPage <= D, data_va = D * PageSize,
         data_va < max_vma + PageSize
  PROVE  /\ D - 1 <= Page(max_vma - 1)
         /\ max_vma > data_va => PagesOf(data_va, max_vma - data_va) = D .. Page(max_vma - 1)
         /\ ~(max_vma > data_va) => Page(max_vma - 1) = D - 1
<1>1. max_vma \in Nat /\ D * PageSize \in Int
  BY Image, Times
<1>2. PICK a \in Int, k \in Int : a = max_vma - 1 /\ k = D - 1
  BY <1>1
<1>3. k * PageSize = D * PageSize - 1 * PageSize
  BY <1>2, Times
<1>4. k * PageSize <= a
  BY <1>1, <1>2, <1>3, Sizes
<1>5. k <= Page(a)
  <2>1. Page(a) < k <=> a < k * PageSize
    BY PageOrder
  <2>2. k * PageSize \in Int /\ Page(a) \in Int
    BY Times, Split
  <2> QED BY <1>4, <2>1, <2>2
<1>6. ASSUME max_vma > data_va PROVE PagesOf(data_va, max_vma - data_va) = D .. Page(a)
  <2>1. PICK n \in Nat : n = max_vma - D * PageSize
    BY <1>1, <1>6
  <2>2. PagesOf(D * PageSize, n) = D .. Page(D * PageSize + n - 1)
    BY PagesOfBytes
  <2>3. D * PageSize + n - 1 = a
    BY <1>1, <1>2, <2>1
  <2> QED BY <2>1, <2>2, <2>3
<1>7. ASSUME ~(max_vma > data_va) PROVE Page(a) = k
  <2>1. a < k * PageSize + PageSize
    BY <1>1, <1>2, <1>3, <1>7, Sizes
  <2> QED BY <1>2, <1>4, <2>1, InPage
<1> QED BY <1>2, <1>5, <1>6, <1>7

\* Without data the code has the last page of the image.
LEMMA NoData ==
  ASSUME bin \in Binaries, ~has_data
  PROVE  ~(max_vma > data_va)
<1>1. code_end = max_vma /\ ~shared_boundary
  BY Image DEF has_data, code_end, max_vma, shared_boundary
<1>4. PICK q \in Int : \E r \in 0 .. PageSize - 1 : bin.size = q * PageSize + r
  <2>1. PICK n \in Nat : n = bin.size
    BY Image
  <2> QED BY <2>1, Parts
<1>2. PICK r \in 0 .. PageSize - 1 : bin.size = q * PageSize + r
  BY <1>4
<1>3. bin.size <= Align(bin.size) /\ Align(bin.size) \in Int
  <2>1. (q + 1) * PageSize = q * PageSize + 1 * PageSize
    BY Times
  <2>2. q * PageSize \in Int /\ 1 * PageSize = PageSize
    BY Times, Sizes
  <2>3. Align(bin.size) = IF r = 0 THEN q * PageSize ELSE (q + 1) * PageSize
    BY <1>2, AlignIs
  <2> QED BY <1>2, <2>1, <2>2, <2>3, Sizes
<1> QED BY <1>1, <1>3, Image DEF data_va, code_end

----------------------------------------------------------------------------
(* The stacks.                                                             *)

(***************************************************************************)
(* What the code takes for granted: the run time image of every binary     *)
(* ends below the stacks of every device.  (allocate_vm_pages would find a *)
(* page of a longer image mapped already.)                                 *)
(***************************************************************************)
Slots(d) == HartId(d, num_cores - 1, d.warps - 1, d.threads - 1) + 1

ImageBelowStacks ==
  \A b \in Binaries, d \in Devices : min_vma + b.runtime <= StackEnd - StackSize * Slots(d)

LEMMA SlotsNat ==
  ASSUME NEW d \in Devices
  PROVE  Slots(d) \in Nat /\ Slots(d) > 0
<1>1. PICK c \in 0 .. num_cores - 1, w \in 0 .. d.warps - 1, t \in 0 .. d.threads - 1 : TRUE
  <2>1. 0 \in 0 .. num_cores - 1 /\ 0 \in 0 .. d.warps - 1 /\ 0 \in 0 .. d.threads - 1
    BY HartIds DEF num_cores
  <2> QED BY <2>1
<1>2. HartId(d, num_cores - 1, d.warps - 1, d.threads - 1) \in Nat
  BY HartIdsEnd
<1> QED BY <1>2 DEF Slots

LEMMA Whole ==
  ASSUME NEW n \in Nat, n % PageSize = 0
  PROVE  Page(n) \in Nat /\ n = Page(n) * PageSize
<1>1. PICK q \in Int : q = Page(n)
  BY Split
<1>2. n = q * PageSize + 0 /\ q >= 0
  BY <1>1, Split
<1>3. q * PageSize \in Int
  BY Times
<1> QED BY <1>1, <1>2, <1>3

LEMMA Regroup ==
  ASSUME NEW k \in Nat, NEW m \in Nat, NEW p \in Nat
  PROVE  (k * p) * m = (k * m) * p
BY SMT

LEMMA Stacks ==
  ASSUME ImageBelowStacks, bin \in Binaries, dev \in Devices
  PROVE  /\ Table = 0 .. Page(StackEnd) - 1
         /\ StackPages = PagesOf(StackEnd - StackSize * n_stack_slots, StackSize * n_stack_slots)
         /\ max_vma <= StackEnd - StackSize * n_stack_slots
         /\ ImagePages \subseteq Table /\ StackPages \subseteq Table
         /\ ImagePages \cap StackPages = {}
         /\ n_stack_slots \in Nat
<1>1. PICK m \in Nat : m = n_stack_slots /\ m > 0 /\ m = Slots(dev)
  BY SlotsNat DEF n_stack_slots, Slots
<1>2. PICK e \in Nat, k \in Nat :
         e = Page(StackEnd) /\ k = Page(StackSize) /\ StackEnd = e * PageSize /\ StackSize = k * PageSize
  BY Whole, LayoutAssumption
<1>3. PICK z \in Nat : z = k * m
  OBVIOUS
<1>4. StackSize * m = z * PageSize
  <2>1. PICK p \in Nat : p = PageSize
    BY Sizes
  <2>2. (k * p) * m = (k * m) * p
    BY Regroup
  <2> QED BY <1>2, <1>3, <2>1, <2>2
<1>5. PICK x \in Int : x = e - z
  OBVIOUS
<1>6. x * PageSize = e * PageSize - z * PageSize
  BY <1>5, Times
<1>7. PICK n \in Nat : n = StackSize * m
  BY Sizes, SMT
<1>8. StackEnd - StackSize * m = x * PageSize /\ x * PageSize \in Int
  BY <1>2, <1>4, <1>6, Times
<1>9. max_vma <= x * PageSize
  BY <1>1, <1>8 DEF ImageBelowStacks, max_vma
<1>10. PagesOf(x * PageSize, n) = x .. e - 1
  <2>1. PICK a \in Int, y \in Int : a = StackEnd - 1 /\ y = e - 1
    BY Sizes
  <2>2. (e - 1) * PageSize = e * PageSize - 1 * PageSize
    BY Times
  <2>6. 1 * PageSize = PageSize /\ e * PageSize \in Int
    BY Times, Sizes
  <2>3. Page(a) = y
    <3>1. y * PageSize <= a /\ a < y * PageSize + PageSize
      <4>1. y * PageSize = e * PageSize - PageSize
        BY <2>1, <2>2, <2>6
      <4>2. a = e * PageSize - 1
        BY <1>2, <2>1
      <4>3. PICK v \in Int, u \in Int : v = e * PageSize /\ u = y * PageSize
        BY <2>6, Times
      <4> QED BY <4>1, <4>2, <4>3, Sizes
    <3> QED BY <3>1, InPage
  <2>4. x * PageSize + n - 1 = a
    BY <1>7, <1>8, <2>1, Sizes
  <2>5. PagesOf(x * PageSize, n) = x .. Page(x * PageSize + n - 1)
    BY PagesOfBytes
  <2> QED BY <2>1, <2>3, <2>4, <2>5
<1>11. Page(x * PageSize) = x
  BY PageStarts
<1>12. StackPages = x .. e - 1
  BY <1>1, <1>2, <1>8, <1>11 DEF StackPages
<1>13. PICK a \in Int : a = max_vma - 1
  BY Image
<1>14. Page(a) \in Int /\ Page(a) < x /\ ImagePages = FirstPage .. Page(a)
  <2>1. Page(a) < x <=> a < x * PageSize
    BY PageOrder
  <2> QED BY <1>8, <1>9, <1>13, <2>1, Image, Split
<1>15. x > 0 /\ x <= e
  <2>1. FirstPage <= Page(a)
    <3>1. PICK b \in Int : b = min_vma /\ b <= a /\ Page(b) = FirstPage
      BY <1>13, Image
    <3> QED BY <3>1, PageOrder
  <2> QED BY <1>5, <1>14, <2>1, Sizes
<1>16. Table = 0 .. e - 1
  BY <1>2 DEF Table
<1>17. ImagePages \subseteq Table /\ ImagePages \cap StackPages = {} /\ StackPages \subseteq Table
  BY <1>12, <1>14, <1>15, <1>16, Sizes
<1> QED BY <1>1, <1>2, <1>7, <1>8, <1>9, <1>10, <1>12, <1>16, <1>17

----------------------------------------------------------------------------
(* The inductive invariant: which pages have been asked for, once each.    *)

Counts(S) == mapped = [p \in Table |-> IF p \in S THEN 1 ELSE 0]

MapInv ==
  /\ pc = "code" => Counts({})
  /\ pc = "boundary" => shared_boundary /\ Counts(FirstPage .. Page(last_code_page) - 1)
  /\ pc = "data" => Counts(FirstPage .. Page(data_va) - 1)
  /\ pc = "stack" => Counts(ImagePages)
  /\ pc \in {"begin", "copy", "done"} => Counts(ImagePages \cup StackPages)

\* What has been copied: the first bytes of the buffer, all at their places.
Copied(n) == {<<Physical(job.va + i), i>> : i \in 0 .. n - 1}

CopyInv ==
  /\ pc \notin {"copy", "done"} => offset = 0 /\ moved = {}
  /\ pc \in {"copy", "done"} =>
       /\ job.va \in Nat /\ job.size \in Nat
       /\ min_vma <= job.va /\ job.va + job.size <= max_vma
       /\ offset \in 0 .. job.size /\ va = job.va + offset
       /\ offset \in 1 .. job.size - 1 => va % PageSize = 0
       /\ ~RefusedAtTheEnd => moved = Copied(offset)
  /\ pc = "done" => offset = job.size

IInv ==
  /\ bin \in Binaries /\ dev \in Devices
  /\ pc \in {"code", "boundary", "data", "stack", "begin", "copy", "done"}
  /\ MapInv
  /\ CopyInv

LEMMA Maps ==
  ASSUME NEW S, NEW a, NEW n, Counts(S), PagesOf(a, n) \cap S = {}, AllocateVmPages(a, n)
  PROVE  Counts(S \cup PagesOf(a, n))'
<1>1. PICK Q : Q = PagesOf(a, n)
  OBVIOUS
<1>2. mapped' = [p \in Table |-> mapped[p] + (IF p \in Q THEN 1 ELSE 0)]
  BY <1>1 DEF AllocateVmPages
<1>3. \A p \in Table : mapped[p] = IF p \in S THEN 1 ELSE 0
  BY DEF Counts
<1>4. \A p \in Table : mapped[p] + (IF p \in Q THEN 1 ELSE 0) = IF p \in S \cup Q THEN 1 ELSE 0
  BY <1>1, <1>3
<1>5. mapped' = [p \in Table |-> IF p \in S \cup Q THEN 1 ELSE 0]
  BY <1>2, <1>4
<1> QED BY <1>1, <1>5 DEF Counts

\* The steps that map go on with the same binary, device and copy.
LEMMA ThenSame ==
  ASSUME IInv, NEW next, Then(next), next \in {"boundary", "data", "stack", "begin"},
         pc \in {"code", "boundary", "data", "stack"}
  PROVE  /\ bin' = bin /\ dev' = dev /\ pc' = next
         /\ CopyInv' /\ bin' \in Binaries /\ dev' \in Devices
BY DEF Then, IInv, CopyInv

LEMMA InitInv == Init => IInv
<1> SUFFICES ASSUME Init PROVE IInv
  OBVIOUS
<1>1. Counts({})
  BY DEF Init, Counts
<1> QED BY <1>1 DEF Init, IInv, MapInv, CopyInv

LEMMA MapCodeInv ==
  ASSUME IInv, MapCode
  PROVE  IInv'
<1>1. pc = "code" /\ bin \in Binaries /\ Counts({})
  BY DEF MapCode, IInv, MapInv
<1>2. CASE shared_boundary
  <2>1. Then("boundary")
    BY <1>2 DEF MapCode
  <2>2. bin' = bin /\ pc' = "boundary" /\ CopyInv' /\ bin' \in Binaries /\ dev' \in Devices
    BY <1>1, <2>1, ThenSame
  <2>3. shared_boundary' /\ last_code_page' = last_code_page
    BY <1>2, <2>2 DEF shared_boundary, last_code_page, has_data, code_end, max_vma, Floor
  <2>4. PICK L \in Int :
           /\ last_code_page = L * PageSize
           /\ last_code_page > min_vma =>
                PagesOf(min_vma, last_code_page - min_vma) = FirstPage .. L - 1
           /\ ~(last_code_page > min_vma) => FirstPage .. L - 1 = {}
    BY <1>1, <1>2, SharedBoundary
  <2>5. Page(last_code_page) = L
    BY <2>4, PageStarts
  <2>6. Counts(FirstPage .. L - 1)'
    <3>1. CASE last_code_page > min_vma
      <4>1. PICK a, n : a = min_vma /\ n = last_code_page - min_vma
        OBVIOUS
      <4>2. AllocateVmPages(a, n) /\ PagesOf(a, n) = FirstPage .. L - 1
        BY <1>2, <2>4, <3>1, <4>1 DEF MapCode
      <4>3. Counts({} \cup PagesOf(a, n))'
        BY <1>1, <4>2, Maps
      <4> QED BY <4>2, <4>3
    <3>2. CASE ~(last_code_page > min_vma)
      BY <1>1, <1>2, <2>4, <3>2 DEF MapCode, Counts
    <3> QED BY <3>1, <3>2
  <2> QED BY <2>2, <2>3, <2>5, <2>6 DEF IInv, MapInv
<1>3. CASE ~shared_boundary
  <2>1. Then("data")
    BY <1>3 DEF MapCode
  <2>2. bin' = bin /\ pc' = "data" /\ CopyInv' /\ bin' \in Binaries /\ dev' \in Devices
    BY <1>1, <2>1, ThenSame
  <2>3. PICK D \in Int : data_va = D * PageSize /\ PagesOf(min_vma, Align(bin.size)) = FirstPage .. D - 1
    BY <1>1, <1>3, OwnBoundary
  <2>4. data_va' = data_va
    BY <2>2 DEF data_va, shared_boundary, last_code_page, has_data, code_end, max_vma
  <2>5. Page(data_va) = D
    BY <2>3, PageStarts
  <2>6. Counts(FirstPage .. D - 1)'
    <3>1. PICK a, n : a = min_vma /\ n = Align(bin.size)
      OBVIOUS
    <3>2. AllocateVmPages(a, n) /\ PagesOf(a, n) = FirstPage .. D - 1
      BY <1>3, <2>3, <3>1 DEF MapCode
    <3>3. Counts({} \cup PagesOf(a, n))'
      BY <1>1, <3>2, Maps
    <3> QED BY <3>2, <3>3
  <2> QED BY <2>2, <2>4, <2>5, <2>6 DEF IInv, MapInv
<1> QED BY <1>2, <1>3

LEMMA MapBoundaryInv ==
  ASSUME IInv, MapBoundary
  PROVE  IInv'
<1>1. pc = "boundary" /\ bin \in Binaries /\ shared_boundary /\ Then("data")
  BY DEF MapBoundary, IInv, MapInv
<1>2. bin' = bin /\ pc' = "data" /\ CopyInv' /\ bin' \in Binaries /\ dev' \in Devices
  BY <1>1, ThenSame
<1>3. PICK L \in Int :
         /\ FirstPage <= L /\ last_code_page = L * PageSize /\ data_va = (L + 1) * PageSize
         /\ PagesOf(last_code_page, PageSize) = L .. L
  BY <1>1, SharedBoundary
<1>4. Page(last_code_page) = L /\ Page(data_va) = L + 1
  <2>1. PICK k \in Int : k = L + 1
    OBVIOUS
  <2> QED BY <1>3, <2>1, PageStarts
<1>5. data_va' = data_va
  BY <1>2 DEF data_va, shared_boundary, last_code_page, has_data, code_end, max_vma
<1>6. PICK a, n : a = last_code_page /\ n = PageSize
  OBVIOUS
<1>7. Counts(FirstPage .. L - 1) /\ AllocateVmPages(a, n) /\ PagesOf(a, n) = L .. L
  BY <1>1, <1>3, <1>4, <1>6 DEF MapBoundary, IInv, MapInv
<1>8. PagesOf(a, n) \cap (FirstPage .. L - 1) = {}
  BY <1>7, Sizes
<1>9. PICK S : S = FirstPage .. L - 1
  OBVIOUS
<1>10. Counts(S \cup PagesOf(a, n))'
  BY <1>7, <1>8, <1>9, Maps
<1>11. S \cup PagesOf(a, n) = FirstPage .. (L + 1) - 1
  BY <1>3, <1>7, <1>9, Sizes
<1>12. Counts(FirstPage .. (L + 1) - 1)'
  BY <1>10, <1>11
<1> QED BY <1>2, <1>4, <1>5, <1>12 DEF IInv, MapInv

LEMMA MapDataInv ==
  ASSUME IInv, MapData
  PROVE  IInv'
<1>1. pc = "data" /\ bin \in Binaries /\ Then("stack") /\ Counts(FirstPage .. Page(data_va) - 1)
  BY DEF MapData, IInv, MapInv
<1>2. bin' = bin /\ pc' = "stack" /\ CopyInv' /\ bin' \in Binaries /\ dev' \in Devices
  BY <1>1, ThenSame
<1>3. PICK D \in Int : FirstPage <= D /\ data_va = D * PageSize /\ data_va < max_vma + PageSize
  <2>1. CASE shared_boundary
    <3>1. PICK L \in Int :
             FirstPage <= L /\ data_va = (L + 1) * PageSize /\ L * PageSize < max_vma
      BY <1>1, <2>1, SharedBoundary
    <3>2. PICK k \in Int : k = L + 1
      OBVIOUS
    <3>3. (L + 1) * PageSize = L * PageSize + 1 * PageSize /\ L * PageSize \in Int
          /\ 1 * PageSize = PageSize
      BY Times, Sizes
    <3>4. FirstPage <= k /\ data_va = k * PageSize /\ data_va < max_vma + PageSize
      BY <1>1, <3>1, <3>2, <3>3, Image, Sizes
    <3> QED BY <3>4
  <2>2. CASE ~shared_boundary
    BY <1>1, <2>2, OwnBoundary
  <2> QED BY <2>1, <2>2
<1>4. Page(data_va) = D
  BY <1>3, PageStarts
<1>5. /\ D - 1 <= Page(max_vma - 1)
      /\ max_vma > data_va => PagesOf(data_va, max_vma - data_va) = D .. Page(max_vma - 1)
      /\ ~(max_vma > data_va) => Page(max_vma - 1) = D - 1
  BY <1>1, <1>3, Rest
<1>6. PICK l \in Int : l = Page(max_vma - 1) /\ ImagePages = FirstPage .. l
  BY <1>1, Image
<1>7. ImagePages' = ImagePages
  BY <1>2 DEF ImagePages, max_vma
<1>8. Counts(FirstPage .. l)'
  <2>1. CASE has_data /\ max_vma > data_va
    <3>1. PICK a, n : a = data_va /\ n = max_vma - data_va
      OBVIOUS
    <3>2. AllocateVmPages(a, n) /\ PagesOf(a, n) = D .. l
      BY <1>5, <1>6, <2>1, <3>1 DEF MapData
    <3>3. PICK S : S = FirstPage .. D - 1
      OBVIOUS
    <3>4. Counts(S) /\ PagesOf(a, n) \cap S = {}
      BY <1>1, <1>4, <3>2, <3>3, Sizes
    <3>5. Counts(S \cup PagesOf(a, n))'
      BY <3>2, <3>4, Maps
    <3>6. S \cup PagesOf(a, n) = FirstPage .. l
      BY <1>3, <1>5, <1>6, <3>2, <3>3, Sizes
    <3> QED BY <3>5, <3>6
  <2>2. CASE ~(has_data /\ max_vma > data_va)
    <3>1. ~(max_vma > data_va)
      BY <1>1, <2>2, NoData
    <3>2. mapped' = mapped
      BY <2>2 DEF MapData
    <3>3. Counts(FirstPage .. l)
      BY <1>1, <1>4, <1>5, <1>6, <3>1
    <3> QED BY <3>2, <3>3 DEF Counts
  <2> QED BY <2>1, <2>2
<1>9. Counts(ImagePages)'
  BY <1>6, <1>7, <1>8
<1> QED BY <1>2, <1>9 DEF IInv, MapInv

LEMMA MapStackInv ==
  ASSUME ImageBelowStacks, IInv, MapStack
  PROVE  IInv'
<1>1. /\ pc = "stack" /\ bin \in Binaries /\ dev \in Devices /\ Then("begin")
      /\ Counts(ImagePages)
  BY DEF MapStack, IInv, MapInv
<1>2. bin' = bin /\ dev' = dev /\ pc' = "begin" /\ CopyInv' /\ bin' \in Binaries /\ dev' \in Devices
  BY <1>1, ThenSame
<1>3. PICK S, a, n : /\ S = ImagePages
                     /\ a = StackEnd - StackSize * n_stack_slots /\ n = StackSize * n_stack_slots
  OBVIOUS
<1>4. PagesOf(a, n) = StackPages /\ PagesOf(a, n) \cap S = {}
  BY <1>1, <1>3, Stacks
<1>5. AllocateVmPages(a, n)
  BY <1>3 DEF MapStack
<1>6. Counts(S \cup PagesOf(a, n))'
  BY <1>1, <1>3, <1>4, <1>5, Maps
<1>7. ImagePages' = ImagePages /\ StackPages' = StackPages
  BY <1>2 DEF ImagePages, max_vma, StackPages, n_stack_slots
<1>8. Counts(ImagePages \cup StackPages)'
  BY <1>3, <1>4, <1>6, <1>7
<1> QED BY <1>2, <1>8 DEF IInv, MapInv

----------------------------------------------------------------------------
(* The copy.                                                               *)

LEMMA BeginCopyInv ==
  ASSUME IInv, BeginCopy
  PROVE  IInv'
<1>1. /\ pc = "begin" /\ bin \in Binaries /\ dev \in Devices
      /\ Counts(ImagePages \cup StackPages) /\ offset = 0 /\ moved = {}
  BY DEF BeginCopy, IInv, MapInv, CopyInv
<1>2. /\ va' = job'.va /\ pc' = "copy"
      /\ bin' = bin /\ dev' = dev /\ mapped' = mapped /\ offset' = offset /\ moved' = moved
  BY DEF BeginCopy
<1>3. PICK j : /\ job' = j /\ j.va \in Nat /\ j.size \in Nat
               /\ min_vma <= j.va /\ j.va + j.size <= max_vma
  <2>1. CASE job' = [va |-> min_vma, size |-> bin.size]
    BY <1>1, <2>1, Image DEF max_vma
  <2>2. CASE \E c \in Copies : c.va + c.size <= max_vma /\ job' = c
    <3>1. PICK c \in Copies : c.va + c.size <= max_vma /\ job' = c
      BY <2>2
    <3>2. c.va \in min_vma .. max_vma /\ c.size \in 1 .. CopySize
      BY DEF Copies
    <3> QED BY <1>1, <3>1, <3>2, Image, Sizes
  <2> QED BY <2>1, <2>2 DEF BeginCopy
<1>4. max_vma' = max_vma /\ ImagePages' = ImagePages /\ StackPages' = StackPages
  BY <1>2 DEF ImagePages, max_vma, StackPages, n_stack_slots
<1>5. MapInv'
  BY <1>1, <1>2, <1>4 DEF MapInv, Counts
<1>6. Copied(0)' = {}
  BY DEF Copied
<1>7. CopyInv'
  <2>1. offset' = 0 /\ moved' = {} /\ pc' = "copy" /\ job' = j /\ va' = j.va
    BY <1>1, <1>2, <1>3
  <2>2. offset' \in 0 .. j.size /\ va' = j.va + offset' /\ ~(offset' \in 1 .. j.size - 1)
    BY <1>3, <2>1
  <2> QED BY <1>3, <1>4, <1>6, <2>1, <2>2 DEF CopyInv
<1> QED BY <1>1, <1>2, <1>5, <1>7 DEF IInv

LEMMA CopyEndsInv ==
  ASSUME IInv, CopyEnds
  PROVE  IInv'
<1>1. /\ pc = "copy" /\ offset = job.size /\ pc' = "done"
      /\ UNCHANGED <<bin, dev, mapped, job, va, offset, moved>>
  BY DEF CopyEnds
<1>2. /\ ImagePages' = ImagePages /\ StackPages' = StackPages /\ max_vma' = max_vma
      /\ RefusedAtTheEnd' = RefusedAtTheEnd /\ Copied(offset)' = Copied(offset)
  BY <1>1 DEF ImagePages, max_vma, StackPages, n_stack_slots, RefusedAtTheEnd, first_chunk,
              Accepted, AlignedSize, Copied, Physical
<1>3. MapInv'
  BY <1>1, <1>2 DEF IInv, MapInv, Counts
<1>4. CopyInv'
  BY <1>1, <1>2 DEF IInv, CopyInv
<1> QED BY <1>1, <1>3, <1>4 DEF IInv

\* A size that is aligned up passes no multiple of the block size that the
\* size does not pass.
LEMMA AlignedUp ==
  ASSUME NEW n \in Nat
  PROVE  /\ AlignedSize(n) \in Int /\ AlignedSize(n) < n + BlockSize
         /\ \A m \in Nat : n <= m * BlockSize => AlignedSize(n) <= m * BlockSize
<1>1. PICK b \in Nat : b = BlockSize /\ b > 0
  BY Sizes
<1>2. PICK a \in Nat : a = n + b - 1
  BY <1>1
<1>3. a = b * (a \div b) + (a % b) /\ a % b \in 0 .. b - 1 /\ a \div b \in Int
  BY <1>1, SMT
<1>4. PICK d \in Int : d = a \div b
  BY <1>3
<1>5. AlignedSize(n) = d * b
  BY <1>1, <1>2, <1>4 DEF AlignedSize
<1>6. d * b \in Int /\ d * b <= a
  BY <1>1, <1>3, <1>4, SMT
<1>7. ASSUME NEW m \in Nat, n <= m * b PROVE d * b <= m * b
  <2>1. SUFFICES ASSUME m < d PROVE FALSE
    BY <1>1, SMT
  <2>2. m * b + b <= d * b
    <3>1. PICK k \in Nat : d = m + 1 + k
      <4>1. d - m - 1 \in Nat /\ d = m + 1 + (d - m - 1)
        BY <2>1
      <4> QED BY <4>1
    <3>2. (m + 1 + k) * b = m * b + b + k * b /\ k * b >= 0
      BY <1>1, SMT
    <3> QED BY <3>1, <3>2, <1>6
  <2> QED BY <1>1, <1>2, <1>6, <1>7, <2>2
<1> QED BY <1>1, <1>2, <1>5, <1>6, <1>7

\* Both a byte and the byte as many blocks further are at the same place in a block.
LEMMA BlocksInPage ==
  ASSUME NEW a \in Nat, a % BlockSize = 0 \/ a % PageSize = 0
  PROVE  \E m \in Nat : PageSize - (a % PageSize) = m * BlockSize
<1>1. PICK b \in Nat : b = BlockSize /\ b > 0 /\ PageSize % b = 0
  BY LayoutAssumption
<1>2. PICK k \in Nat : PageSize = k * b
  <2>1. PageSize = b * (PageSize \div b) + (PageSize % b) /\ PageSize \div b \in Int
    BY <1>1, Sizes, SMT
  <2>2. PICK k \in Int : k = PageSize \div b
    BY <2>1
  <2>3. PageSize = k * b
    BY <1>1, <2>1, <2>2, Sizes
  <2>4. k >= 0
    <3>1. SUFFICES ASSUME k < 0 PROVE FALSE
      BY <2>2
    <3>2. k * b <= 0
      BY <1>1, <3>1, SMT
    <3> QED BY <2>3, <3>2, Sizes
  <2> QED BY <2>3, <2>4
<1>3. CASE a % PageSize = 0
  BY <1>1, <1>2, <1>3, Sizes
<1>4. CASE a % BlockSize = 0
  <2>1. PICK x \in Int : a = x * b
    <3>1. a = b * (a \div b) + (a % b) /\ a \div b \in Int
      BY <1>1, SMT
    <3>2. PICK x \in Int : x = a \div b
      BY <3>1
    <3>3. a = x * b
      BY <1>1, <1>4, <3>1, <3>2
    <3> QED BY <3>3
  <2>2. PICK q \in Int : q = Page(a)
    BY Split
  <2>3. a = q * PageSize + (a % PageSize) /\ a % PageSize \in 0 .. PageSize - 1
    BY <2>2, Split
  <2>4. PICK m \in Int : m = k - x + q * k
    OBVIOUS
  <2>5. m * b = k * b - x * b + q * (k * b)
    <3>1. (k - x + q * k) * b = k * b - x * b + q * (k * b)
      BY SMT
    <3> QED BY <2>4, <3>1
  <2>6. PageSize - (a % PageSize) = m * b
    <3>3. a % PageSize \in Int /\ q * PageSize \in Int
      BY <2>3, Times, Sizes
    <3>1. PICK r \in Int, v \in Int : r = a % PageSize /\ v = q * PageSize
      BY <3>3
    <3>2. m * b = PageSize - a + v
      BY <1>2, <2>1, <2>5, <3>1
    <3> QED BY <2>3, <3>1, <3>2, Sizes
  <2>7. m >= 0
    <3>1. SUFFICES ASSUME m < 0 PROVE FALSE
      OBVIOUS
    <3>2. m * b <= 0
      BY <1>1, <3>1, SMT
    <3> QED BY <2>3, <2>6, <3>2, Sizes
  <2>8. m \in Nat /\ PageSize - (a % PageSize) = m * BlockSize
    BY <1>1, <2>6, <2>7
  <2> QED BY <2>8
<1> QED BY <1>3, <1>4

\* The frame of a page of the image lies in the memory.
LEMMA Placed ==
  ASSUME bin \in Binaries, NEW a \in Nat, min_vma <= a, a < max_vma
  PROVE  /\ Page(a) \in ImagePages
         /\ Place[Page(a)] \in Nat
         /\ Place[Page(a)] * PageSize + PageSize <= MemEnd
<1>1. PICK u \in Int, w \in Int : u = min_vma /\ w = max_vma - 1
  BY Image
<1>2. Page(u) <= Page(a) /\ Page(a) <= Page(w)
  <2>1. u <= a /\ a <= w
    BY <1>1, Image
  <2> QED BY <2>1, PageOrder
<1>3. PICK p \in Int : p = Page(a)
  BY Split
<1>4. p \in ImagePages
  BY <1>1, <1>2, <1>3, Image
<1>5. ImagePages = FirstPage .. FirstPage + (bin.runtime - 1) \div PageSize
  <2>2. PICK n \in Int : n = bin.runtime - 1
    BY Image
  <2>1. PICK i \in Int : i = Page(bin.runtime - 1)
    BY <2>2, Split
  <2>3. i * PageSize <= n /\ n < i * PageSize + PageSize
    BY <2>1, <2>2, InPage
  <2>4. PICK k \in Int : k = FirstPage + i
    BY Sizes
  <2>5. (FirstPage + i) * PageSize = FirstPage * PageSize + i * PageSize
    BY Times, Sizes
  <2>6. w = FirstPage * PageSize + n
    BY <1>1, <2>2, Image DEF max_vma, min_vma
  <2>7. FirstPage * PageSize \in Int /\ i * PageSize \in Int
    BY Times, Sizes
  <2>8. k * PageSize <= w /\ w < k * PageSize + PageSize
    BY <2>3, <2>4, <2>5, <2>6, <2>7, Sizes
  <2>9. Page(w) = k
    BY <2>8, InPage
  <2> QED BY <1>1, <2>1, <2>4, <2>9, Image DEF Page
<1>6. PICK f \in Nat, e \in Nat : f = Place[p] /\ e = Page(MemEnd) /\ f <= e - 1
  <2>1. Page(MemEnd) \in Nat
    BY Whole, LayoutAssumption
  <2>2. Place[p] \in 0 .. Page(MemEnd) - 1
    BY <1>4, <1>5, LayoutAssumption DEF Page
  <2> QED BY <2>1, <2>2
<1>7. MemEnd = e * PageSize
  BY <1>6, Whole, LayoutAssumption
<1>8. f * PageSize + PageSize <= e * PageSize
  <2>1. PICK g \in Int : g = f + 1
    OBVIOUS
  <2>2. (f + 1) * PageSize = f * PageSize + 1 * PageSize
    BY Times
  <2>3. g * PageSize <= e * PageSize
    <3>1. g \in Int /\ e \in Int /\ g <= e
      BY <1>6, <2>1
    <3> QED BY <3>1, Times
  <2>4. 1 * PageSize = PageSize
    BY Sizes
  <2> QED BY <2>1, <2>2, <2>3, <2>4
<1> QED BY <1>3, <1>4, <1>6, <1>7, <1>8

\* Bytes of one page stay side by side.
LEMMA Together ==
  ASSUME bin \in Binaries, NEW a \in Nat, min_vma <= a, a < max_vma,
         NEW i \in 0 .. PageSize - (a % PageSize) - 1
  PROVE  Physical(a + i) = Physical(a) + i
<1>1. PICK q \in Int, r \in 0 .. PageSize - 1 : q = Page(a) /\ r = a % PageSize
  BY Split
<1>2. PICK s \in 0 .. PageSize - 1 : s = r + i
  BY <1>1, Sizes
<1>3. a = q * PageSize + r /\ q * PageSize \in Int
  BY <1>1, Split, Times
<1>4. a + i = q * PageSize + s
  BY <1>2, <1>3, Sizes
<1>5. Page(a + i) = q /\ (a + i) % PageSize = s
  BY <1>4, PageIs
<1>6. PICK v \in Int : v = Place[q] * PageSize
  <2>1. PICK f \in Nat : f = Place[q]
    BY <1>1, Placed
  <2>2. f * PageSize \in Int
    BY Times
  <2> QED BY <2>1, <2>2
<1> QED BY <1>1, <1>2, <1>5, <1>6, Sizes DEF Physical

LEMMA ChunkAccepted ==
  ASSUME bin \in Binaries, NEW a \in Nat, min_vma <= a, a < max_vma,
         NEW c \in Nat, c <= PageSize - (a % PageSize),
         \/ a % BlockSize = 0 \/ a % PageSize = 0
         \/ Physical(a) < MemEnd - PageSize
  PROVE  Accepted(Physical(a), c)
<1>1. PICK r \in 0 .. PageSize - 1 : r = a % PageSize
  BY Split
<1>2. PICK f \in Nat : f = Place[Page(a)]
  BY Placed
<1>3. PICK v \in Int : v = f * PageSize
  <2>1. f * PageSize \in Int
    BY Times
  <2> QED BY <2>1
<1>4. Physical(a) = v + r
  BY <1>1, <1>2, <1>3 DEF Physical
<1>5. v + PageSize <= MemEnd
  BY <1>2, <1>3, Placed
<1>6. PICK n \in Int : n = AlignedSize(c) /\ n < c + BlockSize
  BY AlignedUp
<1>7. CASE a % BlockSize = 0 \/ a % PageSize = 0
  <2>1. PICK m \in Nat : PageSize - r = m * BlockSize
    BY <1>1, <1>7, BlocksInPage
  <2>2. n <= PageSize - r
    <3>1. c <= m * BlockSize
      BY <1>1, <2>1
    <3>2. AlignedSize(c) <= m * BlockSize
      BY <3>1, AlignedUp
    <3> QED BY <1>6, <2>1, <3>2
  <2> QED BY <1>4, <1>5, <1>6, <2>2, Sizes DEF Accepted
<1>8. CASE Physical(a) < MemEnd - PageSize
  <2>1. PICK e \in Nat : MemEnd = e * PageSize
    BY Whole, LayoutAssumption
  <2>2. PICK d \in Int, g \in Int : d = e - 1 /\ g = f + 1
    OBVIOUS
  <2>3. (e - 1) * PageSize = e * PageSize - 1 * PageSize
    BY Times
  <2>4. (f + 1) * PageSize = f * PageSize + 1 * PageSize
    BY Times
  <2>5. f * PageSize < d * PageSize
    BY <1>3, <1>4, <1>8, <2>1, <2>2, <2>3, Sizes
  <2>6. f < d
    BY <2>5, Times
  <2>7. g <= d
    BY <2>2, <2>6
  <2>8. g * PageSize <= d * PageSize
    BY <2>7, Times
  <2>9. v + PageSize <= MemEnd - PageSize
    BY <1>3, <2>1, <2>2, <2>3, <2>4, <2>8, Sizes
  <2> QED BY <1>1, <1>4, <1>6, <2>9, Sizes DEF Accepted
<1> QED BY <1>7, <1>8

LEMMA CopyChunkInv ==
  ASSUME ImageBelowStacks, IInv, CopyChunk
  PROVE  IInv'
<1>1. /\ pc = "copy" /\ bin \in Binaries /\ dev \in Devices
      /\ Counts(ImagePages \cup StackPages)
      /\ job.va \in Nat /\ job.size \in Nat
      /\ min_vma <= job.va /\ job.va + job.size <= max_vma
      /\ offset \in 0 .. job.size /\ va = job.va + offset /\ offset < job.size
      /\ offset \in 1 .. job.size - 1 => va % PageSize = 0
      /\ ~RefusedAtTheEnd => moved = Copied(offset)
  BY DEF CopyChunk, IInv, MapInv, CopyInv
<1>2. va \in Nat /\ min_vma <= va /\ va < max_vma
  <2>1. PICK n \in Nat : n = job.size
    BY <1>1
  <2>2. PICK o \in Nat : o = offset /\ o < n
    BY <1>1, <2>1
  <2>3. PICK l \in Nat, m \in Nat : l = min_vma /\ m = max_vma
    BY <1>1, Image
  <2>4. PICK a \in Nat : a = job.va /\ l <= a /\ a + n <= m
    BY <1>1, <2>1, <2>3
  <2> QED BY <1>1, <2>2, <2>3, <2>4
<1>3. mapped[Page(va)] # 0
  <2>1. Page(va) \in ImagePages /\ ImagePages \subseteq Table
    BY <1>1, <1>2, Placed, Stacks
  <2> QED BY <1>1, <2>1 DEF Counts
<1>4. PICK r \in 0 .. PageSize - 1 : r = va % PageSize
  BY <1>2, Split
<1>5. PICK c \in Nat : /\ c = chunk_size /\ c > 0 /\ c <= PageSize - r /\ c <= job.size - offset
                       /\ c = PageSize - r \/ c = job.size - offset
  <2>1. PICK x \in Nat, y \in Nat : /\ x = PageSize - r /\ x > 0
                                   /\ y = job.size - offset /\ y > 0
    BY <1>1, <1>4, Sizes
  <2>2. chunk_size = IF x <= y THEN x ELSE y
    BY <1>4, <2>1 DEF chunk_size, Smaller
  <2> QED BY <2>1, <2>2
<1>6. /\ va' = va + c /\ offset' = offset + c /\ pc' = "copy"
      /\ bin' = bin /\ dev' = dev /\ mapped' = mapped /\ job' = job
      /\ moved' = IF Accepted(Physical(va), c)
                  THEN moved \cup {<<Physical(va) + i, offset + i>> : i \in 0 .. c - 1}
                  ELSE moved
  BY <1>1, <1>3, <1>5 DEF CopyChunk
<1>7. /\ ImagePages' = ImagePages /\ StackPages' = StackPages /\ max_vma' = max_vma
      /\ RefusedAtTheEnd' = RefusedAtTheEnd
  BY <1>6 DEF ImagePages, max_vma, StackPages, n_stack_slots, RefusedAtTheEnd, first_chunk,
              Accepted, AlignedSize, Physical
<1>8. MapInv'
  BY <1>1, <1>6, <1>7 DEF MapInv, Counts
<1>9. offset + c \in 0 .. job.size /\ va' = job.va + (offset + c)
  BY <1>1, <1>5, <1>6
<1>10. offset + c < job.size => va' % PageSize = 0
  <2>1. SUFFICES ASSUME c = PageSize - r PROVE va' % PageSize = 0
    BY <1>1, <1>5
  <2>2. PICK q \in Int : q = Page(va)
    BY <1>2, Split
  <2>3. PICK k \in Int : k = q + 1
    OBVIOUS
  <2>4. (q + 1) * PageSize = q * PageSize + 1 * PageSize
    BY Times
  <2>8. q * PageSize \in Int /\ 1 * PageSize = PageSize
    BY Times, Sizes
  <2>5. va = q * PageSize + r
    BY <1>2, <1>4, <2>2, Split
  <2>6. va' = k * PageSize + 0
    BY <1>6, <2>1, <2>3, <2>4, <2>5, <2>8, Sizes
  <2>7. (k * PageSize + 0) % PageSize = 0
    BY PageIs, Sizes
  <2> QED BY <2>6, <2>7
<1>11. ASSUME ~RefusedAtTheEnd PROVE moved' = Copied(offset + c)
  <2>1. Accepted(Physical(va), c)
    <3>1. CASE offset = 0
      <4>1. va = job.va
        BY <1>1, <3>1
      <4>2. CASE va % BlockSize = 0
        BY <1>1, <1>2, <1>4, <1>5, <4>2, ChunkAccepted
      <4>3. CASE va % BlockSize # 0
        <5>1. chunk_size = first_chunk
          BY <1>1, <3>1, <4>1 DEF chunk_size, first_chunk
        <5> QED BY <1>5, <1>11, <4>1, <4>3, <5>1 DEF RefusedAtTheEnd
      <4> QED BY <4>2, <4>3
    <3>2. CASE offset # 0
      BY <1>1, <1>2, <1>4, <1>5, <3>2, ChunkAccepted
    <3> QED BY <3>1, <3>2
  <2>2. ASSUME NEW i \in 0 .. c - 1 PROVE Physical(va) + i = Physical(job.va + (offset + i))
    <3>1. i \in 0 .. PageSize - (va % PageSize) - 1
      BY <1>4, <1>5, Sizes
    <3>2. Physical(va + i) = Physical(va) + i
      BY <1>1, <1>2, <3>1, Together
    <3>3. va + i = job.va + (offset + i)
      BY <1>1
    <3> QED BY <3>2, <3>3
  <2>3. moved' = Copied(offset) \cup {<<Physical(va) + i, offset + i>> : i \in 0 .. c - 1}
    BY <1>1, <1>6, <1>11, <2>1
  <2>4. ASSUME NEW z \in Copied(offset + c) PROVE z \in moved'
    <3>1. PICK j \in 0 .. (offset + c) - 1 : z = <<Physical(job.va + j), j>>
      BY DEF Copied
    <3>2. CASE j < offset
      <4>1. j \in 0 .. offset - 1
        BY <1>1, <3>2
      <4> QED BY <2>3, <3>1, <4>1 DEF Copied
    <3>3. CASE ~(j < offset)
      <4>1. PICK i \in 0 .. c - 1 : j = offset + i
        <5>1. j - offset \in 0 .. c - 1 /\ j = offset + (j - offset)
          BY <1>1, <3>3
        <5> QED BY <5>1
      <4>2. z = <<Physical(va) + i, offset + i>>
        BY <2>2, <3>1, <4>1
      <4> QED BY <2>3, <4>2
    <3> QED BY <3>2, <3>3
  <2>5. ASSUME NEW z \in moved' PROVE z \in Copied(offset + c)
    <3>1. CASE z \in Copied(offset)
      <4>1. PICK j \in 0 .. offset - 1 : z = <<Physical(job.va + j), j>>
        BY <3>1 DEF Copied
      <4>2. j \in 0 .. (offset + c) - 1
        BY <1>1, <4>1
      <4> QED BY <4>1, <4>2 DEF Copied
    <3>2. CASE z \in {<<Physical(va) + i, offset + i>> : i \in 0 .. c - 1}
      <4>1. PICK i \in 0 .. c - 1 : z = <<Physical(va) + i, offset + i>>
        BY <3>2
      <4>2. PICK j \in 0 .. (offset + c) - 1 : j = offset + i
        BY <1>1
      <4>3. z = <<Physical(job.va + j), j>>
        BY <2>2, <4>1, <4>2
      <4> QED BY <4>3 DEF Copied
    <3> QED BY <2>3, <3>1, <3>2
  <2> QED BY <2>4, <2>5
<1>12. PICK o \in Nat : o = offset + c
  BY <1>1
<1>13. Copied(o)' = Copied(o)
  BY <1>6 DEF Copied, Physical
<1>14. CopyInv'
  BY <1>1, <1>6, <1>7, <1>9, <1>10, <1>11, <1>12, <1>13 DEF CopyInv
<1> QED BY <1>1, <1>6, <1>8, <1>14 DEF IInv

----------------------------------------------------------------------------
(* The theorems.                                                           *)

LEMMA StutterInv ==
  ASSUME IInv, UNCHANGED vars
  PROVE  IInv'
<1>1. UNCHANGED <<bin, dev, mapped, pc, job, va, offset, moved>>
  BY DEF vars
<1>2. /\ ImagePages' = ImagePages /\ StackPages' = StackPages /\ max_vma' = max_vma
      /\ RefusedAtTheEnd' = RefusedAtTheEnd /\ Copied(offset)' = Copied(offset)
      /\ data_va' = data_va /\ last_code_page' = last_code_page
      /\ shared_boundary' = shared_boundary
  BY <1>1 DEF ImagePages, max_vma, StackPages, n_stack_slots, RefusedAtTheEnd, first_chunk,
              Accepted, AlignedSize, Copied, Physical, data_va, shared_boundary, last_code_page, has_data, code_end, Floor
<1>3. MapInv'
  BY <1>1, <1>2 DEF IInv, MapInv, Counts
<1>4. CopyInv'
  BY <1>1, <1>2 DEF IInv, CopyInv
<1> QED BY <1>1, <1>3, <1>4 DEF IInv

(***************************************************************************)
(* allocate_vxbin_segments_ and allocate_user_stack_ ask for every page    *)
(* once, and the copy loop has moved the bytes before its offset.          *)
(***************************************************************************)
THEOREM Invariance ==
  ASSUME ImageBelowStacks
  PROVE  Spec => []IInv
<1>1. IInv /\ [Next]_vars => IInv'
  <2>1. SUFFICES ASSUME IInv, [Next]_vars PROVE IInv'
    OBVIOUS
  <2>2. CASE MapCode BY <2>1, <2>2, MapCodeInv
  <2>3. CASE MapBoundary BY <2>1, <2>3, MapBoundaryInv
  <2>4. CASE MapData BY <2>1, <2>4, MapDataInv
  <2>5. CASE MapStack BY <2>1, <2>5, MapStackInv
  <2>6. CASE BeginCopy BY <2>1, <2>6, BeginCopyInv
  <2>7. CASE CopyChunk BY <2>1, <2>7, CopyChunkInv
  <2>8. CASE CopyEnds BY <2>1, <2>8, CopyEndsInv
  <2>9. CASE Finished \/ UNCHANGED vars BY <2>1, <2>9, StutterInv DEF Finished
  <2> QED BY <2>1, <2>2, <2>3, <2>4, <2>5, <2>6, <2>7, <2>8, <2>9 DEF Next
<1> QED BY <1>1, InitInv, PTL DEF Spec

(***************************************************************************)
(* The pages of the code, the boundary, the data and the stacks are        *)
(* disjoint and together those of the image and of all stacks, so none is  *)
(* asked for twice; the heap starts behind them.                           *)
(***************************************************************************)
THEOREM ImageIsMappedOnce ==
  ASSUME ImageBelowStacks
  PROVE  Spec => []ImageMappedOnce
<1>1. IInv => ImageMappedOnce
  <2>1. SUFFICES ASSUME IInv, pc = "begin"
                 PROVE  /\ \A p \in Table : mapped[p] = IF p \in ImagePages \cup StackPages THEN 1 ELSE 0
                        /\ \A p \in ImagePages : p * PageSize < heap_base
    BY DEF ImageMappedOnce, Laid
  <2>2. bin \in Binaries /\ Counts(ImagePages \cup StackPages)
    BY <2>1 DEF IInv, MapInv
  <2>3. \A p \in Table : mapped[p] = IF p \in ImagePages \cup StackPages THEN 1 ELSE 0
    BY <2>2 DEF Counts
  <2>4. ASSUME NEW p \in ImagePages PROVE p * PageSize < heap_base
    <3>1. PICK m \in Nat, w \in Int : m = max_vma /\ w = m - 1
      BY <2>2, Image
    <3>2. p \in Int /\ p <= Page(w)
      BY <2>2, <2>4, <3>1, Image, Sizes
    <3>3. ~(Page(w) < p)
      BY <3>1, <3>2, Split
    <3>4. ~(w < p * PageSize)
      BY <3>1, <3>2, <3>3, PageOrder
    <3>5. PICK q \in Int : \E r \in 0 .. PageSize - 1 : m = q * PageSize + r
      BY Parts
    <3>6. PICK r \in 0 .. PageSize - 1 : m = q * PageSize + r
      BY <3>5
    <3>7. Align(m) = IF r = 0 THEN q * PageSize ELSE (q + 1) * PageSize
      BY <3>6, AlignIs
    <3>8. (q + 1) * PageSize = q * PageSize + 1 * PageSize
      BY Times
    <3>9. q * PageSize \in Int /\ 1 * PageSize = PageSize /\ p * PageSize \in Int
      BY <3>2, Times, Sizes
    <3>10. m <= Align(m) /\ Align(m) \in Int
      BY <3>6, <3>7, <3>8, <3>9, Sizes
    <3> QED BY <3>1, <3>4, <3>9, <3>10 DEF heap_base
  <2> QED BY <2>3, <2>4
<1> QED BY <1>1, Invariance, PTL

(***************************************************************************)
(* The copy loop ends with every byte of the buffer moved once to where    *)
(* the page table has it, and no translate(va).value() throws.             *)
(***************************************************************************)
THEOREM CopiesArrive ==
  ASSUME ImageBelowStacks
  PROVE  Spec => []CopyArrives
<1>1. IInv => CopyArrives
  BY DEF IInv, CopyInv, CopyArrives, Copied
<1> QED BY <1>1, Invariance, PTL

(***************************************************************************)
(* Every hart of a device with no more cores than allocate_user_stack_     *)
(* takes has a mapped stack, which no other hart has.                      *)
(***************************************************************************)
THEOREM HartsHaveStacks ==
  ASSUME ImageBelowStacks
  PROVE  Spec => []EveryHartHasAStack
<1>1. IInv => EveryHartHasAStack
  <2>1. SUFFICES ASSUME IInv, pc = "begin", dev.cores <= num_cores
                 PROVE  /\ \A h \in Harts : \A a \in StackTop(h) - StackSize .. StackTop(h) - 1 :
                             a >= 0 /\ mapped[Page(a)] = 1
                        /\ \A g, h \in Harts : StackTop(g) = StackTop(h) => g = h
    BY DEF EveryHartHasAStack, Laid
  <2>2. bin \in Binaries /\ dev \in Devices /\ Counts(ImagePages \cup StackPages)
    BY <2>1 DEF IInv, MapInv
  <2>3. dev.warps \in Nat /\ dev.threads \in Nat /\ dev.cores \in Nat
    BY <2>2, HartIds
  <2>4. ASSUME NEW h \in Harts
        PROVE  \E c \in 0 .. num_cores - 1, w \in 0 .. dev.warps - 1, t \in 0 .. dev.threads - 1 :
                 h = <<c, w, t>> /\ StackTop(h) = StackEnd - StackSize * HartId(dev, c, w, t)
    <3>1. PICK c \in 0 .. dev.cores - 1, w \in 0 .. dev.warps - 1, t \in 0 .. dev.threads - 1 :
             h = <<c, w, t>>
      BY DEF Harts
    <3>2. c \in 0 .. num_cores - 1
      BY <2>1, <2>3, <3>1 DEF num_cores
    <3> QED BY <3>1, <3>2 DEF StackTop
  <2>5. ASSUME NEW h \in Harts, NEW a \in StackTop(h) - StackSize .. StackTop(h) - 1
        PROVE  a >= 0 /\ mapped[Page(a)] = 1
    <3>1. PICK c \in 0 .. num_cores - 1, w \in 0 .. dev.warps - 1, t \in 0 .. dev.threads - 1 :
             StackTop(h) = StackEnd - StackSize * HartId(dev, c, w, t)
      BY <2>4
    <3>2. PICK i \in Nat, m \in Nat : i = HartId(dev, c, w, t) /\ m = n_stack_slots /\ i + 1 <= m
      BY <2>2, HartIdsEnd DEF n_stack_slots
    <3>3. PICK s \in Nat : s = StackSize
      BY Sizes
    <3>4. s * i + s <= s * m /\ s * i \in Nat /\ s * m \in Nat
      <4>1. PICK k \in Nat : m = i + 1 + k
        <5>1. m - i - 1 \in Nat /\ m = i + 1 + (m - i - 1)
          BY <3>2
        <5> QED BY <5>1
      <4>2. s * (i + 1 + k) = s * i + s + s * k /\ s * k \in Nat /\ s * i \in Nat
        BY SMT
      <4> QED BY <4>1, <4>2
    <3>5. StackTop(h) = StackEnd - s * i
      BY <3>1, <3>2, <3>3
    <3>6. a \in Int /\ StackEnd - s * m <= a /\ a <= StackEnd - 1
      BY <3>3, <3>4, <3>5, Sizes
    <3>7. PICK b \in Int, e \in Int : b = StackEnd - s * m /\ e = StackEnd /\ max_vma <= b
      BY <2>2, <3>2, <3>3, <3>4, Stacks, Sizes
    <3>8. a >= 0
      BY <2>2, <3>6, <3>7, Image
    <3>9. Page(b) <= Page(a) /\ Page(a) \in Int
      BY <3>6, <3>7, PageOrder, Split
    <3>10. Page(a) < Page(e)
      <4>1. PICK x \in Nat : x = Page(e) /\ e = x * PageSize
        BY <3>7, Whole, LayoutAssumption
      <4>2. Page(a) < x <=> a < x * PageSize
        BY <3>6, PageOrder
      <4> QED BY <3>6, <3>7, <4>1, <4>2
    <3>11. Page(a) \in StackPages
      <4>1. StackPages = Page(b) .. Page(e) - 1
        BY <3>2, <3>3, <3>7 DEF StackPages
      <4>2. Page(b) \in Int /\ Page(e) \in Int
        BY <3>7, Split
      <4> QED BY <3>9, <3>10, <4>1, <4>2
    <3>12. Page(a) \in Table
      BY <2>2, <3>11, Stacks
    <3> QED BY <2>2, <3>8, <3>11, <3>12 DEF Counts
  <2>6. ASSUME NEW g \in Harts, NEW h \in Harts, StackTop(g) = StackTop(h)
        PROVE  g = h
    <3>1. PICK c \in 0 .. num_cores - 1, w \in 0 .. dev.warps - 1, t \in 0 .. dev.threads - 1 :
             g = <<c, w, t>> /\ StackTop(g) = StackEnd - StackSize * HartId(dev, c, w, t)
      BY <2>4
    <3>2. PICK e \in 0 .. num_cores - 1, v \in 0 .. dev.warps - 1, u \in 0 .. dev.threads - 1 :
             h = <<e, v, u>> /\ StackTop(h) = StackEnd - StackSize * HartId(dev, e, v, u)
      BY <2>4
    <3>3. PICK i \in Nat, j \in Nat : i = HartId(dev, c, w, t) /\ j = HartId(dev, e, v, u)
      BY <2>2, HartIdsEnd
    <3>4. PICK s \in Nat : s = StackSize /\ s > 0
      BY Sizes
    <3>5. s * i = s * j
      <4>1. s * i \in Int /\ s * j \in Int
        BY SMT
      <4>2. PICK x \in Int, y \in Int : x = s * i /\ y = s * j
        BY <4>1
      <4>3. StackEnd - x = StackEnd - y
        BY <2>6, <3>1, <3>2, <3>3, <3>4, <4>2
      <4> QED BY <4>2, <4>3, Sizes
    <3>6. i = j
      BY <3>4, <3>5, SMT
    <3>7. c \in Nat /\ e \in Nat
      BY DEF num_cores
    <3>9. HartId(dev, c, w, t) = HartId(dev, e, v, u)
      BY <3>3, <3>6
    <3>8. c = e /\ w = v /\ t = u
      BY <2>2, <3>7, <3>9, HartIdsDiffer
    <3> QED BY <3>1, <3>2, <3>8
  <2> QED BY <2>5, <2>6
<1> QED BY <1>1, Invariance, PTL
============================================================================
