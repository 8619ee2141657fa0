---------------------------- MODULE PageTable_proofs ----------------------------
(***************************************************************************)
(* Theorems about page table entries and address fields, for every word,   *)
(* and proofs about PageTable, for every number of pages and all devices.  *)
(*                                                                         *)
(* TInv is what every step keeps whatever the sizes of the devices: the    *)
(* parts have their types, no byte of a frame of swap that another process *)
(* holds is written, and the list of victims has pages in RAM, each once.  *)
(* IInv adds the owners of the frames: the frames of each device that no   *)
(* other process holds are on its free list, once, or in the entry of one  *)
(* page (Owned).  It is kept where the frame numbers fit into the fields   *)
(* of an entry (FramesFit, the hypothesis of the theorems that need it):   *)
(* a larger number is cut off, and two pages would share a frame.          *)
(***************************************************************************)
EXTENDS PageTable, FiniteSetTheorems, SequenceTheorems, WellFoundedInduction, TLAPS

(* What SETVAL stores in a field GETVAL reads back, when it fits the field,  *)
(* and no bit outside the field changes.                                     *)
LEMMA SetThenGet ==
  ASSUME NEW v, NEW mask, NEW o \in Int, NEW x \in SUBSET Int,
         \A b \in Int : b \in x => b + o \in mask
  PROVE  /\ GETVAL(SETVAL(v, x, mask, o), mask, o) = x
         /\ SETVAL(v, x, mask, o) \ mask = v \ mask
<1>. DEFINE y == {b + o : b \in x}
            w == SETVAL(v, x, mask, o)
<1>1. w \cap mask = y /\ w \ mask = v \ mask
  BY DEF SETVAL
<1>2. {c - o : c \in y} = x
  <2>1. \A b \in x : (b + o) - o = b
    OBVIOUS
  <2>2. \A b \in x : b \in {c - o : c \in y}
    BY <2>1
  <2>3. \A d \in {c - o : c \in y} : d \in x
    BY <2>1
  <2>. QED
    BY <2>2, <2>3
<1>. QED
  BY <1>1, <1>2 DEF GETVAL

(* Two words that agree on a field as GETVAL reads it agree on its bits.     *)
LEMMA GetDetermines ==
  ASSUME NEW v, NEW w, NEW l \in Int, NEW h \in Int,
         GETVAL(v, GENMASK(h, l), l) = GETVAL(w, GENMASK(h, l), l)
  PROVE  v \cap (l .. h) = w \cap (l .. h)
<1>1. ASSUME NEW s, NEW t, NEW b \in s \cap (l .. h),
             GETVAL(s, GENMASK(h, l), l) = GETVAL(t, GENMASK(h, l), l)
      PROVE  b \in t
  <2>1. b - l \in GETVAL(t, GENMASK(h, l), l)
    BY <1>1 DEF GETVAL, GENMASK
  <2>2. PICK c \in t \cap (l .. h) : c - l = b - l
    BY <2>1 DEF GETVAL, GENMASK
  <2>3. c = b
    BY <2>2
  <2>. QED
    BY <2>2, <2>3
<1>. QED
  BY <1>1

-----------------------------------------------------------------------------
(* mm64.c's pte_set_fpn makes an entry that says present and not swapped, and *)
(* from which free_pcb_memph and pg_getpage read the frame that was stored,  *)
(* whatever the entry was before; only bits 0 to 12, 30 and 31 change.       *)
THEOREM PresentEntry ==
  ASSUME NEW pte, NEW fpn, fpn \subseteq 0 .. 12
  PROVE  LET e == pte_set_fpn(pte, fpn)
         IN  /\ PAGE_PRESENT(e) /\ 30 \notin e
             /\ PAGING_FPN(e) = fpn
             /\ e \cap (13 .. 29) = pte \cap (13 .. 29)
<1>. DEFINE v == CLRBIT(SETBIT(pte, PRESENT), SWAPPED)
            e == pte_set_fpn(pte, fpn)
<1>1. e = SETVAL(v, fpn, FPN, 0)
  BY DEF pte_set_fpn
<1>2. GETVAL(e, FPN, 0) = fpn /\ e \ FPN = v \ FPN
  <2>. HIDE DEF v
  <2>1. fpn \in SUBSET Int /\ \A b \in Int : b \in fpn => b + 0 \in FPN
    BY DEF FPN, GENMASK
  <2>. QED
    BY <1>1, <2>1, SetThenGet
<1>3. v = (pte \cup {31}) \ {30}
  BY DEF CLRBIT, SETBIT, PRESENT, SWAPPED
<1>4. \A b \in 13 .. 31 : b \in e <=> b \in v
  BY <1>2 DEF FPN, GENMASK
<1>. QED
  BY <1>2, <1>3, <1>4 DEF PAGE_PRESENT, PRESENT, PAGING_FPN

(* pte_set_swap makes an entry that says swapped, and also present, and from *)
(* which type and offset are read back, every offset of the 21 bits that     *)
(* PAGING_MEMSWPSZ / PAGING_PAGESZ frames need.                              *)
THEOREM SwappedEntry ==
  ASSUME NEW pte, NEW swptyp, swptyp \subseteq 0 .. 4,
         NEW swpoff, swpoff \subseteq 0 .. 20
  PROVE  LET e == pte_set_swap(pte, swptyp, swpoff)
         IN  /\ PAGE_PRESENT(e) /\ 30 \in e
             /\ PAGING_SWP(e) = swpoff
             /\ GETVAL(e, SWPTYP, 0) = swptyp
             /\ e \cap (26 .. 29) = pte \cap (26 .. 29)
<1>. DEFINE v == SETBIT(SETBIT(pte, PRESENT), SWAPPED)
            u == SETVAL(v, swptyp, SWPTYP, 0)
            e == SETVAL(u, swpoff, SWPOFF, 5)
<1>1. pte_set_swap(pte, swptyp, swpoff) = e
  BY DEF pte_set_swap
<1>2. GETVAL(u, SWPTYP, 0) = swptyp /\ u \ SWPTYP = v \ SWPTYP
  <2>. HIDE DEF v
  <2>1. swptyp \in SUBSET Int /\ \A b \in Int : b \in swptyp => b + 0 \in SWPTYP
    BY DEF SWPTYP, GENMASK
  <2>. QED
    BY <2>1, SetThenGet
<1>3. GETVAL(e, SWPOFF, 5) = swpoff /\ e \ SWPOFF = u \ SWPOFF
  <2>. HIDE DEF u
  <2>1. swpoff \in SUBSET Int /\ \A b \in Int : b \in swpoff => b + 5 \in SWPOFF
    BY DEF SWPOFF, GENMASK
  <2>. QED
    BY <2>1, SetThenGet
<1>4. v = pte \cup {30, 31}
  BY DEF SETBIT, PRESENT, SWAPPED
<1>5. \A b \in 26 .. 31 : b \in e <=> b \in v
  BY <1>2, <1>3 DEF SWPTYP, SWPOFF, GENMASK
<1>6. SWPTYP \cap SWPOFF = {}
  BY DEF SWPTYP, SWPOFF, GENMASK
<1>7. GETVAL(e, SWPTYP, 0) = swptyp
  BY <1>2, <1>3, <1>6 DEF GETVAL
<1>. HIDE DEF v, u, e
<1>8. e \cap (26 .. 29) = pte \cap (26 .. 29) /\ 30 \in e /\ 31 \in e
  BY <1>4, <1>5
<1>. QED
  BY <1>1, <1>3, <1>7, <1>8
  DEF PAGE_PRESENT, PRESENT, PAGING_SWP

(* A page that comes back from swap keeps bits 8 to 20 of its old swap       *)
(* offset in bits 13 to 25 of the entry, which docs.md:598-599 gives to two  *)
(* zero bits and a user-defined number: pte_set_fpn clears neither.          *)
THEOREM StaleSwapOffset ==
  ASSUME NEW pte, NEW swptyp, swptyp \subseteq 0 .. 4,
         NEW swpoff, swpoff \subseteq 0 .. 20,
         NEW fpn, fpn \subseteq 0 .. 12
  PROVE  LET e == pte_set_fpn(pte_set_swap(pte, swptyp, swpoff), fpn)
         IN  \A b \in 8 .. 20 : b + 5 \in e <=> b \in swpoff
<1>. DEFINE s == pte_set_swap(pte, swptyp, swpoff)
            e == pte_set_fpn(s, fpn)
<1>1. GETVAL(s, GENMASK(25, 5), 5) = swpoff
  <2>1. PAGING_SWP(s) = swpoff
    BY SwappedEntry
  <2>. QED
    BY <2>1 DEF PAGING_SWP, SWPOFF
<1>2. e \cap (13 .. 29) = s \cap (13 .. 29)
  BY PresentEntry
<1>. HIDE DEF s, e
<1>3. \A b \in 0 .. 20 : b + 5 \in s <=> b \in swpoff
  <2>1. ASSUME NEW b \in 0 .. 20, b + 5 \in s
        PROVE  b \in swpoff
    <3>1. b + 5 \in s \cap GENMASK(25, 5) /\ (b + 5) - 5 = b
      BY <2>1 DEF GENMASK
    <3>. QED
      BY <1>1, <3>1 DEF GETVAL
  <2>2. ASSUME NEW b \in 0 .. 20, b \in swpoff
        PROVE  b + 5 \in s
    <3>1. PICK c \in s \cap GENMASK(25, 5) : c - 5 = b
      BY <1>1, <2>2 DEF GETVAL
    <3>2. c = b + 5
      BY <3>1 DEF GENMASK
    <3>. QED
      BY <3>1, <3>2
  <2>. QED
    BY <2>1, <2>2
<1>4. \A b \in 8 .. 20 : b + 5 \in 13 .. 29 /\ b \in 0 .. 20
  OBVIOUS
<1>5. \A b \in 8 .. 20 : b + 5 \in e <=> b \in swpoff
  BY <1>2, <1>3, <1>4
<1>. QED
  BY <1>5 DEF s, e

(* The entry tells its two kinds apart: a page set to a frame never reads as *)
(* a swapped one, although both have the present bit.                        *)
THEOREM KindsDiffer ==
  ASSUME NEW p, NEW q, NEW fpn, fpn \subseteq 0 .. 12,
         NEW swptyp, swptyp \subseteq 0 .. 4, NEW swpoff, swpoff \subseteq 0 .. 20
  PROVE  pte_set_fpn(p, fpn) # pte_set_swap(q, swptyp, swpoff)
<1>1. 30 \notin pte_set_fpn(p, fpn)
  BY PresentEntry
<1>2. 30 \in pte_set_swap(q, swptyp, swpoff)
  BY SwappedEntry
<1>. QED
  BY <1>1, <1>2

-----------------------------------------------------------------------------
(* The page number and offset by which libmem.c reaches a byte determine its *)
(* address, below the 22 bits of the bus.                                    *)
THEOREM PageAndOffset ==
  ASSUME NEW a, a \subseteq 0 .. 21, NEW b, b \subseteq 0 .. 21,
         PAGING_PGN(a) = PAGING_PGN(b), PAGING_OFFST(a) = PAGING_OFFST(b)
  PROVE  a = b
<1>1. a \cap (8 .. 21) = b \cap (8 .. 21)
  BY GetDetermines DEF PAGING_PGN
<1>2. a \cap (0 .. 7) = b \cap (0 .. 7)
  BY GetDetermines DEF PAGING_OFFST
<1>3. (0 .. 21) = (0 .. 7) \cup (8 .. 21)
  OBVIOUS
<1>. QED
  BY <1>1, <1>2, <1>3

(* mm64.c's five directory indexes and the offset in the page leave out no   *)
(* bit of a 57-bit address: two addresses that share them are equal.         *)
THEOREM DirectoriesCoverAddress ==
  ASSUME NEW a, a \subseteq 0 .. 56, NEW b, b \subseteq 0 .. 56,
         get_pd_from_address(a) = get_pd_from_address(b),
         a \cap (0 .. 11) = b \cap (0 .. 11)
  PROVE  a = b
<1>1. /\ PGD(a) = PGD(b) /\ P4D(a) = P4D(b) /\ PUD(a) = PUD(b)
      /\ PMD(a) = PMD(b) /\ PT(a) = PT(b)
  BY DEF get_pd_from_address
<1>2. a \cap (48 .. 56) = b \cap (48 .. 56)
  BY <1>1, GetDetermines DEF PGD
<1>3. a \cap (39 .. 47) = b \cap (39 .. 47)
  BY <1>1, GetDetermines DEF P4D
<1>4. a \cap (30 .. 38) = b \cap (30 .. 38)
  BY <1>1, GetDetermines DEF PUD
<1>5. a \cap (21 .. 29) = b \cap (21 .. 29)
  BY <1>1, GetDetermines DEF PMD
<1>6. a \cap (12 .. 20) = b \cap (12 .. 20)
  BY <1>1, GetDetermines DEF PT
<1>7. \A i \in 0 .. 56 : \/ i \in 0 .. 11 \/ i \in 12 .. 20 \/ i \in 21 .. 29
                         \/ i \in 30 .. 38 \/ i \in 39 .. 47 \/ i \in 48 .. 56
  OBVIOUS
<1>8. \A i \in 0 .. 56 : i \in a <=> i \in b
  BY <1>2, <1>3, <1>4, <1>5, <1>6, <1>7
<1>. QED
  BY <1>8

(* libmem.c computes page numbers of 14 bits (pages of 256 bytes, a bus of   *)
(* 22 bits) and mm64.c walks them as pages of 4096 bytes: the three upper    *)
(* directories are then always entered at index 0, and two page numbers      *)
(* still never share a slot of the page table.                               *)
THEOREM WalkOfPageNumbers ==
  ASSUME NEW m, m \subseteq 0 .. 13, NEW n, n \subseteq 0 .. 13
  PROVE  LET a == {b + 12 : b \in m}
         IN  /\ PGD(a) = {} /\ P4D(a) = {} /\ PUD(a) = {}
             /\ get_pd_from_pagenum(m) = get_pd_from_pagenum(n) => m = n
<1>. DEFINE A(x) == {b + 12 : b \in x}
<1>1. \A x \in SUBSET (0 .. 13) : A(x) \subseteq 12 .. 25
  OBVIOUS
<1>2. PGD(A(m)) = {} /\ P4D(A(m)) = {} /\ PUD(A(m)) = {}
  <2>1. /\ A(m) \cap (48 .. 56) = {} /\ A(m) \cap (39 .. 47) = {}
        /\ A(m) \cap (30 .. 38) = {}
    BY <1>1
  <2>. QED
    BY <2>1 DEF PGD, P4D, PUD, GETVAL, GENMASK
<1>3. ASSUME get_pd_from_pagenum(m) = get_pd_from_pagenum(n)
      PROVE  m = n
  <2>1. get_pd_from_address(A(m)) = get_pd_from_address(A(n))
    BY <1>3 DEF get_pd_from_pagenum
  <2>2. A(m) \cap (0 .. 11) = A(n) \cap (0 .. 11)
    BY <1>1
  <2>3. A(m) \subseteq 0 .. 56 /\ A(n) \subseteq 0 .. 56
    BY <1>1
  <2>. HIDE DEF A
  <2>4. A(m) = A(n)
    BY <2>1, <2>2, <2>3, DirectoriesCoverAddress
  <2>5. \A x \in SUBSET (0 .. 13) : \A b \in 0 .. 13 : b + 12 \in A(x) <=> b \in x
    <3>1. ASSUME NEW x \in SUBSET (0 .. 13), NEW b \in 0 .. 13, b + 12 \in A(x)
          PROVE  b \in x
      <4>1. PICK c \in x : c + 12 = b + 12
        BY <3>1 DEF A
      <4>. QED
        BY <4>1
    <3>. QED
      BY <3>1 DEF A
  <2>6. \A b \in 0 .. 13 : b \in m <=> b \in n
    BY <2>4, <2>5
  <2>. QED
    BY <2>6
<1>. QED
  BY <1>2, <1>3

-----------------------------------------------------------------------------
(* Recursion and induction                                                   *)

(* A set of naturals has a least element.                                    *)
LEMMA LeastElement ==
  ASSUME NEW S, S \subseteq Nat, S # {}
  PROVE  \E m \in S : \A k \in S : m <= k
<1> DEFINE R == OpToRel(<, Nat)
<1>1. \A x, y \in Nat : x < y => <<x, y>> \in R
  BY DEF OpToRel
<1>2. IsWellFoundedOn(R, Nat)
  BY NatLessThanWellFounded
<1> HIDE DEF R
<1>3. PICK m \in S : \A k \in S : ~(<<k, m>> \in R)
  BY <1>2, WFMin
<1>4. \A k \in S : k \in Nat /\ m \in Nat /\ ~(k < m)
  BY <1>1, <1>3
<1>. QED
  BY <1>4

(* Induction over an interval.                                               *)
LEMMA Upwards ==
  ASSUME NEW lo \in Int, NEW hi \in Int, NEW P, lo \in P,
         \A i \in lo + 1 .. hi : i - 1 \in P => i \in P
  PROVE  lo .. hi \subseteq P
<1> DEFINE S == {n \in Nat : lo + n <= hi /\ lo + n \notin P}
<1>1. ASSUME S # {} PROVE FALSE
  <2>1. PICK m \in S : \A k \in S : m <= k
    <3>. S \subseteq Nat
      OBVIOUS
    <3>. HIDE DEF S
    <3>. QED
      BY <1>1, LeastElement
  <2>2. m # 0
    BY <2>1
  <2>3. m - 1 \in Nat /\ m - 1 \notin S
    <3>. S \subseteq Nat
      OBVIOUS
    <3>. HIDE DEF S
    <3>. QED
      BY <2>1, <2>2
  <2>4. lo + (m - 1) \in P
    BY <2>1, <2>3
  <2>5. lo + m \in lo + 1 .. hi /\ (lo + m) - 1 = lo + (m - 1)
    BY <2>1, <2>2
  <2>. QED
    BY <2>1, <2>4, <2>5
<1>2. ASSUME NEW i \in lo .. hi PROVE i \in P
  <2>1. i - lo \in Nat /\ lo + (i - lo) = i
    OBVIOUS
  <2>2. i - lo \notin S
    BY <1>1
  <2>. QED
    BY <2>1, <2>2
<1>. QED
  BY <1>2

(* A function defined from its value one index below exists.                 *)
Defines(hi, S) ==
  \A s \in S : \A next \in [1 .. hi -> [S -> S]] :
    \E f \in [0 .. hi -> S] :
      f[0] = s /\ \A i \in 1 .. hi : f[i] = next[i][f[i - 1]]

(* So a recursive function over 0 .. hi is well defined.                     *)
LEMMA Recursion ==
  ASSUME NEW hi \in Nat, NEW S
  PROVE  Defines(hi, S)
<1>. SUFFICES ASSUME NEW s \in S, NEW next \in [1 .. hi -> [S -> S]]
              PROVE  \E f \in [0 .. hi -> S] :
                       f[0] = s /\ \A i \in 1 .. hi : f[i] = next[i][f[i - 1]]
  BY DEF Defines
<1> DEFINE Is(f, n) == f[0] = s /\ \A i \in 1 .. n : f[i] = next[i][f[i - 1]]
           P == {n \in 0 .. hi : \E f \in [0 .. n -> S] : Is(f, n)}
<1>1. 0 \in P
  <2> DEFINE f == [i \in 0 .. 0 |-> s]
  <2>1. f \in [0 .. 0 -> S] /\ Is(f, 0)
    OBVIOUS
  <2>. HIDE DEF f, Is
  <2>. QED
    BY <2>1
<1>2. ASSUME NEW n \in 1 .. hi, n - 1 \in P PROVE n \in P
  <2>1. PICK f \in [0 .. n - 1 -> S] : Is(f, n - 1)
    BY <1>2
  <2>2. n - 1 \in 0 .. n - 1 /\ f[n - 1] \in S /\ next[n] \in [S -> S]
    OBVIOUS
  <2> DEFINE x == next[n][f[n - 1]]
             g == [i \in 0 .. n |-> IF i = n THEN x ELSE f[i]]
  <2>3. x \in S
    BY <2>2
  <2>. HIDE DEF x
  <2>4. g \in [0 .. n -> S]
    <3>1. \A i \in 0 .. n : i # n => i \in 0 .. n - 1
      OBVIOUS
    <3>. QED
      BY <2>3, <3>1
  <2>5. ASSUME NEW i \in 1 .. n PROVE g[i] = next[i][g[i - 1]]
    <3>1. i - 1 \in 0 .. n /\ i - 1 # n /\ i \in 0 .. n
      OBVIOUS
    <3>2. g[i - 1] = f[i - 1]
      BY <3>1
    <3>3. CASE i = n
      BY <3>1, <3>2, <3>3 DEF x
    <3>4. CASE i # n
      <4>1. i \in 1 .. n - 1
        BY <3>4
      <4>2. f[i] = next[i][f[i - 1]]
        BY <2>1, <4>1
      <4>. QED
        BY <3>1, <3>2, <3>4, <4>2
    <3>. QED
      BY <3>3, <3>4
  <2>6. g[0] = s
    BY <2>1
  <2>7. Is(g, n)
    BY <2>5, <2>6
  <2>. HIDE DEF g, Is
  <2>. QED
    BY <2>4, <2>7
<1>. HIDE DEF P, Is
<1>3. 0 .. hi \subseteq P
  <2>1. \A i \in 0 + 1 .. hi : i - 1 \in P => i \in P
    BY <1>2
  <2>2. 0 \in Int /\ hi \in Int
    OBVIOUS
  <2>. QED
    BY <1>1, <2>1, <2>2, Upwards
<1>4. hi \in P
  BY <1>3
<1>. QED
  BY <1>4 DEF P, Is

-----------------------------------------------------------------------------
(* Frame numbers as bits                                                     *)

(* Bits reads the bits of n off what is left of it.                          *)
LEMMA BitsOf ==
  ASSUME NEW n \in Nat
  PROVE  \E left \in [0 .. 21 -> Nat] :
           /\ left[0] = n /\ \A i \in 1 .. 21 : left[i] = left[i - 1] \div 2
           /\ Bits(n) = {b \in 0 .. 20 : left[b] % 2 = 1}
<1> DEFINE Is(f) == f = [b \in 0 .. 21 |-> IF b = 0 THEN n ELSE f[b - 1] \div 2]
           left == CHOOSE f : Is(f)
           next == [i \in 1 .. 21 |-> [x \in Nat |-> x \div 2]]
<1>1. Is(left)
  <2>1. next \in [1 .. 21 -> [Nat -> Nat]]
    <3>1. \A x \in Nat : x \div 2 \in Nat
      OBVIOUS
    <3>. QED
      BY <3>1
  <2>2. PICK f \in [0 .. 21 -> Nat] :
          f[0] = n /\ \A i \in 1 .. 21 : f[i] = next[i][f[i - 1]]
    <3>1. Defines(21, Nat)
      BY Recursion
    <3>. HIDE DEF next
    <3>. QED
      BY <2>1, <3>1 DEF Defines
  <2>3. ASSUME NEW i \in 1 .. 21 PROVE f[i] = f[i - 1] \div 2
    <3>1. i \in 1 .. 21 /\ f[i - 1] \in Nat
      OBVIOUS
    <3>. QED
      BY <2>2, <3>1
  <2>4. \A i \in 0 .. 21 : f[i] = IF i = 0 THEN n ELSE f[i - 1] \div 2
    BY <2>2, <2>3
  <2>5. Is(f)
    BY <2>4
  <2>. HIDE DEF Is
  <2>. QED
    BY <2>5
<1>2. Bits(n) = {b \in 0 .. 20 : left[b] % 2 = 1}
  BY DEF Bits
<1>3. left[0] = n /\ \A i \in 1 .. 21 : left[i] = left[i - 1] \div 2
  <2>. HIDE DEF left
  <2>. QED
    BY <1>1
<1>4. left \in [0 .. 21 -> Nat]
  <2> DEFINE P == {i \in 0 .. 21 : left[i] \in Nat}
  <2>. HIDE DEF left
  <2>1. 0 \in P
    BY <1>3
  <2>2. ASSUME NEW i \in 0 + 1 .. 21, i - 1 \in P PROVE i \in P
    BY <1>3, <2>2
  <2>3. 0 .. 21 \subseteq P
    <3>. HIDE DEF P
    <3>. QED
      BY <2>1, <2>2, Upwards
  <2>. QED
    BY <1>1, <2>3
<1>. HIDE DEF left
<1>. QED
  BY <1>2, <1>3, <1>4

(* Number adds up the bits of v from the highest one down.                   *)
LEMMA NumberOf ==
  ASSUME NEW v
  PROVE  \E from \in [0 .. 21 -> Nat] :
           /\ from[21] = 0
           /\ \A b \in 0 .. 20 : from[b] = 2 * from[b + 1] + (IF b \in v THEN 1 ELSE 0)
           /\ Number(v) = from[0]
<1> DEFINE Bit(b) == IF b \in v THEN 1 ELSE 0
           At(b, x) == IF v \cap (b .. 20) = {} THEN 0 ELSE 2 * x + Bit(b)
           Is(f) == f = [b \in 0 .. 21 |-> IF v \cap (b .. 20) = {} THEN 0
                                           ELSE 2 * f[b + 1] + Bit(b)]
           from == CHOOSE f : Is(f)
           next == [i \in 1 .. 21 |-> [x \in Nat |-> At(21 - i, x)]]
<1>1. \A b : Bit(b) \in 0 .. 1
  OBVIOUS
<1>2. \A b : \A x \in Nat : At(b, x) \in Nat
  BY <1>1
<1>3. Is(from)
  <2>1. next \in [1 .. 21 -> [Nat -> Nat]]
    <3>. HIDE DEF At
    <3>. QED
      BY <1>2
  <2>2. PICK f \in [0 .. 21 -> Nat] :
          f[0] = 0 /\ \A i \in 1 .. 21 : f[i] = next[i][f[i - 1]]
    <3>1. Defines(21, Nat)
      BY Recursion
    <3>. HIDE DEF next
    <3>. QED
      BY <2>1, <3>1 DEF Defines
  <2> DEFINE g == [b \in 0 .. 21 |-> f[21 - b]]
  <2>3. ASSUME NEW b \in 0 .. 20 PROVE g[b] = At(b, g[b + 1])
    <3>1. /\ 21 - b \in 1 .. 21 /\ 21 - (21 - b) = b /\ (21 - b) - 1 = 21 - (b + 1)
          /\ b + 1 \in 0 .. 21 /\ f[21 - (b + 1)] \in Nat
      OBVIOUS
    <3>2. next[21 - b] = [x \in Nat |-> At(b, x)]
      <4>. HIDE DEF At
      <4>. QED
        BY <3>1
    <3>3. f[21 - b] = next[21 - b][f[21 - (b + 1)]]
      BY <2>2, <3>1
    <3>. HIDE DEF next, At
    <3>. QED
      BY <3>1, <3>2, <3>3
  <2>4. g[21] = 0 /\ v \cap (21 .. 20) = {}
    BY <2>2
  <2>. HIDE DEF g
  <2>5. \A b \in 0 .. 21 : g[b] = IF v \cap (b .. 20) = {} THEN 0 ELSE 2 * g[b + 1] + Bit(b)
    <3>1. \A b \in 0 .. 21 : b # 21 => b \in 0 .. 20
      OBVIOUS
    <3>. HIDE DEF Bit
    <3>. QED
      BY <2>3, <2>4, <3>1
  <2>6. Is(g)
    <3>1. g = [b \in 0 .. 21 |-> g[b]]
      BY DEF g
    <3>. HIDE DEF Bit
    <3>. QED
      BY <2>5, <3>1
  <2>. HIDE DEF Is
  <2>. QED
    BY <2>6
<1>4. Number(v) = from[0]
  BY DEF Number
<1>. HIDE DEF from
<1>5. from[21] = 0 /\ \A b \in 0 .. 20 : from[b] = At(b, from[b + 1])
  <2>1. v \cap (21 .. 20) = {}
    OBVIOUS
  <2>. HIDE DEF Bit
  <2>. QED
    BY <1>3, <2>1
<1>6. from \in [0 .. 21 -> Nat]
  <2> DEFINE P == {i \in 0 .. 21 : from[21 - i] \in Nat}
  <2>1. 0 \in P
    BY <1>5
  <2>2. ASSUME NEW i \in 0 + 1 .. 21, i - 1 \in P PROVE i \in P
    <3>1. 21 - i \in 0 .. 20 /\ (21 - i) + 1 = 21 - (i - 1) /\ i \in 0 .. 21
      OBVIOUS
    <3>2. from[(21 - i) + 1] \in Nat
      BY <2>2, <3>1
    <3>. HIDE DEF At
    <3>. QED
      BY <1>2, <1>5, <3>1, <3>2
  <2>3. 0 .. 21 \subseteq P
    <3>. HIDE DEF P
    <3>. QED
      BY <2>1, <2>2, Upwards
  <2>4. ASSUME NEW b \in 0 .. 21 PROVE from[b] \in Nat
    <3>1. 21 - b \in P /\ 21 - (21 - b) = b
      BY <2>3
    <3>. QED
      BY <3>1
  <2>. HIDE DEF P, Bit
  <2>. QED
    BY <1>3, <2>4
<1>7. ASSUME NEW b \in 0 .. 20 PROVE from[b] = 2 * from[b + 1] + Bit(b)
  <2>1. b + 1 \in 0 .. 21 /\ from[b + 1] \in Nat
    BY <1>6
  <2>2. CASE v \cap (b .. 20) = {}
    <3>1. v \cap (b + 1 .. 20) = {} /\ b \notin v
      BY <2>2
    <3>2. from[b + 1] = 0
      <4>1. b + 1 \in 0 .. 20 => At(b + 1, from[(b + 1) + 1]) = 0
        BY <3>1
      <4>2. b + 1 \in 0 .. 20 \/ b + 1 = 21
        OBVIOUS
      <4>. HIDE DEF At
      <4>. QED
        BY <1>5, <4>1, <4>2
    <3>. QED
      BY <1>5, <2>2, <3>1, <3>2
  <2>3. CASE v \cap (b .. 20) # {}
    BY <1>5, <2>3
  <2>. QED
    BY <2>2, <2>3
<1>. QED
  BY <1>4, <1>5, <1>6, <1>7

(* A frame number of RAM or of swap fits its field of an entry and can be    *)
(* read back from its bits.                                                  *)
LEMMA NumberOfBits ==
  ASSUME NEW n \in Nat, n < MaxSwp
  PROVE  /\ Bits(n) \subseteq 0 .. 20 /\ Number(Bits(n)) = n
         /\ n < MaxRam => Bits(n) \subseteq 0 .. 12
<1>1. PICK left \in [0 .. 21 -> Nat] :
        /\ left[0] = n /\ \A i \in 1 .. 21 : left[i] = left[i - 1] \div 2
        /\ Bits(n) = {b \in 0 .. 20 : left[b] % 2 = 1}
  BY BitsOf
<1>2. PICK from \in [0 .. 21 -> Nat] :
        /\ from[21] = 0
        /\ \A b \in 0 .. 20 : from[b] = 2 * from[b + 1] + (IF b \in Bits(n) THEN 1 ELSE 0)
        /\ Number(Bits(n)) = from[0]
  BY NumberOf
<1>3. \A i \in 0 .. 20 : left[i + 1] = left[i] \div 2
  <2>. SUFFICES ASSUME NEW i \in 0 .. 20 PROVE left[i + 1] = left[i] \div 2
    OBVIOUS
  <2>1. i + 1 \in 1 .. 21 /\ (i + 1) - 1 = i
    OBVIOUS
  <2>. QED
    BY <1>1, <2>1
<1>4. left[21] = 0
  <2>1. n <= 2097151
    BY SMT DEF MaxSwp
  <2>. QED
    BY <1>1, <1>3, <2>1, SMT
<1>5. n < MaxRam => left[13] = 0
  <2>1. n < MaxRam => n <= 8191
    BY SMT DEF MaxRam
  <2>. QED
    BY <1>1, <1>3, <2>1, SMT
<1>6. from[0] = left[0]
  <2> DEFINE P == {i \in 0 .. 21 : from[21 - i] = left[21 - i]}
  <2>1. 0 \in P
    BY <1>2, <1>4
  <2>2. ASSUME NEW i \in 0 + 1 .. 21, i - 1 \in P PROVE i \in P
    <3> DEFINE b == 21 - i
    <3>1. b \in 0 .. 20 /\ b + 1 = 21 - (i - 1) /\ i \in 0 .. 21 /\ b + 1 \in 0 .. 21
      OBVIOUS
    <3>2. from[b + 1] = left[b + 1] /\ left[b] \in Nat
      BY <2>2, <3>1
    <3>3. from[b] = 2 * from[b + 1] + (IF b \in Bits(n) THEN 1 ELSE 0)
      BY <1>2, <3>1
    <3>4. b \in Bits(n) <=> left[b] % 2 = 1
      BY <1>1, <3>1
    <3>5. left[b + 1] = left[b] \div 2
      BY <1>3, <3>1
    <3>6. from[b] = left[b]
      <4>1. \A x \in Nat : x = 2 * (x \div 2) + (IF x % 2 = 1 THEN 1 ELSE 0)
        OBVIOUS
      <4>. HIDE DEF b
      <4>. QED
        BY <3>2, <3>3, <3>4, <3>5, <4>1
    <3>. QED
      BY <3>1, <3>6
  <2>3. 0 .. 21 \subseteq P
    <3>. HIDE DEF P
    <3>. QED
      BY <2>1, <2>2, Upwards
  <2>4. 21 \in P /\ 21 - 21 = 0
    BY <2>3
  <2>. QED
    BY <2>4
<1>7. ASSUME n < MaxRam PROVE Bits(n) \subseteq 0 .. 12
  <2> DEFINE P == {i \in 13 .. 20 : left[i] = 0}
  <2>1. 13 \in P
    BY <1>5, <1>7
  <2>2. ASSUME NEW i \in 13 + 1 .. 20, i - 1 \in P PROVE i \in P
    BY <1>1, <2>2
  <2>3. 13 .. 20 \subseteq P
    <3>. HIDE DEF P
    <3>. QED
      BY <2>1, <2>2, Upwards
  <2>. QED
    BY <1>1, <2>3
<1>. QED
  BY <1>1, <1>2, <1>6, <1>7

(* A number that is read out of a field is a natural number.                 *)
LEMMA NumberIsNat == ASSUME NEW v PROVE Number(v) \in Nat
BY NumberOf

-----------------------------------------------------------------------------
(* Devices                                                                   *)

(* The bytes of different frames are different, and those of a frame from lo *)
(* to n - 1 lie between the first byte of lo and the first of n.             *)
LEMMA Rows ==
  ASSUME NEW f \in Nat, NEW g \in Nat, f < g
  PROVE  /\ f * PAGING_PAGESZ \in Nat /\ g * PAGING_PAGESZ \in Nat
         /\ f * PAGING_PAGESZ + PAGING_PAGESZ <= g * PAGING_PAGESZ
<1>1. PAGING_PAGESZ \in Nat
  BY PageSizeAssumption
<1>2. PICK k \in Nat : g = f + 1 + k
  <2>1. g - f - 1 \in Nat /\ g = f + 1 + (g - f - 1)
    OBVIOUS
  <2>. QED
    BY <2>1
<1>3. (f + 1 + k) * PAGING_PAGESZ = f * PAGING_PAGESZ + PAGING_PAGESZ + k * PAGING_PAGESZ
  BY <1>1
<1>4. \A m \in Nat : m * PAGING_PAGESZ \in Nat
  BY <1>1
<1>. QED
  BY <1>1, <1>2, <1>3, <1>4

(* Bytes at different places of their frames, or of different frames, differ. *)
LEMMA BytesApart ==
  ASSUME NEW f \in Nat, NEW g \in Nat, NEW c \in Cells, NEW d \in Cells,
         f * PAGING_PAGESZ + c = g * PAGING_PAGESZ + d
  PROVE  f = g /\ c = d
<1>1. /\ PAGING_PAGESZ \in Nat /\ c \in Nat /\ d \in Nat
      /\ c < PAGING_PAGESZ /\ d < PAGING_PAGESZ
  BY PageSizeAssumption DEF Cells
<1>2. f * PAGING_PAGESZ \in Nat /\ g * PAGING_PAGESZ \in Nat
  BY <1>1
<1>3. ~(f < g)
  <2>. SUFFICES ASSUME f < g PROVE FALSE
    OBVIOUS
  <2>1. f * PAGING_PAGESZ + PAGING_PAGESZ <= g * PAGING_PAGESZ
    BY Rows
  <2>. QED
    BY <1>1, <1>2, <2>1
<1>4. ~(g < f)
  <2>. SUFFICES ASSUME g < f PROVE FALSE
    OBVIOUS
  <2>1. g * PAGING_PAGESZ + PAGING_PAGESZ <= f * PAGING_PAGESZ
    BY Rows
  <2>. QED
    BY <1>1, <1>2, <2>1
<1>5. f = g
  BY <1>3, <1>4
<1>. QED
  BY <1>1, <1>2, <1>5

(* The bytes of a frame lie within its device.                               *)
LEMMA BytesInside ==
  ASSUME NEW lo \in Nat, NEW n \in Nat, NEW f \in lo .. n - 1, NEW c \in Cells
  PROVE  f * PAGING_PAGESZ + c \in lo * PAGING_PAGESZ .. n * PAGING_PAGESZ - 1
<1>1. PAGING_PAGESZ \in Nat /\ c \in Nat /\ c < PAGING_PAGESZ /\ f \in Nat /\ f < n /\ lo <= f
  BY PageSizeAssumption DEF Cells
<1>2. \A m \in Nat : m * PAGING_PAGESZ \in Nat
  BY <1>1
<1>3. f * PAGING_PAGESZ + PAGING_PAGESZ <= n * PAGING_PAGESZ
  BY <1>1, Rows
<1>4. lo * PAGING_PAGESZ <= f * PAGING_PAGESZ
  <2>1. CASE lo = f
    BY <1>1, <1>2, <2>1
  <2>2. CASE lo < f
    <3>1. lo * PAGING_PAGESZ + PAGING_PAGESZ <= f * PAGING_PAGESZ
      BY <1>1, <2>2, Rows
    <3>. QED
      BY <1>1, <1>2, <3>1
  <2>. QED
    BY <1>1, <2>1, <2>2
<1>. QED
  BY <1>1, <1>2, <1>3, <1>4

(* The frame of a byte that lies from the first byte of lo on.               *)
LEMMA FrameOf ==
  ASSUME NEW lo \in Nat, NEW a \in Nat, lo * PAGING_PAGESZ <= a
  PROVE  lo <= a \div PAGING_PAGESZ
<1>1. PAGING_PAGESZ \in Nat \ {0}
  BY PageSizeAssumption
<1> DEFINE f == a \div PAGING_PAGESZ
<1>2. f \in Nat /\ a < f * PAGING_PAGESZ + PAGING_PAGESZ
  BY <1>1
<1>. HIDE DEF f
<1>3. ~(f < lo)
  <2>. SUFFICES ASSUME f < lo PROVE FALSE
    OBVIOUS
  <2>1. f * PAGING_PAGESZ + PAGING_PAGESZ <= lo * PAGING_PAGESZ /\ lo * PAGING_PAGESZ \in Nat
    BY <1>2, Rows
  <2>2. f * PAGING_PAGESZ + PAGING_PAGESZ \in Nat
    BY <1>1, <1>2
  <2>. QED
    BY <1>2, <2>1, <2>2
<1>4. lo <= f
  BY <1>2, <1>3
<1>. QED
  BY <1>4 DEF f

(* A device of which the frames from lo to n - 1 are used.                   *)
IsDevice(mp, lo, n) ==
  /\ mp = [free_fp_list |-> mp.free_fp_list, storage |-> mp.storage]
  /\ mp.free_fp_list \in Seq(Nat)
  /\ mp.storage \in [DOMAIN mp.storage -> Bytes]
  /\ DOMAIN mp.storage \subseteq lo * PAGING_PAGESZ .. n * PAGING_PAGESZ - 1

(* A page that is read is a page of bytes.                                   *)
LEMMA PageOfBytes ==
  ASSUME NEW mp, NEW lo, NEW n, IsDevice(mp, lo, n), NEW fpn
  PROVE  PageAt(mp, fpn) \in [Cells -> Bytes]
<1>1. 0 \in Bytes
  BY NumPagesAssumption DEF Bytes
<1>. QED
  BY <1>1 DEF IsDevice, PageAt, MEMPHY_read

(* __swap_cp_page fills a frame with the page it copies, and leaves the list *)
(* of free frames and the other frames as they were.                         *)
LEMMA CopyPage ==
  ASSUME NEW lo \in Nat, NEW n \in Nat, NEW src, NEW sf, NEW dst, IsDevice(dst, lo, n),
         PageAt(src, sf) \in [Cells -> Bytes], NEW df \in lo .. n - 1
  PROVE  LET mp == __swap_cp_page(src, sf, dst, df)
         IN  /\ IsDevice(mp, lo, n) /\ mp.free_fp_list = dst.free_fp_list
             /\ PageAt(mp, df) = PageAt(src, sf)
             /\ \A f \in Nat \ {df} : PageAt(mp, f) = PageAt(dst, f)
<1> DEFINE mp == __swap_cp_page(src, sf, dst, df)
           base == df * PAGING_PAGESZ
           page == PageAt(src, sf)
           D == {base + cell : cell \in Cells}
<1>1. /\ mp = [free_fp_list |-> dst.free_fp_list, storage |-> mp.storage]
      /\ mp.storage = Over([a \in D |-> page[a - base]], dst.storage)
  BY DEF IsDevice, __swap_cp_page
<1>2. df \in Nat /\ base \in Nat /\ \A c \in Cells : c \in Nat
  BY PageSizeAssumption DEF Cells
<1>. HIDE DEF page, mp
<1>3. /\ DOMAIN mp.storage = D \cup DOMAIN dst.storage
      /\ \A a \in D : mp.storage[a] = page[a - base]
      /\ \A a \in DOMAIN dst.storage \ D : mp.storage[a] = dst.storage[a]
      /\ mp.storage = [a \in DOMAIN mp.storage |-> mp.storage[a]]
  <2>. HIDE DEF D
  <2>. QED
    BY <1>1 DEF Over
<1>4. \A c \in Cells : base + c \in D /\ mp.storage[base + c] = page[c]
  <2>1. \A c \in Cells : (base + c) - base = c
    BY <1>2
  <2>. QED
    BY <1>3, <2>1
<1>5. D \subseteq lo * PAGING_PAGESZ .. n * PAGING_PAGESZ - 1
  BY BytesInside
<1>6. IsDevice(mp, lo, n)
  <2>1. \A a \in D : mp.storage[a] \in Bytes
    BY <1>4 DEF page
  <2>2. \A a \in DOMAIN mp.storage : mp.storage[a] \in Bytes
    <3>. HIDE DEF D
    <3>. QED
      BY <1>3, <2>1 DEF IsDevice
  <2>. HIDE DEF D, base
  <2>3. mp.storage \in [DOMAIN mp.storage -> Bytes]
    BY <1>3, <2>2
  <2>4. DOMAIN mp.storage \subseteq lo * PAGING_PAGESZ .. n * PAGING_PAGESZ - 1
    BY <1>3, <1>5 DEF IsDevice
  <2>5. mp.free_fp_list = dst.free_fp_list
    BY <1>1
  <2>. QED
    BY <1>1, <2>3, <2>4, <2>5 DEF IsDevice
<1>7. PageAt(mp, df) = page
  <2>1. \A c \in Cells : MEMPHY_read(mp, base + c) = page[c]
    <3>. HIDE DEF D, base
    <3>. QED
      BY <1>3, <1>4 DEF MEMPHY_read
  <2>2. PageAt(mp, df) = [c \in Cells |-> page[c]]
    BY <2>1 DEF PageAt
  <2>. QED
    BY <2>2 DEF page
<1>8. ASSUME NEW f \in Nat \ {df} PROVE PageAt(mp, f) = PageAt(dst, f)
  <2>1. \A c \in Cells : f * PAGING_PAGESZ + c \notin D
    BY <1>2, BytesApart
  <2>2. \A c \in Cells : MEMPHY_read(mp, f * PAGING_PAGESZ + c)
                          = MEMPHY_read(dst, f * PAGING_PAGESZ + c)
    <3>. HIDE DEF D
    <3>. QED
      BY <1>3, <2>1 DEF MEMPHY_read
  <2>. QED
    BY <2>2 DEF PageAt
<1>9. mp.free_fp_list = dst.free_fp_list
  BY <1>1
<1>. QED
  BY <1>6, <1>7, <1>8, <1>9 DEF mp, page

(* MEMPHY_write changes one byte of the device.                              *)
LEMMA WriteByte ==
  ASSUME NEW lo \in Nat, NEW n \in Nat, NEW dev, IsDevice(dev, lo, n), NEW data \in Bytes,
         NEW addr \in lo * PAGING_PAGESZ .. n * PAGING_PAGESZ - 1
  PROVE  LET mp == MEMPHY_write(dev, addr, data)
         IN  /\ IsDevice(mp, lo, n) /\ mp.free_fp_list = dev.free_fp_list
             /\ \A a : a # addr => MEMPHY_read(mp, a) = MEMPHY_read(dev, a)
<1> DEFINE mp == MEMPHY_write(dev, addr, data)
<1>1. /\ mp = [free_fp_list |-> dev.free_fp_list, storage |-> mp.storage]
      /\ mp.storage = Over([a \in {addr} |-> data], dev.storage)
  BY DEF IsDevice, MEMPHY_write
<1>. HIDE DEF mp
<1>2. /\ DOMAIN mp.storage = {addr} \cup DOMAIN dev.storage
      /\ mp.storage[addr] = data
      /\ \A a \in DOMAIN dev.storage \ {addr} : mp.storage[a] = dev.storage[a]
      /\ mp.storage = [a \in DOMAIN mp.storage |-> mp.storage[a]]
  BY <1>1 DEF Over
<1>3. IsDevice(mp, lo, n)
  BY <1>1, <1>2 DEF IsDevice
<1>4. \A a : a # addr => MEMPHY_read(mp, a) = MEMPHY_read(dev, a)
  BY <1>2 DEF MEMPHY_read
<1>5. mp.free_fp_list = dev.free_fp_list
  BY <1>1
<1>. QED
  BY <1>3, <1>4, <1>5 DEF mp

(* A byte of one frame is in no other.                                       *)
LEMMA OtherPages ==
  ASSUME NEW mp, NEW dev, NEW fpn \in Nat, NEW cell \in Cells,
         \A a : a # fpn * PAGING_PAGESZ + cell => MEMPHY_read(mp, a) = MEMPHY_read(dev, a)
  PROVE  \A f \in Nat \ {fpn} : PageAt(mp, f) = PageAt(dev, f)
<1>1. \A f \in Nat \ {fpn}, c \in Cells : f * PAGING_PAGESZ + c # fpn * PAGING_PAGESZ + cell
  BY BytesApart
<1>. QED
  BY <1>1 DEF PageAt

-----------------------------------------------------------------------------
(* Frames and their owners                                                   *)

(* The frames from lo to n - 1 of a device are each on its list, once, or in *)
(* the entry of one page of S: at[p] for page p.                             *)
Owned(list, S, at, lo, n) ==
  /\ list \in Seq(lo .. n - 1)
  /\ \A j, k \in 1 .. Len(list) : list[j] = list[k] => j = k
  /\ S \subseteq Pages
  /\ \A p \in S : at[p] \in lo .. n - 1
  /\ \A p, q \in S : at[p] = at[q] => p = q
  /\ \A p \in S, k \in 1 .. Len(list) : list[k] # at[p]
  /\ \A f \in lo .. n - 1 : \/ \E k \in 1 .. Len(list) : list[k] = f
                            \/ \E p \in S : at[p] = f
  /\ Len(list) + Cardinality(S) + lo = n

(* Pages can be counted.                                                     *)
LEMMA PagesFinite ==
  ASSUME NEW S, S \subseteq Pages
  PROVE  IsFiniteSet(S) /\ Cardinality(S) \in Nat
<1>1. NumPages - 1 \in Int /\ 0 \in Int
  BY NumPagesAssumption
<1>2. IsFiniteSet(Pages)
  BY <1>1, FS_Interval DEF Pages
<1>. QED
  BY <1>2, FS_Subset, FS_CardinalityType

(* The first free frame goes to a page that has none.                        *)
LEMMA TakeFrame ==
  ASSUME NEW lo \in Nat, NEW n \in Nat, NEW list, NEW S, NEW at, NEW at2,
         Owned(list, S, at, lo, n), list # << >>, NEW p \in Pages \ S,
         at2[p] = Head(list), \A q \in S : at2[q] = at[q]
  PROVE  Owned(Tail(list), S \cup {p}, at2, lo, n)
<1> DEFINE rest == Tail(list)
<1>1. list \in Seq(lo .. n - 1) /\ S \subseteq Pages
  BY DEF Owned
<1>2. /\ rest \in Seq(lo .. n - 1) /\ Len(rest) = Len(list) - 1
      /\ \A i \in 1 .. Len(rest) : rest[i] = list[i + 1]
  BY <1>1, HeadTailProperties
<1>3. Len(list) \in Nat \ {0} /\ Head(list) = list[1] /\ list[1] \in lo .. n - 1
  BY <1>1
<1>. HIDE DEF rest
<1>4. \A i \in 1 .. Len(rest) : i + 1 \in 1 .. Len(list) /\ i + 1 # 1
  BY <1>2, <1>3
<1>5. \A j, k \in 1 .. Len(rest) : rest[j] = rest[k] => j = k
  <2>. SUFFICES ASSUME NEW j \in 1 .. Len(rest), NEW k \in 1 .. Len(rest), rest[j] = rest[k]
                PROVE  j = k
    OBVIOUS
  <2>1. \A a, b \in 1 .. Len(list) : list[a] = list[b] => a = b
    BY DEF Owned
  <2>2. list[j + 1] = list[k + 1]
    BY <1>2
  <2>3. j + 1 = k + 1
    BY <1>4, <2>1, <2>2
  <2>. QED
    BY <2>3
<1>6. \A q \in S \cup {p} : at2[q] \in lo .. n - 1
  BY <1>3 DEF Owned
<1>7. 1 \in 1 .. Len(list)
  BY <1>3
<1>8. \A q \in S : at2[q] # at2[p]
  BY <1>3, <1>7 DEF Owned
<1>9. \A q, r \in S \cup {p} : at2[q] = at2[r] => q = r
  BY <1>8 DEF Owned
<1>10. \A q \in S \cup {p}, k \in 1 .. Len(rest) : rest[k] # at2[q]
  <2>1. \A k \in 1 .. Len(rest) : rest[k] # at2[p]
    BY <1>2, <1>3, <1>4, <1>7 DEF Owned
  <2>2. \A q \in S, k \in 1 .. Len(rest) : rest[k] # at2[q]
    BY <1>2, <1>4 DEF Owned
  <2>. QED
    BY <2>1, <2>2
<1>11. ASSUME NEW f \in lo .. n - 1
       PROVE  (\E k \in 1 .. Len(rest) : rest[k] = f) \/ \E q \in S \cup {p} : at2[q] = f
  <2>1. CASE \E q \in S : at[q] = f
    BY <2>1
  <2>2. CASE \E k \in 1 .. Len(list) : list[k] = f
    <3>1. PICK k \in 1 .. Len(list) : list[k] = f
      BY <2>2
    <3>2. CASE k = 1
      BY <1>3, <3>1, <3>2
    <3>3. CASE k # 1
      <4>1. k - 1 \in 1 .. Len(rest) /\ (k - 1) + 1 = k
        BY <1>2, <1>3, <3>3
      <4>2. rest[k - 1] = f
        BY <1>2, <3>1, <4>1
      <4>. QED
        BY <4>1, <4>2
    <3>. QED
      BY <3>2, <3>3
  <2>. QED
    BY <2>1, <2>2 DEF Owned
<1>12. Len(rest) + Cardinality(S \cup {p}) + lo = n
  <2>1. IsFiniteSet(S) /\ Cardinality(S) \in Nat
    BY <1>1, PagesFinite
  <2>2. Cardinality(S \cup {p}) = Cardinality(S) + 1
    BY <2>1, FS_AddElement
  <2>3. Len(list) + Cardinality(S) + lo = n
    BY DEF Owned
  <2>. QED
    BY <1>2, <1>3, <2>1, <2>2, <2>3
<1>13. S \cup {p} \subseteq Pages
  BY <1>1
<1>14. Owned(rest, S \cup {p}, at2, lo, n)
  BY <1>2, <1>5, <1>6, <1>9, <1>10, <1>11, <1>12, <1>13 DEF Owned
<1>. QED
  BY <1>14 DEF rest

(* The frame of a page goes to one that has none.                            *)
LEMMA PassFrame ==
  ASSUME NEW lo \in Nat, NEW n \in Nat, NEW list, NEW S, NEW at, NEW at2,
         Owned(list, S, at, lo, n), NEW v \in S, NEW p \in Pages \ S,
         at2[p] = at[v], \A q \in S \ {v} : at2[q] = at[q]
  PROVE  Owned(list, (S \ {v}) \cup {p}, at2, lo, n)
<1> DEFINE T == (S \ {v}) \cup {p}
<1>1. S \subseteq Pages /\ T \subseteq Pages /\ list \in Seq(lo .. n - 1)
  BY DEF Owned
<1>2. \A q \in T : at2[q] \in lo .. n - 1
  BY DEF Owned
<1>3. \A q, r \in T : at2[q] = at2[r] => q = r
  BY DEF Owned
<1>4. \A q \in T, k \in 1 .. Len(list) : list[k] # at2[q]
  BY DEF Owned
<1>5. ASSUME NEW f \in lo .. n - 1, NEW q \in S, at[q] = f
      PROVE  \E r \in T : at2[r] = f
  BY <1>5
<1>6. \A f \in lo .. n - 1 : \/ \E k \in 1 .. Len(list) : list[k] = f
                            \/ \E q \in T : at2[q] = f
  <2>. HIDE DEF T
  <2>. QED
    BY <1>5 DEF Owned
<1>7. Cardinality(T) = Cardinality(S)
  <2>1. IsFiniteSet(S) /\ Cardinality(S) \in Nat
    BY <1>1, PagesFinite
  <2>2. IsFiniteSet(S \ {v}) /\ Cardinality(S \ {v}) = Cardinality(S) - 1
    BY <2>1, FS_RemoveElement
  <2>3. Cardinality(T) = Cardinality(S \ {v}) + 1
    BY <2>2, FS_AddElement
  <2>. QED
    BY <2>1, <2>2, <2>3
<1>. HIDE DEF T
<1>8. Len(list) + Cardinality(T) + lo = n
  BY <1>7 DEF Owned
<1>9. Owned(list, T, at2, lo, n)
  <2>1. \A j, k \in 1 .. Len(list) : list[j] = list[k] => j = k
    BY DEF Owned
  <2>. QED
    BY <1>1, <1>2, <1>3, <1>4, <1>6, <1>8, <2>1 DEF Owned
<1>. QED
  BY <1>9 DEF T

-----------------------------------------------------------------------------
(* Entries                                                                   *)

(* An entry is of one kind.                                                  *)
LEMMA OneKind == ASSUME NEW pte PROVE ~(IsResident(pte) /\ IsSwapped(pte))
BY DEF IsResident, IsSwapped

(* SETVAL adds no bits outside its field.                                    *)
LEMMA SetInField ==
  ASSUME NEW v, NEW value, NEW mask, NEW offst
  PROVE  SETVAL(v, value, mask, offst) \subseteq v \cup mask
BY DEF SETVAL

(* An entry set to a frame of RAM.                                           *)
LEMMA ResidentEntry ==
  ASSUME NEW pte, NEW n \in Nat
  PROVE  LET e == pte_set_fpn(pte, Bits(n))
         IN  /\ IsResident(e)
             /\ pte \subseteq 0 .. 31 => e \subseteq 0 .. 31
             /\ n < MaxRam => Fpn(e) = n
<1> DEFINE e == pte_set_fpn(pte, Bits(n))
           v == CLRBIT(SETBIT(pte, PRESENT), SWAPPED)
<1>1. e = SETVAL(v, Bits(n), FPN, 0)
  BY DEF pte_set_fpn
<1>2. 31 \in v /\ 30 \notin v /\ v \subseteq pte \cup {31}
  BY DEF CLRBIT, SETBIT, PRESENT, SWAPPED
<1>. HIDE DEF v
<1>3. IsResident(e)
  <2>1. 31 \notin FPN /\ 30 \notin FPN
    BY DEF FPN, GENMASK
  <2>2. e \subseteq v \cup FPN
    BY <1>1, SetInField
  <2>3. 31 \in e
    BY <1>1, <1>2, <2>1 DEF SETVAL
  <2>. HIDE DEF e
  <2>. QED
    BY <1>2, <2>1, <2>2, <2>3 DEF IsResident, PAGE_PRESENT, PRESENT, SWAPPED
<1>4. pte \subseteq 0 .. 31 => e \subseteq 0 .. 31
  <2>1. e \subseteq v \cup FPN
    BY <1>1, SetInField
  <2>2. FPN \subseteq 0 .. 31
    BY DEF FPN, GENMASK
  <2>. HIDE DEF e
  <2>. QED
    BY <1>2, <2>1, <2>2
<1>5. n < MaxRam => Fpn(e) = n
  <2>. SUFFICES ASSUME n < MaxRam PROVE Fpn(e) = n
    OBVIOUS
  <2>1. n < MaxSwp
    BY SMT DEF MaxRam, MaxSwp
  <2>2. Bits(n) \subseteq 0 .. 12 /\ Number(Bits(n)) = n
    BY <2>1, NumberOfBits
  <2>3. PAGING_FPN(e) = Bits(n)
    BY <2>2, PresentEntry
  <2>. HIDE DEF e
  <2>. QED
    BY <2>2, <2>3 DEF Fpn
<1>. QED
  BY <1>3, <1>4, <1>5 DEF e

(* An entry set to a frame of swap.                                          *)
LEMMA SwapEntry ==
  ASSUME NEW pte, NEW n \in Nat
  PROVE  LET e == pte_set_swap(pte, {}, Bits(n))
         IN  /\ IsSwapped(e)
             /\ pte \subseteq 0 .. 31 => e \subseteq 0 .. 31
             /\ n < MaxSwp => Swpoff(e) = n
<1> DEFINE e == pte_set_swap(pte, {}, Bits(n))
<1>1. Bits(n) \subseteq 0 .. 20
  BY DEF Bits
<1>2. {} \subseteq 0 .. 4
  OBVIOUS
<1>3. PAGE_PRESENT(e) /\ 30 \in e /\ PAGING_SWP(e) = Bits(n)
  BY <1>1, <1>2, SwappedEntry
<1>4. pte \subseteq 0 .. 31 => e \subseteq 0 .. 31
  <2> DEFINE v == SETBIT(SETBIT(pte, PRESENT), SWAPPED)
             u == SETVAL(v, {}, SWPTYP, 0)
  <2>1. v \subseteq pte \cup {30, 31}
    BY DEF SETBIT, PRESENT, SWAPPED
  <2>. HIDE DEF v
  <2>2. u \subseteq v \cup SWPTYP
    BY SetInField
  <2>3. e \subseteq u \cup SWPOFF
    BY SetInField DEF pte_set_swap, v
  <2>4. SWPTYP \subseteq 0 .. 31 /\ SWPOFF \subseteq 0 .. 31
    BY DEF SWPTYP, SWPOFF, GENMASK
  <2>. HIDE DEF u, e
  <2>. QED
    BY <2>1, <2>2, <2>3, <2>4
<1>. HIDE DEF e
<1>5. IsSwapped(e)
  BY <1>3 DEF IsSwapped, SWAPPED
<1>6. n < MaxSwp => Swpoff(e) = n
  BY <1>3, NumberOfBits DEF Swpoff
<1>. QED
  BY <1>4, <1>5, <1>6 DEF e

-----------------------------------------------------------------------------
(* The inductive invariants                                                  *)

Typed == /\ pgd \in [Pages -> SUBSET (0 .. 31)] /\ fifo_pgn \in Seq(Pages)
         /\ config \in Configs /\ state \in {"alive", "freed", "crashed"}
         /\ IsDevice(mram, 0, config.ram)
         /\ IsDevice(mswp, config.swpTaken, config.swp)

(* The list, as it is used by find_victim_page.                              *)
Distinct(list) == \A i, j \in 1 .. Len(list) : i # j => list[i] # list[j]
Resident(list) == \A i \in 1 .. Len(list) : IsResident(pgd[list[i]])

SwpListed == mswp.free_fp_list \in Seq(config.swpTaken .. config.swp - 1)

(* The parts of the machine have their types, no byte of another process's   *)
(* frame of swap is written, and while the process lives a free frame of     *)
(* swap is not another's, and a victim is a page in RAM.                     *)
TInv == /\ Typed
        /\ state = "alive" => SwpListed /\ Distinct(fifo_pgn) /\ Resident(fifo_pgn)

RamFrame == [p \in Pages |-> Fpn(pgd[p])]
SwpFrame == [p \in Pages |-> Swpoff(pgd[p])]

RamOwned == Owned(mram.free_fp_list, RamInUse, RamFrame, config.ramTaken, config.ram)
SwpOwned == Owned(mswp.free_fp_list, SwpInUse, SwpFrame, config.swpTaken, config.swp)

(* Moreover each frame has one owner while the process lives, and when it is *)
(* gone its frames of RAM are free.                                          *)
IInv == TInv /\ (state = "alive" => RamOwned /\ SwpOwned) /\ NoRamFrameLeaks

(* The numbers of a configuration.                                           *)
LEMMA Numbers ==
  ASSUME Typed
  PROVE  /\ config.ram \in Nat /\ config.ramTaken \in 0 .. config.ram
         /\ config.swp \in Nat /\ config.swpTaken \in 0 .. config.swp
         /\ config.ramTaken \in Nat /\ config.swpTaken \in Nat
         /\ config.ramTaken <= config.ram /\ config.swpTaken <= config.swp
BY ConfigsAssumption DEF Typed

(* The frame numbers fit.                                                    *)
LEMMA Fitting ==
  ASSUME FramesFit, Typed
  PROVE  /\ \A f \in config.ramTaken .. config.ram - 1 : f \in Nat /\ f < MaxRam
         /\ \A f \in config.swpTaken .. config.swp - 1 : f \in Nat /\ f < MaxSwp
<1>1. config.ram <= MaxRam /\ config.swp <= MaxSwp
  BY DEF FramesFit, Typed
<1>2. MaxRam \in Nat /\ MaxSwp \in Nat
  BY SMT DEF MaxRam, MaxSwp
<1>. QED
  BY <1>1, <1>2, Numbers

(* MEMPHY_get_freefp and MEMPHY_put_freefp change the list and no byte.      *)
LEMMA GetFreefp ==
  ASSUME NEW mp, NEW lo, NEW n, IsDevice(mp, lo, n), mp.free_fp_list # << >>
  PROVE  /\ IsDevice(MEMPHY_get_freefp(mp), lo, n)
         /\ MEMPHY_get_freefp(mp).free_fp_list = Tail(mp.free_fp_list)
         /\ MEMPHY_get_freefp(mp).storage = mp.storage
<1> DEFINE list == Tail(mp.free_fp_list)
           dev == MEMPHY_get_freefp(mp)
<1>1. \A x : [mp EXCEPT !.free_fp_list = x] = [free_fp_list |-> x, storage |-> mp.storage]
  BY DEF IsDevice
<1>2. dev = [mp EXCEPT !.free_fp_list = list]
  BY Zenon DEF MEMPHY_get_freefp
<1>3. list \in Seq(Nat)
  BY HeadTailProperties DEF IsDevice
<1>. HIDE DEF list, dev
<1>4. dev.free_fp_list = list /\ dev.storage = mp.storage
      /\ dev = [free_fp_list |-> dev.free_fp_list, storage |-> dev.storage]
  BY <1>1, <1>2
<1>5. IsDevice(dev, lo, n)
  BY <1>3, <1>4 DEF IsDevice
<1>. QED
  BY <1>4, <1>5 DEF dev, list

(* MEMPHY_put_freefp puts the frame at the head of the list.                 *)
LEMMA PutFreefp ==
  ASSUME NEW mp, NEW lo, NEW n, IsDevice(mp, lo, n), NEW fpn \in Nat
  PROVE  /\ IsDevice(MEMPHY_put_freefp(mp, fpn), lo, n)
         /\ MEMPHY_put_freefp(mp, fpn).free_fp_list = <<fpn>> \o mp.free_fp_list
         /\ MEMPHY_put_freefp(mp, fpn).storage = mp.storage
<1> DEFINE list == <<fpn>> \o mp.free_fp_list
           dev == MEMPHY_put_freefp(mp, fpn)
<1>1. \A x : [mp EXCEPT !.free_fp_list = x] = [free_fp_list |-> x, storage |-> mp.storage]
  BY DEF IsDevice
<1>2. dev = [mp EXCEPT !.free_fp_list = list]
  BY Zenon DEF MEMPHY_put_freefp
<1>3. list \in Seq(Nat)
  BY DEF IsDevice
<1>. HIDE DEF list, dev
<1>4. dev.free_fp_list = list /\ dev.storage = mp.storage
      /\ dev = [free_fp_list |-> dev.free_fp_list, storage |-> dev.storage]
  BY <1>1, <1>2
<1>5. IsDevice(dev, lo, n)
  BY <1>3, <1>4 DEF IsDevice
<1>. QED
  BY <1>4, <1>5 DEF dev, list

(* Devices with the same bytes show the same pages.                          *)
LEMMA SamePages ==
  ASSUME NEW mp, NEW dev, mp.storage = dev.storage
  PROVE  \A f : PageAt(mp, f) = PageAt(dev, f)
BY DEF PageAt, MEMPHY_read

(* What is owned depends on the entries of the owners only.                  *)
LEMMA SameOwners ==
  ASSUME NEW list, NEW S, NEW at, NEW at2, NEW lo, NEW n, Owned(list, S, at, lo, n),
         \A q \in S : at2[q] = at[q]
  PROVE  Owned(list, S, at2, lo, n)
BY DEF Owned

(* The first k frames of the list are taken.                                 *)
LEMMA TakenFrames ==
  ASSUME NEW mp, NEW k, mp = [free_fp_list |-> mp.free_fp_list, storage |-> mp.storage]
  PROVE  Taken(mp, k) = [free_fp_list |-> SubSeq(mp.free_fp_list, k + 1, Len(mp.free_fp_list)),
                         storage |-> mp.storage]
<1> DEFINE list == SubSeq(mp.free_fp_list, k + 1, Len(mp.free_fp_list))
<1>1. \A x : [mp EXCEPT !.free_fp_list = x] = [free_fp_list |-> x, storage |-> mp.storage]
  OBVIOUS
<1>2. Taken(mp, k) = [mp EXCEPT !.free_fp_list = list]
  BY Zenon DEF Taken
<1>. HIDE DEF list
<1>3. Taken(mp, k) = [free_fp_list |-> list, storage |-> mp.storage]
  BY <1>1, <1>2
<1>. QED
  BY <1>3 DEF list

(* A device on which the first lo of n frames are taken.                     *)
LEMMA FreshDevice ==
  ASSUME NEW n \in Nat, NEW lo \in 0 .. n, NEW at
  PROVE  /\ IsDevice(Taken(init_memphy(n), lo), lo, n)
         /\ Owned(Taken(init_memphy(n), lo).free_fp_list, {}, at, lo, n)
<1> DEFINE all == [k \in 1 .. n |-> k - 1]
           list == SubSeq(all, lo + 1, n)
           mp == Taken(init_memphy(n), lo)
<1>1. all \in Seq(Nat) /\ Len(all) = n
  <2>1. all \in [1 .. n -> Nat]
    OBVIOUS
  <2>. QED
    BY <2>1
<1>2. /\ list \in Seq(Nat) /\ Len(list) = n - lo
      /\ \A k \in 1 .. Len(list) : list[k] = lo + k - 1
  <2>1. \A k \in 1 .. n - lo : (lo + 1) + k - 1 \in 1 .. n /\ ((lo + 1) + k - 1) - 1 = lo + k - 1
    OBVIOUS
  <2>2. \A k \in 1 .. n : all[k] = k - 1
    OBVIOUS
  <2>3. list = [k \in 1 .. n - lo |-> all[(lo + 1) + k - 1]]
    <3>. HIDE DEF all
    <3>. QED
      BY <1>1
  <2>4. \A k \in 1 .. n - lo : list[k] = lo + k - 1
    <3>. HIDE DEF all, list
    <3>. QED
      BY <2>1, <2>2, <2>3
  <2>5. list \in [1 .. n - lo -> Nat] /\ n - lo \in Nat
    <3>1. \A k \in 1 .. n - lo : lo + k - 1 \in Nat
      OBVIOUS
    <3>. HIDE DEF all, list
    <3>2. \A k \in 1 .. n - lo : list[k] \in Nat
      BY <2>4, <3>1
    <3>3. n - lo \in Nat
      OBVIOUS
    <3>4. list = [k \in 1 .. n - lo |-> list[k]]
      BY <2>3
    <3>. QED
      BY <3>2, <3>3, <3>4
  <2>6. list \in Seq(Nat) /\ Len(list) = n - lo
    <3>. HIDE DEF list
    <3>. QED
      BY <2>5
  <2>. QED
    BY <2>4, <2>6
<1>3. mp = [free_fp_list |-> list, storage |-> << >>]
  <2>1. mp = [free_fp_list |-> SubSeq(all, lo + 1, Len(all)), storage |-> << >>]
    <3>1. init_memphy(n) = [free_fp_list |-> all, storage |-> << >>]
      BY DEF init_memphy, MEMPHY_format
    <3>. HIDE DEF all
    <3>2. init_memphy(n).free_fp_list = all /\ init_memphy(n).storage = << >>
      BY <3>1
    <3>3. init_memphy(n) = [free_fp_list |-> init_memphy(n).free_fp_list,
                            storage |-> init_memphy(n).storage]
      BY <3>1, <3>2
    <3>. QED
      BY <3>2, <3>3, TakenFrames
  <2>. HIDE DEF all, mp
  <2>. QED
    BY <1>1, <2>1
<1>. HIDE DEF list, mp
<1>4. IsDevice(mp, lo, n)
  <2>1. DOMAIN mp.storage = {}
    BY <1>3
  <2>2. mp.storage \in [DOMAIN mp.storage -> Bytes]
    <3>1. mp.storage = [a \in {} |-> 0]
      BY <1>3
    <3>. QED
      BY <3>1
  <2>. QED
    BY <1>2, <1>3, <2>1, <2>2 DEF IsDevice
<1>5. Owned(list, {}, at, lo, n)
  <2>1. list \in Seq(lo .. n - 1)
    <3>1. \A k \in 1 .. Len(list) : list[k] \in lo .. n - 1
      BY <1>2
    <3>. QED
      BY <1>2, <3>1
  <2>2. \A f \in lo .. n - 1 : \E k \in 1 .. Len(list) : list[k] = f
    <3>. SUFFICES ASSUME NEW f \in lo .. n - 1 PROVE \E k \in 1 .. Len(list) : list[k] = f
      OBVIOUS
    <3>1. f - lo + 1 \in 1 .. Len(list) /\ list[f - lo + 1] = f
      BY <1>2
    <3>. QED
      BY <3>1
  <2>3. \A j, k \in 1 .. Len(list) : list[j] = list[k] => j = k
    BY <1>2
  <2>4. Cardinality({}) = 0
    BY FS_EmptySet
  <2>5. Len(list) + Cardinality({}) + lo = n
    BY <1>2, <2>4
  <2>. QED
    BY <2>1, <2>2, <2>3, <2>5 DEF Owned
<1>. QED
  BY <1>3, <1>4, <1>5 DEF mp

-----------------------------------------------------------------------------
(* The list of victims                                                       *)

(* enlist_pgn_node puts a page at the head of the list.                      *)
LEMMA Enlisted ==
  ASSUME NEW list \in Seq(Pages), Distinct(list), NEW p \in Pages,
         \A i \in 1 .. Len(list) : list[i] # p
  PROVE  LET more == <<p>> \o list
         IN  /\ more \in Seq(Pages) /\ Distinct(more)
             /\ \A i \in 1 .. Len(more) : more[i] = p \/ \E j \in 1 .. Len(list) : more[i] = list[j]
<1> DEFINE more == <<p>> \o list
<1>1. /\ more \in Seq(Pages) /\ Len(more) = Len(list) + 1
      /\ more[1] = p /\ \A i \in 2 .. Len(more) : more[i] = list[i - 1]
  OBVIOUS
<1>2. Len(list) \in Nat
  OBVIOUS
<1>. HIDE DEF more
<1>3. \A i \in 1 .. Len(more) : i = 1 \/ (i \in 2 .. Len(more) /\ i - 1 \in 1 .. Len(list))
  BY <1>1, <1>2
<1>4. Distinct(more)
  <2>. SUFFICES ASSUME NEW i \in 1 .. Len(more), NEW j \in 1 .. Len(more), i # j
                PROVE  more[i] # more[j]
    BY DEF Distinct
  <2>1. CASE i = 1
    BY <1>1, <1>3, <2>1
  <2>2. CASE j = 1
    BY <1>1, <1>3, <2>2
  <2>3. CASE i # 1 /\ j # 1
    <3>1. /\ i - 1 \in 1 .. Len(list) /\ j - 1 \in 1 .. Len(list) /\ i - 1 # j - 1
          /\ more[i] = list[i - 1] /\ more[j] = list[j - 1]
      BY <1>1, <1>3, <2>3
    <3>. QED
      BY <3>1 DEF Distinct
  <2>. QED
    BY <2>1, <2>2, <2>3
<1>5. \A i \in 1 .. Len(more) : more[i] = p \/ \E j \in 1 .. Len(list) : more[i] = list[j]
  BY <1>1, <1>3
<1>. QED
  BY <1>1, <1>4, <1>5 DEF more

(* find_victim_page takes the last page off the list.                        *)
LEMMA VictimTaken ==
  ASSUME NEW list \in Seq(Pages), Distinct(list), Len(list) > 1
  PROVE  /\ Last(list) \in Pages /\ \E i \in 1 .. Len(list) : list[i] = Last(list)
         /\ Front(list) \in Seq(Pages) /\ Distinct(Front(list))
         /\ \A i \in 1 .. Len(Front(list)) :
              /\ i \in 1 .. Len(list) /\ Front(list)[i] = list[i]
              /\ Front(list)[i] # Last(list)
<1> DEFINE rest == Front(list)
           n == Len(list)
<1>1. n \in Nat /\ n \in 1 .. Len(list) /\ list[n] \in Pages /\ Last(list) = list[n]
  BY DEF Last
<1>2. /\ rest \in Seq(Pages) /\ Len(rest) = n - 1
      /\ \A i \in 1 .. n - 1 : rest[i] = list[i]
  BY <1>1 DEF Front
<1>. HIDE DEF rest
<1>3. \A i \in 1 .. Len(rest) : i \in 1 .. Len(list) /\ i # n /\ rest[i] = list[i]
  BY <1>1, <1>2
<1>4. \A i \in 1 .. Len(rest) : rest[i] # list[n]
  BY <1>1, <1>3 DEF Distinct
<1>5. Distinct(rest)
  BY <1>3 DEF Distinct
<1>6. \E i \in 1 .. Len(list) : list[i] = Last(list)
  BY <1>1
<1>. QED
  BY <1>1, <1>2, <1>3, <1>4, <1>5, <1>6 DEF rest

-----------------------------------------------------------------------------
(* What the steps do, whatever the sizes                                     *)

(* Initially the frames that no other process holds are all free.            *)
LEMMA InitIInv == Init => IInv
<1>. SUFFICES ASSUME Init PROVE IInv
  OBVIOUS
<1>1. \A p \in Pages : ~IsResident(pgd[p]) /\ ~IsSwapped(pgd[p])
  BY DEF Init, IsResident, IsSwapped, PAGE_PRESENT, PRESENT
<1>2. RamInUse = {} /\ SwpInUse = {}
  BY <1>1 DEF RamInUse, SwpInUse
<1>3. /\ config.ram \in Nat /\ config.ramTaken \in 0 .. config.ram
      /\ config.swp \in Nat /\ config.swpTaken \in 0 .. config.swp
  BY ConfigsAssumption DEF Init
<1>4. IsDevice(mram, config.ramTaken, config.ram) /\ RamOwned
  BY <1>2, <1>3, FreshDevice DEF Init, RamOwned
<1>5. IsDevice(mswp, config.swpTaken, config.swp) /\ SwpOwned
  BY <1>2, <1>3, FreshDevice DEF Init, SwpOwned
<1>6. IsDevice(mram, 0, config.ram)
  <2>1. config.ramTaken * PAGING_PAGESZ \in Nat /\ 0 * PAGING_PAGESZ = 0
    BY <1>3, PageSizeAssumption
  <2>2. config.ramTaken * PAGING_PAGESZ .. config.ram * PAGING_PAGESZ - 1
          \subseteq 0 * PAGING_PAGESZ .. config.ram * PAGING_PAGESZ - 1
    BY <2>1
  <2>. QED
    BY <1>4, <2>2 DEF IsDevice
<1>7. fifo_pgn \in Seq(Pages) /\ Len(fifo_pgn) = 0
  BY DEF Init
<1>8. Distinct(fifo_pgn) /\ Resident(fifo_pgn)
  BY <1>7 DEF Distinct, Resident
<1>9. SwpListed
  BY <1>5 DEF SwpOwned, Owned, SwpListed
<1>10. Typed
  BY <1>5, <1>6, <1>7 DEF Init, Typed
<1>. QED
  BY <1>4, <1>5, <1>8, <1>9, <1>10 DEF Init, IInv, TInv, NoRamFrameLeaks

(* The pages on the list are in RAM: a page that is not present is not on it.*)
LEMMA OffTheList ==
  ASSUME TInv, state = "alive", NEW p \in Pages, ~PAGE_PRESENT(pgd[p])
  PROVE  \A i \in 1 .. Len(fifo_pgn) : fifo_pgn[i] # p
BY DEF TInv, Resident, IsResident

(* alloc_pages_range: the page had no frame and gets the first free one.     *)
LEMMA MapEntry ==
  ASSUME Typed, NEW p \in Pages, MapPage(p)
  PROVE  LET fpn == Head(mram.free_fp_list)
         IN  /\ mram.free_fp_list # << >> /\ fpn \in Nat
             /\ ~IsResident(pgd[p]) /\ ~IsSwapped(pgd[p])
             /\ pgd' \in [Pages -> SUBSET (0 .. 31)] /\ IsResident(pgd'[p])
             /\ fpn < MaxRam => Fpn(pgd'[p]) = fpn
             /\ \A q \in Pages \ {p} : pgd'[q] = pgd[q]
             /\ IsDevice(mram', 0, config.ram)
             /\ mram'.free_fp_list = Tail(mram.free_fp_list)
             /\ mram'.storage = mram.storage
<1> DEFINE fpn == Head(mram.free_fp_list)
<1>1. mram.free_fp_list # << >> /\ fpn \in Nat
  <2>1. mram.free_fp_list \in Seq(Nat)
    BY DEF Typed, IsDevice
  <2>2. mram.free_fp_list # << >>
    BY DEF MapPage, HasFreefp
  <2>. QED
    BY <2>1, <2>2, HeadTailProperties
<1>. HIDE DEF fpn
<1>2. pgd' = [pgd EXCEPT ![p] = pte_set_fpn(pgd[p], Bits(fpn))]
  BY DEF MapPage, FirstFreefp, fpn
<1>3. LET e == pte_set_fpn(pgd[p], Bits(fpn))
      IN  /\ IsResident(e)
          /\ pgd[p] \subseteq 0 .. 31 => e \subseteq 0 .. 31
          /\ fpn < MaxRam => Fpn(e) = fpn
  BY <1>1, ResidentEntry
<1>4. pgd \in [Pages -> SUBSET (0 .. 31)]
  BY DEF Typed
<1>5. /\ pgd'[p] = pte_set_fpn(pgd[p], Bits(fpn)) /\ pgd' \in [Pages -> SUBSET (0 .. 31)]
      /\ \A q \in Pages \ {p} : pgd'[q] = pgd[q]
  BY <1>2, <1>3, <1>4
<1>6. ~IsResident(pgd[p]) /\ ~IsSwapped(pgd[p])
  BY DEF MapPage, IsResident, IsSwapped
<1>7. /\ IsDevice(mram', 0, config.ram)
      /\ mram'.free_fp_list = Tail(mram.free_fp_list) /\ mram'.storage = mram.storage
  BY <1>1, GetFreefp DEF Typed, MapPage
<1>. QED
  BY <1>1, <1>3, <1>5, <1>6, <1>7 DEF fpn

(* Mapping a page lets it join the list.                                     *)
LEMMA MapTyped ==
  ASSUME TInv, state = "alive", NEW p \in Pages, MapPage(p)
  PROVE  TInv'
<1>1. /\ fifo_pgn' = <<p>> \o fifo_pgn /\ UNCHANGED <<mswp, config, state>>
      /\ ~PAGE_PRESENT(pgd[p])
  BY DEF MapPage
<1>2. fifo_pgn \in Seq(Pages) /\ Typed /\ Distinct(fifo_pgn) /\ Resident(fifo_pgn) /\ SwpListed
  BY DEF TInv, Typed
<1>3. \A i \in 1 .. Len(fifo_pgn) : fifo_pgn[i] # p
  BY <1>1, OffTheList
<1>4. /\ fifo_pgn' \in Seq(Pages) /\ Distinct(fifo_pgn')
      /\ \A i \in 1 .. Len(fifo_pgn') :
           fifo_pgn'[i] = p \/ \E j \in 1 .. Len(fifo_pgn) : fifo_pgn'[i] = fifo_pgn[j]
  BY <1>1, <1>2, <1>3, Enlisted
<1>5. \A j \in 1 .. Len(fifo_pgn) : pgd'[fifo_pgn[j]] = pgd[fifo_pgn[j]]
  <2>1. \A q \in Pages \ {p} : pgd'[q] = pgd[q]
    BY <1>2, MapEntry
  <2>2. \A j \in 1 .. Len(fifo_pgn) : fifo_pgn[j] \in Pages
    BY <1>2
  <2>. QED
    BY <1>3, <2>1, <2>2
<1>6. IsResident(pgd'[p]) /\ pgd' \in [Pages -> SUBSET (0 .. 31)] /\ IsDevice(mram', 0, config.ram)
  BY <1>2, MapEntry
<1>7. Resident(fifo_pgn)'
  BY <1>2, <1>4, <1>5, <1>6 DEF Resident
<1>8. Typed'
  BY <1>1, <1>2, <1>4, <1>6 DEF Typed
<1>9. SwpListed' /\ Distinct(fifo_pgn)'
  BY <1>1, <1>2, <1>4 DEF SwpListed, Distinct
<1>. QED
  BY <1>7, <1>8, <1>9 DEF TInv

(* pg_getpage: the victim's entry is set to the first free frame of swap, the*)
(* page's to the victim's frame.                                             *)
LEMMA ReplaceEntries ==
  ASSUME TInv, state = "alive", NEW p \in Pages, Replace(p)
  PROVE  LET v == Last(fifo_pgn)
             swpfpn == Head(mswp.free_fp_list)
         IN  /\ v \in RamInUse /\ p \notin RamInUse /\ p \notin SwpInUse /\ v # p
             /\ mswp.free_fp_list # << >> /\ swpfpn \in config.swpTaken .. config.swp - 1
             /\ pgd' \in [Pages -> SUBSET (0 .. 31)]
             /\ IsSwapped(pgd'[v]) /\ (swpfpn < MaxSwp => Swpoff(pgd'[v]) = swpfpn)
             /\ IsResident(pgd'[p]) /\ (Fpn(pgd[v]) < MaxRam => Fpn(pgd'[p]) = Fpn(pgd[v]))
             /\ \A q \in Pages \ {v, p} : pgd'[q] = pgd[q]
<1> DEFINE v == Last(fifo_pgn)
           swpfpn == Head(mswp.free_fp_list)
           vicfpn == Fpn(pgd[v])
           out == pte_set_swap(pgd[v], {}, Bits(swpfpn))
           in == pte_set_fpn(pgd[p], Bits(vicfpn))
<1>1. /\ fifo_pgn \in Seq(Pages) /\ Typed /\ Distinct(fifo_pgn) /\ Resident(fifo_pgn)
      /\ SwpListed /\ Len(fifo_pgn) > 1 /\ ~PAGE_PRESENT(pgd[p])
      /\ mswp.free_fp_list # << >>
  BY DEF TInv, Typed, Replace, HasFreefp
<1>2. v \in RamInUse
  <2>1. v \in Pages /\ \E i \in 1 .. Len(fifo_pgn) : fifo_pgn[i] = v
    BY <1>1, VictimTaken
  <2>. HIDE DEF v
  <2>. QED
    BY <1>1, <2>1 DEF Resident, RamInUse
<1>3. p \notin RamInUse /\ p \notin SwpInUse
  BY <1>1 DEF RamInUse, SwpInUse, IsResident, IsSwapped
<1>4. swpfpn \in config.swpTaken .. config.swp - 1
  BY <1>1, HeadTailProperties DEF SwpListed
<1>5. pgd' = [pgd EXCEPT ![v] = out, ![p] = in]
  <2>1. pgd' = [pgd EXCEPT ![v] = pte_set_swap(@, {}, Bits(swpfpn)),
                           ![p] = pte_set_fpn(@, Bits(vicfpn))]
    BY DEF Replace, FirstFreefp
  <2>2. v # p
    BY <1>2, <1>3
  <2>. HIDE DEF v, swpfpn, vicfpn
  <2>. QED
    BY <2>1, <2>2
<1>. HIDE DEF v, vicfpn, swpfpn
<1>6. vicfpn \in Nat /\ swpfpn \in Nat
  BY <1>1, <1>4, Numbers, NumberIsNat DEF vicfpn, Fpn
<1>7. /\ IsSwapped(out) /\ (swpfpn < MaxSwp => Swpoff(out) = swpfpn)
      /\ pgd[v] \subseteq 0 .. 31 => out \subseteq 0 .. 31
  BY <1>6, SwapEntry
<1>8. /\ IsResident(in) /\ (vicfpn < MaxRam => Fpn(in) = vicfpn)
      /\ pgd[p] \subseteq 0 .. 31 => in \subseteq 0 .. 31
  BY <1>6, ResidentEntry
<1>. HIDE DEF out, in
<1>9. pgd \in [Pages -> SUBSET (0 .. 31)] /\ v \in Pages /\ v # p
  BY <1>1, <1>2, <1>3 DEF Typed, RamInUse
<1>10. /\ pgd'[v] = out /\ pgd'[p] = in /\ pgd' \in [Pages -> SUBSET (0 .. 31)]
       /\ \A q \in Pages \ {v, p} : pgd'[q] = pgd[q]
  BY <1>5, <1>7, <1>8, <1>9
<1>. QED
  BY <1>1, <1>2, <1>3, <1>4, <1>7, <1>8, <1>9, <1>10 DEF swpfpn, vicfpn, v

(* The victim's content goes to the frame of swap.                           *)
LEMMA ReplaceDevices ==
  ASSUME TInv, state = "alive", NEW p \in Pages, Replace(p)
  PROVE  LET vicfpn == Fpn(pgd[Last(fifo_pgn)])
             swpfpn == Head(mswp.free_fp_list)
         IN  /\ IsDevice(mswp', config.swpTaken, config.swp)
             /\ mswp'.free_fp_list = Tail(mswp.free_fp_list)
             /\ \A f \in Nat \ {swpfpn} : PageAt(mswp', f) = PageAt(mswp, f)
             /\ PageAt(mswp', swpfpn) = PageAt(mram, vicfpn)
<1> DEFINE vicfpn == Fpn(pgd[Last(fifo_pgn)])
           swpfpn == Head(mswp.free_fp_list)
           got == MEMPHY_get_freefp(mswp)
           lo == config.swpTaken
           n  == config.swp
<1>1. Typed
  BY DEF TInv
<1>2. mswp.free_fp_list # << >> /\ swpfpn \in lo .. n - 1
  BY ReplaceEntries
<1>3. mswp' = __swap_cp_page(mram, vicfpn, got, swpfpn)
  BY DEF Replace, FirstFreefp
<1>4. lo \in Nat /\ n \in Nat /\ IsDevice(mswp, lo, n)
  BY <1>1, Numbers DEF Typed
<1>5. PageAt(mram, vicfpn) \in [Cells -> Bytes]
  BY <1>1, PageOfBytes DEF Typed
<1>. HIDE DEF vicfpn, swpfpn, lo, n
<1>6. /\ IsDevice(got, lo, n) /\ got.free_fp_list = Tail(mswp.free_fp_list)
      /\ \A f : PageAt(got, f) = PageAt(mswp, f)
  BY <1>2, <1>4, GetFreefp, SamePages
<1>. HIDE DEF got
<1>7. /\ IsDevice(mswp', lo, n) /\ mswp'.free_fp_list = got.free_fp_list
      /\ PageAt(mswp', swpfpn) = PageAt(mram, vicfpn)
      /\ \A f \in Nat \ {swpfpn} : PageAt(mswp', f) = PageAt(got, f)
  BY <1>2, <1>3, <1>4, <1>5, <1>6, CopyPage
<1>. QED
  BY <1>6, <1>7 DEF lo, n, vicfpn, swpfpn

(* pg_getpage keeps what the list and the swap device are, whether it has    *)
(* success or not.                                                           *)
LEMMA GetpageTyped ==
  ASSUME TInv, state = "alive", NEW p \in Pages, config' = config,
         pg_getpage(p) \/ NoPage(p)
  PROVE  /\ pgd' \in [Pages -> SUBSET (0 .. 31)] /\ fifo_pgn' \in Seq(Pages)
         /\ IsDevice(mswp', config'.swpTaken, config'.swp)
         /\ SwpListed' /\ Distinct(fifo_pgn') /\ Resident(fifo_pgn)'
<1>1. /\ fifo_pgn \in Seq(Pages) /\ Typed /\ Distinct(fifo_pgn) /\ Resident(fifo_pgn) /\ SwpListed
      /\ pgd \in [Pages -> SUBSET (0 .. 31)] /\ IsDevice(mswp, config.swpTaken, config.swp)
  BY DEF TInv, Typed
<1>2. ASSUME UNCHANGED <<pgd, fifo_pgn, mswp>>
      PROVE  /\ pgd' \in [Pages -> SUBSET (0 .. 31)] /\ fifo_pgn' \in Seq(Pages)
             /\ IsDevice(mswp', config'.swpTaken, config'.swp)
             /\ SwpListed' /\ Distinct(fifo_pgn') /\ Resident(fifo_pgn)'
  <2>1. SwpListed' /\ Resident(fifo_pgn)'
    BY <1>1, <1>2 DEF SwpListed, Resident
  <2>. QED
    BY <1>1, <1>2, <2>1
<1>3. ASSUME Len(fifo_pgn) > 1
      PROVE  /\ Front(fifo_pgn) \in Seq(Pages) /\ Distinct(Front(fifo_pgn))
             /\ \A i \in 1 .. Len(Front(fifo_pgn)) :
                  /\ i \in 1 .. Len(fifo_pgn) /\ Front(fifo_pgn)[i] = fifo_pgn[i]
                  /\ Front(fifo_pgn)[i] # Last(fifo_pgn)
  BY <1>1, <1>3, VictimTaken
<1>4. ASSUME UNCHANGED <<pgd, mswp>>, fifo_pgn' = Front(fifo_pgn), Len(fifo_pgn) > 1
      PROVE  /\ pgd' \in [Pages -> SUBSET (0 .. 31)] /\ fifo_pgn' \in Seq(Pages)
             /\ IsDevice(mswp', config'.swpTaken, config'.swp)
             /\ SwpListed' /\ Distinct(fifo_pgn') /\ Resident(fifo_pgn)'
  <2>1. SwpListed'
    BY <1>1, <1>4 DEF SwpListed
  <2>2. Resident(fifo_pgn)'
    BY <1>1, <1>3, <1>4 DEF Resident
  <2>3. fifo_pgn' \in Seq(Pages) /\ Distinct(fifo_pgn')
    BY <1>3, <1>4
  <2>. QED
    BY <1>1, <1>4, <2>1, <2>2, <2>3
<1>5. ASSUME Replace(p)
      PROVE  /\ pgd' \in [Pages -> SUBSET (0 .. 31)] /\ fifo_pgn' \in Seq(Pages)
             /\ IsDevice(mswp', config'.swpTaken, config'.swp)
             /\ SwpListed' /\ Distinct(fifo_pgn') /\ Resident(fifo_pgn)'
  <2> DEFINE v == Last(fifo_pgn)
             rest == Front(fifo_pgn)
  <2>1. Len(fifo_pgn) > 1 /\ ~PAGE_PRESENT(pgd[p]) /\ fifo_pgn' = <<p>> \o rest
    BY <1>5 DEF Replace
  <2>2. \A i \in 1 .. Len(fifo_pgn) : fifo_pgn[i] # p
    BY <2>1, OffTheList
  <2>3. /\ rest \in Seq(Pages) /\ Distinct(rest)
        /\ \A i \in 1 .. Len(rest) : i \in 1 .. Len(fifo_pgn) /\ rest[i] = fifo_pgn[i]
                                     /\ rest[i] # v
    BY <1>3, <2>1
  <2>4. /\ pgd' \in [Pages -> SUBSET (0 .. 31)] /\ IsResident(pgd'[p])
        /\ \A q \in Pages \ {v, p} : pgd'[q] = pgd[q]
    BY <1>5, ReplaceEntries
  <2>5. IsDevice(mswp', config'.swpTaken, config'.swp) /\ SwpListed'
    <3>1. /\ IsDevice(mswp', config.swpTaken, config.swp)
          /\ mswp'.free_fp_list = Tail(mswp.free_fp_list)
      BY <1>5, ReplaceDevices
    <3>2. mswp.free_fp_list # << >>
      BY <1>5, ReplaceEntries
    <3>3. Tail(mswp.free_fp_list) \in Seq(config.swpTaken .. config.swp - 1)
      BY <1>1, <3>2, HeadTailProperties DEF SwpListed
    <3>. QED
      BY <3>1, <3>3 DEF SwpListed
  <2>. HIDE DEF v, rest
  <2>6. \A i \in 1 .. Len(rest) : rest[i] # p
    BY <2>2, <2>3
  <2>7. /\ fifo_pgn' \in Seq(Pages) /\ Distinct(fifo_pgn')
        /\ \A i \in 1 .. Len(fifo_pgn') :
             fifo_pgn'[i] = p \/ \E j \in 1 .. Len(rest) : fifo_pgn'[i] = rest[j]
    BY <2>1, <2>3, <2>6, Enlisted
  <2>8. \A j \in 1 .. Len(rest) : IsResident(pgd'[rest[j]])
    <3>. SUFFICES ASSUME NEW j \in 1 .. Len(rest) PROVE IsResident(pgd'[rest[j]])
      OBVIOUS
    <3>1. rest[j] \in Pages /\ rest[j] # v /\ rest[j] # p
      BY <2>3, <2>6
    <3>2. IsResident(pgd[rest[j]])
      BY <1>1, <2>3 DEF Resident
    <3>. QED
      BY <2>4, <3>1, <3>2
  <2>9. Resident(fifo_pgn)'
    BY <2>4, <2>7, <2>8 DEF Resident
  <2>. QED
    BY <2>4, <2>5, <2>7, <2>9
<1>. QED
  BY <1>2, <1>4, <1>5 DEF pg_getpage, Online, NoPage

(* MEMPHY_write, by an address that is checked against nothing.              *)
LEMMA StoreTyped ==
  ASSUME Typed, config' = config, state = "alive", NEW p \in Pages, NEW cell \in Cells,
         NEW fpn \in Nat, Store(fpn * PAGING_PAGESZ + cell, p + 1)
  PROVE  /\ IsDevice(mram', 0, config'.ram) /\ state' \in {"alive", "crashed"}
         /\ mram'.free_fp_list = mram.free_fp_list
         /\ \A a : a # fpn * PAGING_PAGESZ + cell => MEMPHY_read(mram', a) = MEMPHY_read(mram, a)
<1> DEFINE addr == fpn * PAGING_PAGESZ + cell
<1>1. /\ IsDevice(mram, 0, config.ram) /\ config.ram \in Nat /\ p + 1 \in Bytes
  <2>1. p + 1 \in Bytes
    BY NumPagesAssumption DEF Pages, Bytes
  <2>2. config.ram \in Nat
    BY Numbers
  <2>. QED
    BY <2>1, <2>2 DEF Typed
<1>2. addr \in Nat
  BY PageSizeAssumption DEF Cells
<1>. HIDE DEF addr
<1>3. CASE InRam(addr) /\ mram' = MEMPHY_write(mram, addr, p + 1) /\ UNCHANGED state
  <2> DEFINE n == config.ram
  <2>1. addr < n * PAGING_PAGESZ /\ n * PAGING_PAGESZ \in Nat
    BY <1>1, <1>3, PageSizeAssumption DEF InRam
  <2>2. n \in Nat /\ IsDevice(mram, 0, n)
    BY <1>1
  <2>. HIDE DEF n
  <2>3. 0 * PAGING_PAGESZ = 0 /\ 0 \in Nat
    BY PageSizeAssumption
  <2>4. addr \in 0 * PAGING_PAGESZ .. n * PAGING_PAGESZ - 1
    BY <1>2, <2>1, <2>3
  <2>5. LET mp == MEMPHY_write(mram, addr, p + 1)
        IN  /\ IsDevice(mp, 0, n) /\ mp.free_fp_list = mram.free_fp_list
            /\ \A a : a # addr => MEMPHY_read(mp, a) = MEMPHY_read(mram, a)
    BY <1>1, <2>2, <2>3, <2>4, WriteByte
  <2>. QED
    BY <1>3, <2>5 DEF n, addr
<1>4. CASE state' \in {"alive", "crashed"} /\ UNCHANGED mram
  BY <1>1, <1>4 DEF addr
<1>. QED
  BY <1>3, <1>4 DEF Store, addr

(* pg_setval and pg_getval, whatever the entry of the page says.             *)
LEMMA AccessTyped ==
  ASSUME TInv, state = "alive", NEW p \in Pages, NEW cell \in Cells,
         pg_setval(p, cell) \/ pg_getval(p, cell)
  PROVE  /\ TInv' /\ config' = config /\ state' # "freed"
         /\ mram'.free_fp_list = mram.free_fp_list
<1>1. Typed /\ IsDevice(mram, 0, config.ram) /\ config' = config
  BY DEF TInv, Typed, pg_setval, pg_getval
<1>2. pg_getpage(p) \/ NoPage(p)
  BY DEF pg_setval, pg_getval
<1>3. Fpn(pgd'[p]) \in Nat
  BY NumberIsNat DEF Fpn
<1>4. /\ IsDevice(mram', 0, config'.ram) /\ mram'.free_fp_list = mram.free_fp_list
      /\ state' \in {"alive", "crashed"}
  <2>1. CASE Store(Fpn(pgd'[p]) * PAGING_PAGESZ + cell, p + 1)
    BY <1>1, <1>3, <2>1, StoreTyped
  <2>2. CASE Load(Fpn(pgd'[p]) * PAGING_PAGESZ + cell)
    BY <1>1, <2>2 DEF Load
  <2>3. CASE NoPage(p) /\ UNCHANGED mram
    BY <1>1, <2>3 DEF NoPage
  <2>. QED
    BY <2>1, <2>2, <2>3 DEF pg_setval, pg_getval
<1>5. /\ pgd' \in [Pages -> SUBSET (0 .. 31)] /\ fifo_pgn' \in Seq(Pages)
      /\ IsDevice(mswp', config'.swpTaken, config'.swp)
      /\ SwpListed' /\ Distinct(fifo_pgn') /\ Resident(fifo_pgn)'
  BY <1>1, <1>2, GetpageTyped
<1>6. Typed'
  BY <1>1, <1>4, <1>5 DEF Typed
<1>7. TInv'
  BY <1>5, <1>6 DEF TInv
<1>. QED
  BY <1>1, <1>4, <1>7

(* What free_pcb_memph leaves on the devices: no byte has changed, the list  *)
(* of RAM has what it had before and the frame of each page in RAM.          *)
LEMMA FreedFrames ==
  ASSUME Typed
  PROVE  /\ IsDevice(FreedFrom(0).ram, 0, config.ram)
         /\ IsDevice(FreedFrom(0).swp, config.swpTaken, config.swp)
         /\ FreedFrom(0).ram.storage = mram.storage
         /\ FreedFrom(0).swp.storage = mswp.storage
         /\ Range(mram.free_fp_list) \cup {Fpn(pgd[p]) : p \in RamInUse}
              \subseteq Range(FreedFrom(0).ram.free_fp_list)
<1> DEFINE Ram == {mp \in [free_fp_list : Seq(Nat), storage : {mram.storage}] :
                     IsDevice(mp, 0, config.ram)}
           Swp == {mp \in [free_fp_list : Seq(Nat), storage : {mswp.storage}] :
                     IsDevice(mp, config.swpTaken, config.swp)}
           S == [ram : Ram, swp : Swp]
           start == [ram |-> mram, swp |-> mswp]
           Is(f) == f = [k \in 0 .. NumPages |->
                           IF k = 0 THEN start ELSE PutFrame(f[k - 1], k - 1)]
           mps == CHOOSE f : Is(f)
           next == [k \in 1 .. NumPages |-> [x \in S |-> PutFrame(x, k - 1)]]
<1>1. start \in S
  BY DEF Typed, IsDevice
<1>2. ASSUME NEW x \in S, NEW p
      PROVE  /\ PutFrame(x, p) \in S
             /\ Range(x.ram.free_fp_list) \subseteq Range(PutFrame(x, p).ram.free_fp_list)
             /\ IsResident(pgd[p]) => Fpn(pgd[p]) \in Range(PutFrame(x, p).ram.free_fp_list)
  <2>1. Fpn(pgd[p]) \in Nat /\ Swpoff(pgd[p]) \in Nat
    BY NumberIsNat DEF Fpn, Swpoff
  <2>2. /\ x = [ram |-> x.ram, swp |-> x.swp] /\ x.ram \in Ram /\ x.swp \in Swp
    OBVIOUS
  <2> DEFINE ram == MEMPHY_put_freefp(x.ram, Fpn(pgd[p]))
             swp == MEMPHY_put_freefp(x.swp, Swpoff(pgd[p]))
  <2>3. /\ IsDevice(ram, 0, config.ram)
        /\ ram.free_fp_list = <<Fpn(pgd[p])>> \o x.ram.free_fp_list
        /\ ram.storage = mram.storage
    BY <2>1, <2>2, PutFreefp
  <2>4. /\ IsDevice(swp, config.swpTaken, config.swp)
        /\ swp.storage = mswp.storage
    BY <2>1, <2>2, PutFreefp
  <2>. HIDE DEF ram, swp
  <2>5. ram \in Ram /\ swp \in Swp
    <3>1. /\ ram = [free_fp_list |-> ram.free_fp_list, storage |-> mram.storage]
          /\ ram.free_fp_list \in Seq(Nat)
      BY <2>3 DEF IsDevice
    <3>2. /\ swp = [free_fp_list |-> swp.free_fp_list, storage |-> mswp.storage]
          /\ swp.free_fp_list \in Seq(Nat)
      BY <2>4 DEF IsDevice
    <3>. QED
      BY <2>3, <2>4, <3>1, <3>2
  <2>6. x.ram.free_fp_list \in Seq(Nat)
    BY <2>2
  <2>7. /\ Range(x.ram.free_fp_list) \subseteq Range(ram.free_fp_list)
        /\ Fpn(pgd[p]) \in Range(ram.free_fp_list)
    <3> DEFINE l == x.ram.free_fp_list
               m == <<Fpn(pgd[p])>> \o l
    <3>1. /\ Len(l) \in Nat /\ DOMAIN l = 1 .. Len(l)
          /\ DOMAIN m = 1 .. Len(l) + 1 /\ m[1] = Fpn(pgd[p])
          /\ \A i \in 1 .. Len(l) : m[i + 1] = l[i]
      BY <2>1, <2>6
    <3>2. ram.free_fp_list = m
      BY <2>3
    <3>. HIDE DEF l, m
    <3>3. 1 \in DOMAIN m /\ \A i \in DOMAIN l : i + 1 \in DOMAIN m
      BY <3>1
    <3>. QED
      BY <3>1, <3>2, <3>3 DEF Range, l
  <2>. HIDE DEF Ram, Swp
  <2>8. CASE PAGE_PRESENT(pgd[p])
    <3>1. PutFrame(x, p) = [ram |-> ram, swp |-> x.swp]
      BY <2>2, <2>8 DEF PutFrame, ram
    <3>. QED
      BY <2>2, <2>5, <2>7, <3>1
  <2>9. CASE ~PAGE_PRESENT(pgd[p])
    <3>1. PutFrame(x, p) = [ram |-> x.ram, swp |-> swp]
      BY <2>2, <2>9 DEF PutFrame, swp
    <3>. QED
      BY <2>2, <2>5, <2>9, <3>1 DEF IsResident
  <2>. QED
    BY <2>8, <2>9
<1>. HIDE DEF S, start
<1>3. Is(mps)
  <2>1. next \in [1 .. NumPages -> [S -> S]]
    BY <1>2
  <2>2. Defines(NumPages, S)
    BY NumPagesAssumption, Recursion
  <2>3. PICK f \in [0 .. NumPages -> S] :
          f[0] = start /\ \A k \in 1 .. NumPages : f[k] = next[k][f[k - 1]]
    <3>. HIDE DEF next
    <3>. QED
      BY <1>1, <2>1, <2>2 DEF Defines
  <2>4. ASSUME NEW k \in 1 .. NumPages PROVE f[k] = PutFrame(f[k - 1], k - 1)
    <3>1. k - 1 \in 0 .. NumPages /\ f[k - 1] \in S
      BY NumPagesAssumption
    <3>. QED
      BY <2>3, <3>1
  <2>5. \A k \in 0 .. NumPages : f[k] = IF k = 0 THEN start ELSE PutFrame(f[k - 1], k - 1)
    BY <2>3, <2>4, NumPagesAssumption
  <2>6. Is(f)
    BY <2>5
  <2>. HIDE DEF Is
  <2>. QED
    BY <2>6
<1>4. FreedFrom(0) = mps[NumPages]
  BY DEF FreedFrom, start
<1>. HIDE DEF mps
<1>5. mps[0] = start /\ \A k \in 1 .. NumPages : mps[k] = PutFrame(mps[k - 1], k - 1)
  <2>1. 0 \in 0 .. NumPages /\ \A k \in 1 .. NumPages : k \in 0 .. NumPages /\ k # 0
    BY NumPagesAssumption
  <2>. QED
    BY <1>3, <2>1
<1> DEFINE Done(k) ==
             /\ mps[k] \in S
             /\ Range(mram.free_fp_list) \subseteq Range(mps[k].ram.free_fp_list)
             /\ \A p \in 0 .. k - 1 :
                  IsResident(pgd[p]) => Fpn(pgd[p]) \in Range(mps[k].ram.free_fp_list)
           P == {k \in 0 .. NumPages : Done(k)}
<1>6. 0 \in P
  <2>1. mps[0].ram = mram
    BY <1>5 DEF start
  <2>. QED
    BY <1>1, <1>5, <2>1, NumPagesAssumption
<1>7. ASSUME NEW k \in 0 + 1 .. NumPages, k - 1 \in P PROVE k \in P
  <2>1. k \in 1 .. NumPages /\ k \in 0 .. NumPages
    BY NumPagesAssumption
  <2>2. Done(k - 1) /\ mps[k] = PutFrame(mps[k - 1], k - 1)
    BY <1>5, <1>7, <2>1
  <2>3. \A p \in 0 .. k - 1 : p = k - 1 \/ p \in 0 .. (k - 1) - 1
    OBVIOUS
  <2>4. Done(k)
    BY <1>2, <2>2, <2>3
  <2>. QED
    BY <2>1, <2>4
<1>8. Done(NumPages)
  <2>. HIDE DEF Done
  <2>1. 0 .. NumPages \subseteq P
    <3>1. NumPages \in Int /\ 0 \in Int
      BY NumPagesAssumption
    <3>. HIDE DEF P
    <3>. QED
      BY <1>6, <1>7, <3>1, Upwards
  <2>2. NumPages \in 0 .. NumPages
    BY NumPagesAssumption
  <2>. QED
    BY <2>1, <2>2
<1>9. FreedFrom(0) \in S
  BY <1>4, <1>8
<1>10. Range(mram.free_fp_list) \cup {Fpn(pgd[p]) : p \in RamInUse}
         \subseteq Range(FreedFrom(0).ram.free_fp_list)
  BY <1>4, <1>8 DEF RamInUse, Pages
<1>11. /\ IsDevice(FreedFrom(0).ram, 0, config.ram)
       /\ IsDevice(FreedFrom(0).swp, config.swpTaken, config.swp)
       /\ FreedFrom(0).ram.storage = mram.storage
       /\ FreedFrom(0).swp.storage = mswp.storage
  BY <1>9 DEF S
<1>. QED
  BY <1>10, <1>11

(* free_pcb_memph changes the lists of the devices only.                     *)
LEMMA FreeTyped ==
  ASSUME TInv, free_pcb_memph
  PROVE  TInv' /\ config' = config /\ state' = "freed"
<1>1. /\ mram' = FreedFrom(0).ram /\ mswp' = FreedFrom(0).swp /\ state' = "freed"
      /\ UNCHANGED <<pgd, fifo_pgn, config>>
  BY DEF free_pcb_memph
<1>2. Typed
  BY DEF TInv
<1>3. IsDevice(mram', 0, config.ram) /\ IsDevice(mswp', config.swpTaken, config.swp)
  BY <1>1, <1>2, FreedFrames
<1>4. Typed'
  BY <1>1, <1>2, <1>3 DEF Typed
<1>. QED
  BY <1>1, <1>4 DEF TInv

(* A step of the process is made while it lives.                             *)
LEMMA NextAlive ==
  ASSUME Next
  PROVE  /\ state = "alive"
         /\ \/ \E p \in Pages : MapPage(p)
            \/ \E p \in Pages, cell \in Cells : pg_setval(p, cell) \/ pg_getval(p, cell)
            \/ free_pcb_memph
BY DEF Next

(* TInv holds in every reachable state.                                      *)
LEMMA TInvariant == Spec => []TInv
<1>1. Init => TInv
  BY InitIInv DEF IInv
<1>2. TInv /\ [Next]_vars => TInv'
  <2>. SUFFICES ASSUME TInv, [Next]_vars PROVE TInv'
    OBVIOUS
  <2>1. ASSUME state = "alive", NEW p \in Pages, MapPage(p) PROVE TInv'
    BY <2>1, MapTyped
  <2>2. ASSUME state = "alive", NEW p \in Pages, NEW cell \in Cells,
               pg_setval(p, cell) \/ pg_getval(p, cell)
        PROVE  TInv'
    BY <2>2, AccessTyped
  <2>3. ASSUME free_pcb_memph PROVE TInv'
    BY <2>3, FreeTyped
  <2>4. ASSUME UNCHANGED vars PROVE TInv'
    BY <2>4 DEF vars, TInv, Typed, SwpListed, Distinct, Resident
  <2>. QED
    BY <2>1, <2>2, <2>3, <2>4, NextAlive
<1>. QED
  BY <1>1, <1>2, PTL DEF Spec

-----------------------------------------------------------------------------
(* What the steps do where the frame numbers fit                             *)

(* Mapping a page moves a frame of RAM from the list to its entry.           *)
LEMMA MapStep ==
  ASSUME FramesFit, IInv, state = "alive", NEW p \in Pages, MapPage(p)
  PROVE  RamOwned' /\ SwpOwned'
<1>1. TInv /\ Typed /\ RamOwned /\ SwpOwned
  BY DEF IInv, TInv
<1>2. UNCHANGED <<mswp, config>>
  BY DEF MapPage
<1>3. mram.free_fp_list # << >> /\ mram'.free_fp_list = Tail(mram.free_fp_list)
  BY <1>1, MapEntry
<1>4. Fpn(pgd'[p]) = Head(mram.free_fp_list)
  <2>1. Head(mram.free_fp_list) \in config.ramTaken .. config.ram - 1
    BY <1>1, <1>3, HeadTailProperties DEF RamOwned, Owned
  <2>2. Head(mram.free_fp_list) < MaxRam
    BY <1>1, <2>1, Fitting
  <2>. QED
    BY <1>1, <2>2, MapEntry
<1>5. /\ ~IsResident(pgd[p]) /\ ~IsSwapped(pgd[p]) /\ IsResident(pgd'[p])
      /\ \A q \in Pages \ {p} : pgd'[q] = pgd[q]
  BY <1>1, MapEntry
<1>6. RamInUse' = RamInUse \cup {p} /\ SwpInUse' = SwpInUse /\ p \in Pages \ RamInUse
      /\ p \notin SwpInUse
  BY <1>5, OneKind DEF RamInUse, SwpInUse
<1>7. /\ RamFrame'[p] = Head(mram.free_fp_list)
      /\ \A q \in RamInUse : RamFrame'[q] = RamFrame[q]
      /\ \A q \in SwpInUse : SwpFrame'[q] = SwpFrame[q]
  BY <1>4, <1>5, <1>6 DEF RamFrame, SwpFrame, RamInUse, SwpInUse
<1>8. config.ramTaken \in Nat /\ config.ram \in Nat
  BY <1>1, Numbers
<1>9. RamOwned'
  BY <1>1, <1>2, <1>3, <1>6, <1>7, <1>8, TakeFrame DEF RamOwned
<1>10. SwpOwned'
  BY <1>1, <1>2, <1>6, <1>7, SameOwners DEF SwpOwned
<1>. QED
  BY <1>9, <1>10

(* The numbers that pg_getpage stores into the two entries are read back.    *)
LEMMA ReplaceNumbers ==
  ASSUME FramesFit, IInv, state = "alive", NEW p \in Pages, Replace(p)
  PROVE  LET v == Last(fifo_pgn)
         IN  /\ Fpn(pgd[v]) \in config.ramTaken .. config.ram - 1
             /\ Fpn(pgd'[p]) = Fpn(pgd[v])
             /\ Swpoff(pgd'[v]) = Head(mswp.free_fp_list)
<1> DEFINE v == Last(fifo_pgn)
<1>1. TInv /\ Typed /\ RamOwned
  BY DEF IInv, TInv
<1>2. v \in RamInUse /\ Head(mswp.free_fp_list) \in config.swpTaken .. config.swp - 1
  BY <1>1, ReplaceEntries
<1>3. Fpn(pgd[v]) \in config.ramTaken .. config.ram - 1
  <2>. HIDE DEF v
  <2>. QED
    BY <1>1, <1>2 DEF RamOwned, Owned, RamFrame
<1>4. Fpn(pgd[v]) < MaxRam /\ Head(mswp.free_fp_list) < MaxSwp
  BY <1>1, <1>2, <1>3, Fitting
<1>. QED
  BY <1>1, <1>3, <1>4, ReplaceEntries

(* A replacement passes the victim's frame on and gives the victim a frame   *)
(* of swap.                                                                  *)
LEMMA ReplaceStep ==
  ASSUME FramesFit, IInv, state = "alive", NEW p \in Pages, Replace(p),
         config' = config, mram'.free_fp_list = mram.free_fp_list
  PROVE  RamOwned' /\ SwpOwned'
<1> DEFINE free == mswp.free_fp_list
           v == Last(fifo_pgn)
<1>1. TInv /\ Typed /\ RamOwned /\ SwpOwned
  BY DEF IInv, TInv
<1>2. /\ v \in RamInUse /\ p \notin RamInUse /\ p \notin SwpInUse /\ v # p /\ free # << >>
      /\ IsSwapped(pgd'[v]) /\ IsResident(pgd'[p])
      /\ \A q \in Pages \ {v, p} : pgd'[q] = pgd[q]
  BY <1>1, ReplaceEntries
<1>3. Fpn(pgd'[p]) = Fpn(pgd[v]) /\ Swpoff(pgd'[v]) = Head(free)
  BY ReplaceNumbers
<1>4. mswp'.free_fp_list = Tail(free)
  BY <1>1, ReplaceDevices
<1>. HIDE DEF v, free
<1>5. v \in Pages /\ v \notin SwpInUse /\ v \in Pages \ SwpInUse /\ p \in Pages \ RamInUse
  BY <1>2, OneKind DEF RamInUse, SwpInUse
<1>6. RamInUse' = (RamInUse \ {v}) \cup {p} /\ SwpInUse' = SwpInUse \cup {v}
  BY <1>2, <1>5, OneKind DEF RamInUse, SwpInUse
<1>7. RamFrame'[p] = RamFrame[v] /\ \A q \in RamInUse \ {v} : RamFrame'[q] = RamFrame[q]
  BY <1>2, <1>3, <1>5 DEF RamFrame, RamInUse
<1>8. SwpFrame'[v] = Head(free) /\ \A q \in SwpInUse : SwpFrame'[q] = SwpFrame[q]
  BY <1>2, <1>3, <1>5 DEF SwpFrame, SwpInUse
<1>9. /\ config.ramTaken \in Nat /\ config.ram \in Nat
      /\ config.swpTaken \in Nat /\ config.swp \in Nat
  BY <1>1, Numbers
<1>10. RamOwned'
  BY <1>1, <1>2, <1>5, <1>6, <1>7, <1>9, PassFrame DEF RamOwned
<1>11. SwpOwned'
  <2>1. Owned(free, SwpInUse, SwpFrame, config.swpTaken, config.swp)
    BY <1>1 DEF SwpOwned, free
  <2>2. Owned(Tail(free), SwpInUse \cup {v}, SwpFrame', config.swpTaken, config.swp)
    BY <1>2, <1>5, <1>8, <1>9, <2>1, TakeFrame
  <2>. QED
    BY <1>4, <1>6, <2>2 DEF SwpOwned
<1>. QED
  BY <1>10, <1>11

(* An access keeps the owners: it changes no list of frames of RAM, and no   *)
(* entry where it does not replace a page.                                   *)
LEMMA AccessStep ==
  ASSUME FramesFit, IInv, state = "alive", NEW p \in Pages, NEW cell \in Cells,
         pg_setval(p, cell) \/ pg_getval(p, cell)
  PROVE  RamOwned' /\ SwpOwned'
<1>1. TInv /\ RamOwned /\ SwpOwned
  BY DEF IInv
<1>2. config' = config /\ mram'.free_fp_list = mram.free_fp_list
  BY <1>1, AccessTyped
<1>3. CASE Replace(p)
  BY <1>2, <1>3, ReplaceStep
<1>4. CASE UNCHANGED <<pgd, mswp>>
  BY <1>1, <1>2, <1>4 DEF RamOwned, SwpOwned, RamInUse, SwpInUse, RamFrame, SwpFrame
<1>. QED
  BY <1>3, <1>4 DEF pg_setval, pg_getval, pg_getpage, Online, NoPage

(* free_pcb_memph puts back every frame of RAM that is in an entry.          *)
LEMMA FreeStep ==
  ASSUME IInv, state = "alive", free_pcb_memph
  PROVE  NoRamFrameLeaks'
<1>1. Typed /\ RamOwned
  BY DEF IInv, TInv
<1>2. mram' = FreedFrom(0).ram /\ UNCHANGED <<pgd, config>>
  BY DEF free_pcb_memph
<1>. SUFFICES ASSUME NEW f \in 0 .. config.ram - 1, f \notin RamTaken
              PROVE  f \in Range(mram'.free_fp_list)
  BY <1>2 DEF NoRamFrameLeaks, RamTaken
<1>3. f \in config.ramTaken .. config.ram - 1
  BY <1>1, Numbers DEF RamTaken
<1>4. CASE \E k \in 1 .. Len(mram.free_fp_list) : mram.free_fp_list[k] = f
  <2>1. DOMAIN mram.free_fp_list = 1 .. Len(mram.free_fp_list)
    BY <1>1 DEF Typed, IsDevice
  <2>2. f \in Range(mram.free_fp_list)
    BY <1>4, <2>1 DEF Range
  <2>. QED
    BY <1>1, <1>2, <2>2, FreedFrames
<1>5. CASE \E p \in RamInUse : RamFrame[p] = f
  <2>1. f \in {Fpn(pgd[p]) : p \in RamInUse}
    BY <1>5 DEF RamFrame, RamInUse
  <2>. QED
    BY <1>1, <1>2, <2>1, FreedFrames
<1>. QED
  BY <1>1, <1>3, <1>4, <1>5 DEF RamOwned, Owned

(* The invariant holds in every reachable state.                             *)
LEMMA Inductive == ASSUME FramesFit PROVE Spec => []IInv
<1>1. Init => IInv
  BY InitIInv
<1>2. IInv /\ TInv' /\ [Next]_vars => IInv'
  <2>. SUFFICES ASSUME IInv, TInv', [Next]_vars PROVE IInv'
    OBVIOUS
  <2>1. TInv
    BY DEF IInv
  <2>2. ASSUME state = "alive", NEW p \in Pages, MapPage(p) PROVE IInv'
    <3>1. state' = "alive"
      BY <2>2 DEF MapPage
    <3>. QED
      BY <2>2, <3>1, MapStep DEF IInv, NoRamFrameLeaks
  <2>3. ASSUME state = "alive", NEW p \in Pages, NEW cell \in Cells,
               pg_setval(p, cell) \/ pg_getval(p, cell)
        PROVE  IInv'
    <3>1. state' # "freed"
      BY <2>1, <2>3, AccessTyped
    <3>. QED
      BY <2>3, <3>1, AccessStep DEF IInv, NoRamFrameLeaks
  <2>4. ASSUME state = "alive", free_pcb_memph PROVE IInv'
    <3>1. state' = "freed"
      BY <2>4 DEF free_pcb_memph
    <3>. QED
      BY <2>4, <3>1, FreeStep DEF IInv
  <2>5. ASSUME UNCHANGED vars PROVE IInv'
    BY <2>5 DEF vars, IInv, RamOwned, SwpOwned, RamInUse, SwpInUse, RamFrame, SwpFrame,
       NoRamFrameLeaks, RamTaken
  <2>. QED
    BY <2>2, <2>3, <2>4, <2>5, NextAlive
<1>. QED
  BY <1>1, <1>2, TInvariant, PTL DEF Spec

-----------------------------------------------------------------------------
(* What is shown of every device                                             *)

(* TypeOK holds in every reachable state, whatever the sizes of the devices. *)
THEOREM TypeCorrect == Spec => []TypeOK
<1>1. TInv => TypeOK
  <2>. SUFFICES ASSUME TInv PROVE TypeOK
    OBVIOUS
  <2>1. Typed
    BY DEF TInv
  <2>2. \A lo \in Nat, n \in Nat :
          lo * PAGING_PAGESZ .. n * PAGING_PAGESZ - 1 \subseteq 0 .. n * PAGING_PAGESZ - 1
    <3>1. \A m \in Nat : m * PAGING_PAGESZ \in Nat
      BY PageSizeAssumption
    <3>. QED
      BY <3>1
  <2>3. /\ config.ram \in Nat /\ 0 \in Nat
        /\ config.swp \in Nat /\ config.swpTaken \in Nat
    BY <2>1, Numbers
  <2>4. DOMAIN mram.storage \subseteq 0 .. config.ram * PAGING_PAGESZ - 1
    <3> DEFINE lo == 0
    <3>1. DOMAIN mram.storage \subseteq lo * PAGING_PAGESZ .. config.ram * PAGING_PAGESZ - 1
      BY <2>1 DEF Typed, IsDevice
    <3>2. lo \in Nat
      OBVIOUS
    <3>. HIDE DEF lo
    <3>. QED
      BY <2>2, <2>3, <3>1, <3>2
  <2>5. DOMAIN mswp.storage \subseteq 0 .. config.swp * PAGING_PAGESZ - 1
    BY <2>1, <2>2, <2>3 DEF Typed, IsDevice
  <2>. QED
    BY <2>1, <2>4, <2>5 DEF Typed, IsDevice, TypeOK
<1>. QED
  BY TInvariant, <1>1, PTL

(* The pages that find_victim_page can find (libmem.c:239, mm64.c's list) are *)
(* in RAM, and none is listed twice, on all ways through pg_getpage, the one *)
(* that loses the victim included (libmem.c:245).                            *)
THEOREM VictimsStayResident == Spec => []VictimsAreResident
<1>1. TInv => VictimsAreResident
  <2>. SUFFICES ASSUME TInv, state = "alive" PROVE VictimsAreResident
    BY DEF VictimsAreResident
  <2>1. DOMAIN fifo_pgn = 1 .. Len(fifo_pgn)
    BY DEF TInv, Typed
  <2>. QED
    BY <2>1 DEF TInv, Distinct, Resident, VictimsAreResident
<1>. QED
  BY TInvariant, <1>1, PTL

-----------------------------------------------------------------------------
(* What is shown where the frame numbers fit                                 *)

(* The frames of a device and their owners.                                  *)
LEMMA OwnersHaveAll ==
  ASSUME NEW lo \in Nat, NEW n \in Nat, lo <= n, NEW list, NEW S, NEW at, Owned(list, S, at, lo, n)
  PROVE  Range(list) \cup {at[p] : p \in S} \cup 0 .. lo - 1 = 0 .. n - 1
<1>1. list \in Seq(lo .. n - 1) /\ DOMAIN list = 1 .. Len(list)
  BY DEF Owned
<1>2. \A f \in 0 .. n - 1 : f \in 0 .. lo - 1 \/ f \in lo .. n - 1
  OBVIOUS
<1>3. \A f \in lo .. n - 1 : f \in Range(list) \/ f \in {at[p] : p \in S}
  BY <1>1 DEF Owned, Range
<1>4. Range(list) \subseteq lo .. n - 1
  BY <1>1 DEF Range
<1>5. {at[p] : p \in S} \subseteq lo .. n - 1
  BY DEF Owned
<1>6. lo .. n - 1 \subseteq 0 .. n - 1 /\ 0 .. lo - 1 \subseteq 0 .. n - 1
  OBVIOUS
<1>. QED
  BY <1>2, <1>3, <1>4, <1>5, <1>6

(* While a process lives each frame of RAM and of swap is on the free list,  *)
(* once, or another process's, or in the entry of one page, on all ways      *)
(* through pg_getpage and whatever bits an entry still has from before       *)
(* (libmem.c:222-270, mm64.c's pte_set_fpn and pte_set_swap).                 *)
THEOREM FramesHaveOneOwner == ASSUME FramesFit PROVE Spec => []EachFrameOneOwner
<1>1. IInv => EachFrameOneOwner
  <2>. SUFFICES ASSUME IInv, state = "alive" PROVE EachFrameOneOwner
    BY DEF EachFrameOneOwner
  <2>1. Typed /\ RamOwned /\ SwpOwned
    BY DEF IInv, TInv
  <2>2. /\ config.ram \in Nat /\ config.ramTaken \in Nat /\ config.ramTaken <= config.ram
        /\ config.swp \in Nat /\ config.swpTaken \in Nat /\ config.swpTaken <= config.swp
    BY <2>1, Numbers
  <2>3. /\ {RamFrame[p] : p \in RamInUse} = {Fpn(pgd[p]) : p \in RamInUse}
        /\ {SwpFrame[p] : p \in SwpInUse} = {Swpoff(pgd[p]) : p \in SwpInUse}
    BY DEF RamFrame, SwpFrame, RamInUse, SwpInUse
  <2>4. Range(mram.free_fp_list) \cup {Fpn(pgd[p]) : p \in RamInUse} \cup RamTaken
          = 0 .. config.ram - 1
    <3>1. Owned(mram.free_fp_list, RamInUse, RamFrame, config.ramTaken, config.ram)
      BY <2>1 DEF RamOwned
    <3>2. Range(mram.free_fp_list) \cup {RamFrame[p] : p \in RamInUse}
            \cup 0 .. config.ramTaken - 1 = 0 .. config.ram - 1
      BY <2>2, <3>1, OwnersHaveAll
    <3>. QED
      BY <2>3, <3>2 DEF RamTaken
  <2>5. Range(mswp.free_fp_list) \cup {Swpoff(pgd[p]) : p \in SwpInUse} \cup SwpTaken
          = 0 .. config.swp - 1
    <3>1. Owned(mswp.free_fp_list, SwpInUse, SwpFrame, config.swpTaken, config.swp)
      BY <2>1 DEF SwpOwned
    <3>2. Range(mswp.free_fp_list) \cup {SwpFrame[p] : p \in SwpInUse}
            \cup 0 .. config.swpTaken - 1 = 0 .. config.swp - 1
      BY <2>2, <3>1, OwnersHaveAll
    <3>. QED
      BY <2>3, <3>2 DEF SwpTaken
  <2>6. /\ Len(mram.free_fp_list) + Cardinality(RamInUse) + config.ramTaken = config.ram
        /\ Len(mswp.free_fp_list) + Cardinality(SwpInUse) + config.swpTaken = config.swp
    BY <2>1 DEF RamOwned, SwpOwned, Owned
  <2>. QED
    BY <2>4, <2>5, <2>6 DEF EachFrameOneOwner
<1>. QED
  BY Inductive, <1>1, PTL

(* free_pcb_memph leaves no frame of RAM behind (libmem.c:611-635).          *)
THEOREM RamIsGivenBack == ASSUME FramesFit PROVE Spec => []NoRamFrameLeaks
<1>1. IInv => NoRamFrameLeaks
  BY DEF IInv
<1>. QED
  BY Inductive, <1>1, PTL

(* Content, with the page of each device spelled out.                        *)
LEMMA ContentOf ==
  \A p : /\ IsResident(pgd[p]) => Content(p) = PageAt(mram, Fpn(pgd[p]))
         /\ IsSwapped(pgd[p]) => Content(p) = PageAt(mswp, Swpoff(pgd[p]))
BY OneKind DEF Content

(* The same of the next state.                                               *)
LEMMA NextContent ==
  \A p : /\ IsResident(pgd'[p]) => Content(p)' = PageAt(mram', Fpn(pgd'[p]))
         /\ IsSwapped(pgd'[p]) => Content(p)' = PageAt(mswp', Swpoff(pgd'[p]))
BY OneKind DEF Content

(* Mapping a page and freeing write no byte and no other entry.              *)
LEMMA QuietSteps ==
  ASSUME IInv, \/ \E p \in Pages : MapPage(p)
               \/ free_pcb_memph
               \/ UNCHANGED vars
  PROVE  /\ \A q \in Pages : IsResident(pgd[q]) \/ IsSwapped(pgd'[q]) => pgd'[q] = pgd[q]
         /\ \A f : PageAt(mram', f) = PageAt(mram, f) /\ PageAt(mswp', f) = PageAt(mswp, f)
         /\ mram'.storage = mram.storage
<1>1. Typed
  BY DEF IInv, TInv
<1>2. ASSUME NEW p \in Pages, MapPage(p)
      PROVE  /\ \A q \in Pages : IsResident(pgd[q]) \/ IsSwapped(pgd'[q]) => pgd'[q] = pgd[q]
             /\ mram'.storage = mram.storage /\ mswp'.storage = mswp.storage
  <2>1. mswp' = mswp
    BY <1>2 DEF MapPage
  <2>2. /\ ~IsResident(pgd[p]) /\ IsResident(pgd'[p]) /\ mram'.storage = mram.storage
        /\ \A q \in Pages \ {p} : pgd'[q] = pgd[q]
    BY <1>1, <1>2, MapEntry
  <2>3. ~IsSwapped(pgd'[p])
    BY <2>2, OneKind
  <2>. QED
    BY <2>1, <2>2, <2>3
<1>3. ASSUME free_pcb_memph
      PROVE  pgd' = pgd /\ mram'.storage = mram.storage /\ mswp'.storage = mswp.storage
  BY <1>1, <1>3, FreedFrames DEF free_pcb_memph
<1>4. ASSUME UNCHANGED vars
      PROVE  pgd' = pgd /\ mram'.storage = mram.storage /\ mswp'.storage = mswp.storage
  BY <1>4 DEF vars
<1>5. /\ \A q \in Pages : IsResident(pgd[q]) \/ IsSwapped(pgd'[q]) => pgd'[q] = pgd[q]
      /\ mram'.storage = mram.storage /\ mswp'.storage = mswp.storage
  BY <1>2, <1>3, <1>4
<1>6. \A f : PageAt(mram', f) = PageAt(mram, f) /\ PageAt(mswp', f) = PageAt(mswp, f)
  BY <1>5, SamePages
<1>. QED
  BY <1>5, <1>6

(* Two pages in RAM are in different frames; a page in swap is not in a free *)
(* one.                                                                      *)
LEMMA FramesApart ==
  ASSUME IInv, state = "alive"
  PROVE  /\ \A p, q \in RamInUse : p # q => Fpn(pgd[p]) # Fpn(pgd[q])
         /\ mswp.free_fp_list # << >> =>
              \A q \in SwpInUse : Swpoff(pgd[q]) # Head(mswp.free_fp_list)
<1>1. RamOwned /\ SwpOwned
  BY DEF IInv
<1>2. \A p, q \in RamInUse : p # q => Fpn(pgd[p]) # Fpn(pgd[q])
  <2>. SUFFICES ASSUME NEW p \in RamInUse, NEW q \in RamInUse, p # q
                PROVE  Fpn(pgd[p]) # Fpn(pgd[q])
    OBVIOUS
  <2>1. RamFrame[p] # RamFrame[q]
    BY <1>1 DEF RamOwned, Owned
  <2>. QED
    BY <2>1 DEF RamFrame, RamInUse
<1>3. ASSUME mswp.free_fp_list # << >>, NEW q \in SwpInUse
      PROVE  Swpoff(pgd[q]) # Head(mswp.free_fp_list)
  <2>1. mswp.free_fp_list \in Seq(config.swpTaken .. config.swp - 1)
    BY <1>1 DEF SwpOwned, Owned
  <2>2. 1 \in 1 .. Len(mswp.free_fp_list) /\ Head(mswp.free_fp_list) = mswp.free_fp_list[1]
    BY <1>3, <2>1
  <2>3. SwpFrame[q] = Swpoff(pgd[q])
    BY DEF SwpFrame, SwpInUse
  <2>. QED
    BY <1>1, <2>2, <2>3 DEF SwpOwned, Owned
<1>. QED
  BY <1>2, <1>3

(* After Replace the victim has in swap what it had in RAM, and what the     *)
(* other pages have in swap is as it was.                                    *)
LEMMA ReplaceKeeps ==
  ASSUME FramesFit, IInv, state = "alive", NEW p \in Pages, Replace(p),
         NEW q \in Pages, IsSwapped(pgd'[q])
  PROVE  Content(q)' = Content(q)
<1> DEFINE v == Last(fifo_pgn)
           swpfpn == Head(mswp.free_fp_list)
<1>1. TInv
  BY DEF IInv
<1>2. /\ v \in RamInUse /\ IsResident(pgd'[p]) /\ mswp.free_fp_list # << >>
      /\ \A r \in Pages \ {v, p} : pgd'[r] = pgd[r]
  BY <1>1, ReplaceEntries
<1>3. Swpoff(pgd'[v]) = swpfpn
  BY ReplaceNumbers
<1>4. /\ \A f \in Nat \ {swpfpn} : PageAt(mswp', f) = PageAt(mswp, f)
      /\ PageAt(mswp', swpfpn) = PageAt(mram, Fpn(pgd[v]))
  BY <1>1, ReplaceDevices
<1>5. Content(q)' = PageAt(mswp', Swpoff(pgd'[q]))
  BY NextContent
<1>. HIDE DEF v
<1>6. CASE q = v
  <2>1. IsResident(pgd[v])
    BY <1>2 DEF RamInUse
  <2>2. Content(q) = PageAt(mram, Fpn(pgd[v]))
    BY <1>6, <2>1, ContentOf
  <2>. QED
    BY <1>3, <1>4, <1>5, <1>6, <2>2
<1>7. CASE q # v
  <2>1. q # p
    BY <1>2, OneKind
  <2>2. pgd'[q] = pgd[q]
    BY <1>2, <1>7, <2>1
  <2>3. Content(q) = PageAt(mswp, Swpoff(pgd[q])) /\ q \in SwpInUse
    BY <2>2, ContentOf DEF SwpInUse
  <2>4. Swpoff(pgd[q]) # swpfpn
    BY <1>2, <2>3, FramesApart
  <2>5. Swpoff(pgd[q]) \in Nat
    BY NumberIsNat DEF Swpoff
  <2>6. PageAt(mswp', Swpoff(pgd[q])) = PageAt(mswp, Swpoff(pgd[q]))
    BY <1>4, <2>4, <2>5
  <2>. QED
    BY <1>5, <2>2, <2>3, <2>6
<1>. QED
  BY <1>6, <1>7

(* A page that is swapped out has what it had in RAM, and keeps it           *)
(* (__swap_cp_page, mm64.c:351-363, by way of libmem.c:248-262).              *)
THEOREM SwappedContentIsKept == ASSUME FramesFit PROVE Spec => SwapKeepsContent
<1>1. IInv /\ [Next]_vars =>
        [\A p \in Pages : IsSwapped(pgd'[p]) => Content(p)' = Content(p)]_vars
  <2>. SUFFICES ASSUME IInv, [Next]_vars, NEW q \in Pages, IsSwapped(pgd'[q])
                PROVE  Content(q)' = Content(q)
    OBVIOUS
  <2>1. ASSUME state = "alive", NEW p \in Pages, Replace(p) PROVE Content(q)' = Content(q)
    BY <2>1, ReplaceKeeps
  <2>2. ASSUME UNCHANGED <<pgd, mswp>> PROVE Content(q)' = Content(q)
    <3>1. IsSwapped(pgd[q])
      BY <2>2
    <3>. QED
      BY <2>2, <3>1, ContentOf, NextContent
  <2>3. ASSUME \/ \E p \in Pages : MapPage(p)
               \/ free_pcb_memph
               \/ UNCHANGED vars
        PROVE  Content(q)' = Content(q)
    <3>1. pgd'[q] = pgd[q] /\ \A f : PageAt(mswp', f) = PageAt(mswp, f)
      BY <2>3, QuietSteps
    <3>. QED
      BY <3>1, ContentOf, NextContent
  <2>4. ASSUME state = "alive", NEW p \in Pages, NEW cell \in Cells,
               pg_setval(p, cell) \/ pg_getval(p, cell)
        PROVE  Content(q)' = Content(q)
    BY <2>1, <2>2, <2>4 DEF pg_setval, pg_getval, pg_getpage, Online, NoPage
  <2>. QED
    BY <2>3, <2>4, NextAlive
<1>. QED
  BY Inductive, <1>1, PTL DEF Spec, SwapKeepsContent

(* pg_setval to a page in RAM, or to one that gets a frame first, stores into *)
(* a frame that belongs to this page only.                                   *)
LEMMA WriteInFrame ==
  ASSUME FramesFit, IInv, state = "alive", NEW p \in Pages, NEW cell \in Cells,
         pg_setval(p, cell), p \notin SwpInUse
  PROVE  \/ pgd' = pgd /\ mram' = mram
         \/ \E fpn \in config.ramTaken .. config.ram - 1 :
              /\ \A a : a # fpn * PAGING_PAGESZ + cell
                          => MEMPHY_read(mram', a) = MEMPHY_read(mram, a)
              /\ \A q \in Pages : q # p /\ IsResident(pgd[q]) /\ IsResident(pgd'[q])
                          => pgd'[q] = pgd[q] /\ Fpn(pgd[q]) # fpn
<1>1. TInv /\ Typed /\ RamOwned /\ config' = config
  BY DEF IInv, TInv, pg_setval
<1>2. CASE NoPage(p) /\ UNCHANGED mram
  BY <1>2 DEF NoPage
<1>3. ASSUME Store(Fpn(pgd'[p]) * PAGING_PAGESZ + cell, p + 1)
      PROVE  \A a : a # Fpn(pgd'[p]) * PAGING_PAGESZ + cell
                      => MEMPHY_read(mram', a) = MEMPHY_read(mram, a)
  <2>1. Fpn(pgd'[p]) \in Nat
    BY NumberIsNat DEF Fpn
  <2>. QED
    BY <1>1, <1>3, <2>1, StoreTyped
<1>4. CASE Online(p) /\ Store(Fpn(pgd'[p]) * PAGING_PAGESZ + cell, p + 1)
  <2>1. pgd' = pgd /\ p \in RamInUse
    BY <1>4 DEF Online, SwpInUse, RamInUse, IsSwapped, IsResident
  <2>2. Fpn(pgd[p]) \in config.ramTaken .. config.ram - 1
    BY <1>1, <2>1 DEF RamOwned, Owned, RamFrame, RamInUse
  <2>3. \A q \in Pages : q # p /\ IsResident(pgd[q]) => Fpn(pgd[q]) # Fpn(pgd[p])
    BY <2>1, FramesApart DEF RamInUse
  <2>4. \A a : a # Fpn(pgd[p]) * PAGING_PAGESZ + cell
                 => MEMPHY_read(mram', a) = MEMPHY_read(mram, a)
    BY <1>3, <1>4, <2>1
  <2>. QED
    BY <2>1, <2>2, <2>3, <2>4
<1>5. CASE Replace(p) /\ Store(Fpn(pgd'[p]) * PAGING_PAGESZ + cell, p + 1)
  <2> DEFINE v == Last(fifo_pgn)
  <2>1. /\ Fpn(pgd[v]) \in config.ramTaken .. config.ram - 1
        /\ Fpn(pgd'[p]) = Fpn(pgd[v])
    BY <1>5, ReplaceNumbers
  <2>2. /\ v \in RamInUse /\ IsSwapped(pgd'[v])
        /\ \A q \in Pages \ {v, p} : pgd'[q] = pgd[q]
    BY <1>1, <1>5, ReplaceEntries
  <2>. HIDE DEF v
  <2>3. \A a : a # Fpn(pgd[v]) * PAGING_PAGESZ + cell
                 => MEMPHY_read(mram', a) = MEMPHY_read(mram, a)
    BY <1>3, <1>5, <2>1
  <2>4. ASSUME NEW q \in Pages, q # p, IsResident(pgd[q]), IsResident(pgd'[q])
        PROVE  pgd'[q] = pgd[q] /\ Fpn(pgd[q]) # Fpn(pgd[v])
    <3>1. q # v
      BY <2>2, <2>4, OneKind
    <3>2. q \in RamInUse
      BY <2>4 DEF RamInUse
    <3>. QED
      BY <2>2, <2>4, <3>1, <3>2, FramesApart
  <2>. QED
    BY <2>1, <2>3, <2>4
<1>. QED
  BY <1>2, <1>4, <1>5 DEF pg_setval, pg_getpage

(* pg_getval changes no byte of RAM, and no entry that stays in RAM.         *)
LEMMA ReadChangesNothing ==
  ASSUME IInv, state = "alive", NEW p \in Pages, NEW cell \in Cells, pg_getval(p, cell),
         NEW q \in Pages, IsResident(pgd[q]), IsResident(pgd'[q])
  PROVE  mram' = mram /\ pgd'[q] = pgd[q]
<1>1. mram' = mram
  BY DEF pg_getval, Load
<1>2. CASE pgd' = pgd
  BY <1>1, <1>2
<1>3. CASE Replace(p)
  <2> DEFINE v == Last(fifo_pgn)
  <2>1. /\ p \notin RamInUse /\ IsSwapped(pgd'[v])
        /\ \A r \in Pages \ {v, p} : pgd'[r] = pgd[r]
    BY <1>3, ReplaceEntries DEF IInv
  <2>. HIDE DEF v
  <2>2. q # v /\ q # p
    BY <2>1, OneKind DEF RamInUse
  <2>. QED
    BY <1>1, <2>1, <2>2
<1>. QED
  BY <1>2, <1>3 DEF pg_getval, pg_getpage, Online, NoPage

(* A page that stays in RAM changes by a write to it or by one that goes     *)
(* astray through a swapped page, and not by a write to another page or by a *)
(* replacement (libmem.c:248-270, 317-321).                                  *)
THEOREM ResidentContentIsKept == ASSUME FramesFit PROVE Spec => ResidentsKeepContent
<1> DEFINE Kept == \A q \in Pages :
              IsResident(pgd[q]) /\ IsResident(pgd'[q]) /\ Content(q)' # Content(q)
                => \E p \in SwpInUse \cup {q} : Writes(p)
<1>1. IInv /\ [Next]_vars => [Kept]_vars
  <2>. SUFFICES ASSUME IInv, [Next]_vars, NEW q \in Pages,
                       IsResident(pgd[q]), IsResident(pgd'[q]),
                       ~\E p \in SwpInUse \cup {q} : Writes(p)
                PROVE  Content(q)' = Content(q)
    BY DEF Kept
  <2>1. /\ Content(q) = PageAt(mram, Fpn(pgd[q])) /\ Content(q)' = PageAt(mram', Fpn(pgd'[q]))
        /\ Fpn(pgd[q]) \in Nat
    BY ContentOf, NextContent, NumberIsNat DEF Fpn
  <2>2. ASSUME state = "alive", NEW p \in Pages, NEW cell \in Cells, pg_setval(p, cell)
        PROVE  Content(q)' = Content(q)
    <3>1. p # q /\ p \notin SwpInUse
      BY <2>2 DEF Writes
    <3>2. CASE pgd' = pgd /\ mram' = mram
      BY <2>1, <3>2
    <3>3. ASSUME NEW fpn \in config.ramTaken .. config.ram - 1,
                 \A a : a # fpn * PAGING_PAGESZ + cell
                          => MEMPHY_read(mram', a) = MEMPHY_read(mram, a),
                 pgd'[q] = pgd[q], Fpn(pgd[q]) # fpn
          PROVE  Content(q)' = Content(q)
      <4>1. fpn \in Nat
        BY Numbers DEF IInv, TInv
      <4>2. \A f \in Nat \ {fpn} : PageAt(mram', f) = PageAt(mram, f)
        BY <3>3, <4>1, OtherPages
      <4>. QED
        BY <2>1, <3>3, <4>2
    <3>. QED
      BY <2>2, <3>1, <3>2, <3>3, WriteInFrame
  <2>3. ASSUME state = "alive", NEW p \in Pages, NEW cell \in Cells, pg_getval(p, cell)
        PROVE  Content(q)' = Content(q)
    BY <2>1, <2>3, ReadChangesNothing
  <2>4. ASSUME \/ \E p \in Pages : MapPage(p)
               \/ free_pcb_memph
               \/ UNCHANGED vars
        PROVE  Content(q)' = Content(q)
    BY <2>1, <2>4, QuietSteps
  <2>. QED
    BY <2>2, <2>3, <2>4, NextAlive
<1>. QED
  BY Inductive, <1>1, PTL DEF Spec, ResidentsKeepContent

(* The frames from lo on are apart from the ones before.                     *)
LEMMA ChangedFrom ==
  ASSUME NEW lo \in Nat, NEW old, NEW new,
         \A a \in DOMAIN new.storage : MEMPHY_read(new, a) # MEMPHY_read(old, a)
                                         => a \in Nat /\ lo * PAGING_PAGESZ <= a
  PROVE  Changed(old, new) \cap (0 .. lo - 1) = {}
<1>1. ASSUME NEW a \in DOMAIN new.storage, MEMPHY_read(new, a) # MEMPHY_read(old, a)
      PROVE  a \div PAGING_PAGESZ \notin 0 .. lo - 1
  <2>1. a \in Nat /\ lo <= a \div PAGING_PAGESZ
    BY <1>1, FrameOf
  <2>. QED
    BY <2>1
<1>. QED
  BY <1>1 DEF Changed

(* Nothing of another process's frames is written in swap (__swap_cp_page,   *)
(* mm64.c:351), and in RAM only by way of a swapped page (libmem.c:227, 267). *)
THEOREM OthersAreUntouched == ASSUME FramesFit PROVE Spec => OthersUntouched
<1> DEFINE Others == /\ Changed(mswp, mswp') \cap SwpTaken = {}
                     /\ Changed(mram, mram') \cap RamTaken # {} => \E p \in SwpInUse : Writes(p)
<1>1. IInv /\ IInv' /\ [Next]_vars => [Others]_vars
  <2>. SUFFICES ASSUME IInv, IInv', [Next]_vars PROVE Others
    OBVIOUS
  <2>1. Typed /\ Typed' /\ config' = config
    <3>1. config' = config
      BY NextAlive DEF vars, MapPage, pg_setval, pg_getval, free_pcb_memph
    <3>. QED
      BY <3>1 DEF IInv, TInv
  <2>2. config.ramTaken \in Nat /\ config.swpTaken \in Nat /\ config.ram \in Nat
    BY <2>1, Numbers
  <2>3. Changed(mswp, mswp') \cap SwpTaken = {}
    <3> DEFINE lo == config.swpTaken
               n == config.swp
    <3>1. DOMAIN mswp'.storage \subseteq lo * PAGING_PAGESZ .. n * PAGING_PAGESZ - 1
      BY <2>1 DEF Typed, IsDevice
    <3>2. lo * PAGING_PAGESZ \in Nat /\ lo \in Nat
      BY <2>2, PageSizeAssumption
    <3>. HIDE DEF lo, n
    <3>3. \A a \in DOMAIN mswp'.storage : a \in Nat /\ lo * PAGING_PAGESZ <= a
      BY <3>1, <3>2
    <3>4. Changed(mswp, mswp') \cap (0 .. lo - 1) = {}
      BY <3>2, <3>3, ChangedFrom
    <3>. QED
      BY <3>4 DEF SwpTaken, lo
  <2>4. ASSUME ~\E p \in SwpInUse : Writes(p) PROVE Changed(mram, mram') \cap RamTaken = {}
    <3> DEFINE lo == config.ramTaken
    <3>1. ASSUME mram'.storage = mram.storage PROVE Changed(mram, mram') \cap RamTaken = {}
      BY <3>1 DEF Changed, MEMPHY_read
    <3>2. ASSUME state = "alive", NEW p \in Pages, NEW cell \in Cells, pg_setval(p, cell)
          PROVE  Changed(mram, mram') \cap RamTaken = {}
      <4>1. p \notin SwpInUse
        BY <2>4, <3>2 DEF Writes
      <4>2. ASSUME NEW fpn \in config.ramTaken .. config.ram - 1,
                   \A a : a # fpn * PAGING_PAGESZ + cell
                            => MEMPHY_read(mram', a) = MEMPHY_read(mram, a)
            PROVE  Changed(mram, mram') \cap RamTaken = {}
        <5> DEFINE addr == fpn * PAGING_PAGESZ + cell
        <5>1. addr \in lo * PAGING_PAGESZ .. config.ram * PAGING_PAGESZ - 1
          BY <2>2, BytesInside
        <5>2. lo \in Nat /\ lo * PAGING_PAGESZ \in Nat
          BY <2>2, PageSizeAssumption
        <5>. HIDE DEF addr, lo
        <5>3. addr \in Nat /\ lo * PAGING_PAGESZ <= addr
          BY <5>1, <5>2
        <5>4. \A a : MEMPHY_read(mram', a) # MEMPHY_read(mram, a) => a = addr
          BY <4>2 DEF addr
        <5>5. Changed(mram, mram') \cap (0 .. lo - 1) = {}
          BY <5>2, <5>3, <5>4, ChangedFrom
        <5>. QED
          BY <5>5 DEF RamTaken, lo
      <4>. QED
        BY <3>1, <3>2, <4>1, <4>2, WriteInFrame
    <3>3. ASSUME NEW p \in Pages, NEW cell \in Cells, pg_getval(p, cell)
          PROVE  Changed(mram, mram') \cap RamTaken = {}
      <4>1. mram' = mram
        BY <3>3 DEF pg_getval, Load
      <4>. QED
        BY <3>1, <4>1
    <3>4. ASSUME \/ \E p \in Pages : MapPage(p)
                 \/ free_pcb_memph
                 \/ UNCHANGED vars
          PROVE  Changed(mram, mram') \cap RamTaken = {}
      BY <3>1, <3>4, QuietSteps
    <3>. QED
      BY <3>2, <3>3, <3>4, NextAlive
  <2>. QED
    BY <2>3, <2>4
<1>. QED
  BY Inductive, <1>1, PTL DEF Spec, OthersUntouched
=============================================================================
