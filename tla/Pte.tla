--------------------------------- MODULE Pte ---------------------------------
(***************************************************************************)
(* Page table entries and the fields of addresses: the macros of bitops.h, *)
(* mm.h and mm64.h, and the functions of mm64.c that make an entry.  A     *)
(* word, and a number that is shifted into one, is the set of its one      *)
(* bits; the build has BITS_PER_LONG 32 (CONFIG64 is not defined), so      *)
(* GENMASK is the plain range of bits.                                     *)
(*                                                                         *)
(* pte_set_swap and pte_set_fpn are given here as what they do to the      *)
(* entry.  Without MM64 the entry is pgd[pgn] (mm64.c:129, and mm.c); with *)
(* it, the five-level walk that is to find the entry is left open, and a   *)
(* cell malloc'ed for the call takes its place and is dropped.             *)
(***************************************************************************)
EXTENDS Integers

GENMASK(h, l) == l .. h

SETBIT(v, mask) == v \cup mask
CLRBIT(v, mask) == v \ mask
SETVAL(v, value, mask, offst) == (v \ mask) \cup ({b + offst : b \in value} \cap mask)
GETVAL(v, mask, offst) == {b - offst : b \in v \cap mask}

PRESENT == {31}
SWAPPED == {30}
DIRTY   == {28}
USRNUM  == GENMASK(27, 15)
EMPTY   == {13, 14}
FPN     == GENMASK(12, 0)
SWPTYP  == GENMASK(4, 0)
SWPOFF  == GENMASK(25, 5)

PAGE_PRESENT(pte) == PRESENT \subseteq pte
PAGING_FPN(pte)   == GETVAL(pte, FPN, 0)
PAGING_SWP(pte)   == GETVAL(pte, SWPOFF, 5)

pte_set_fpn(pte, fpn) ==
  SETVAL(CLRBIT(SETBIT(pte, PRESENT), SWAPPED), fpn, FPN, 0)

(* Variant: the offset is not shifted to its field.                          *)
pte_set_swap_Unshifted(pte, swptyp, swpoff) ==
  SETVAL(SETVAL(SETBIT(SETBIT(pte, PRESENT), SWAPPED), swptyp, SWPTYP, 0),
         swpoff, SWPOFF, 0)

pte_set_swap(pte, swptyp, swpoff) ==
  SETVAL(SETVAL(SETBIT(SETBIT(pte, PRESENT), SWAPPED), swptyp, SWPTYP, 0),
         swpoff, SWPOFF, 5)

(* init_pte makes the same two kinds of entry, clears the dirty bit and      *)
(* refuses frame 0: the entry then stays as it was.                          *)
init_pte(pte, pre, fpn, swp, swptyp, swpoff) ==
  CASE ~pre                    -> pte
    [] pre /\ ~swp /\ fpn = {} -> pte
    [] pre /\ ~swp /\ fpn # {} -> pte_set_fpn(CLRBIT(pte, DIRTY), fpn)
    [] pre /\ swp              -> pte_set_swap(CLRBIT(pte, DIRTY), swptyp, swpoff)

-----------------------------------------------------------------------------
(* Addresses.  libmem.c and mm.c split one of PAGING_CPU_BUS_WIDTH = 22 bits *)
(* into a page number and an offset in a page of 256 bytes, mm64.c one of 57 *)
(* bits into five directory indexes above a page of 4096 bytes.              *)

PAGING_OFFST(addr) == GETVAL(addr, GENMASK(7, 0), 0)
PAGING_PGN(addr)   == GETVAL(addr, GENMASK(21, 8), 8)

PGD(addr) == GETVAL(addr, GENMASK(56, 48), 48)
P4D(addr) == GETVAL(addr, GENMASK(47, 39), 39)
PUD(addr) == GETVAL(addr, GENMASK(38, 30), 30)
PMD(addr) == GETVAL(addr, GENMASK(29, 21), 21)
PT(addr)  == GETVAL(addr, GENMASK(20, 12), 12)

get_pd_from_address(addr) == <<PGD(addr), P4D(addr), PUD(addr), PMD(addr), PT(addr)>>
get_pd_from_pagenum(pgn)  == get_pd_from_address({b + 12 : b \in pgn})
=============================================================================
