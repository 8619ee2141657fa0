-------------------------------- MODULE Memphy --------------------------------
(***************************************************************************)
(* mm-memphy.c: a physical memory device, RAM or swap.  A device is a      *)
(* record of its list of free frames (free_fp_list, head first) and its    *)
(* cells.  storage maps the addresses that have been written; the others   *)
(* still hold the 0 of init_memphy's memset.  All devices are random       *)
(* access: os.c:251 passes 1 for randomflg, and on a sequential one every  *)
(* read and write is refused.                                              *)
(***************************************************************************)
EXTENDS Integers, Sequences, Functions

CONSTANT PAGING_PAGESZ     \* bytes in a page

ASSUME PageSizeAssumption == PAGING_PAGESZ \in Nat \ {0}

(* Variant: frames are numbered from 1.                                      *)
MEMPHY_format_FromOne(numfp) == [k \in 1 .. numfp |-> k]

(* The list of a device of one frame has an uninitialised fp_next, that of a *)
(* device of none an uninitialised head: numfp is at least 2 here.           *)
MEMPHY_format(numfp) == [k \in 1 .. numfp |-> k - 1]

init_memphy(numfp) == [free_fp_list |-> MEMPHY_format(numfp), storage |-> << >>]

HasFreefp(mp) == mp.free_fp_list # << >>
FirstFreefp(mp) == Head(mp.free_fp_list)
MEMPHY_get_freefp(mp) == [mp EXCEPT !.free_fp_list = Tail(@)]
MEMPHY_put_freefp(mp, fpn) == [mp EXCEPT !.free_fp_list = <<fpn>> \o @]

(* The cells of new in place of what storage had there.                      *)
Over(new, storage) ==
  [a \in DOMAIN new \cup DOMAIN storage |->
     IF a \in DOMAIN new THEN new[a] ELSE storage[a]]

MEMPHY_read(mp, addr) == IF addr \in DOMAIN mp.storage THEN mp.storage[addr] ELSE 0
MEMPHY_write(mp, addr, data) == [mp EXCEPT !.storage = Over([a \in {addr} |-> data], @)]

Cells == 0 .. PAGING_PAGESZ - 1
PageAt(mp, fpn) == [cell \in Cells |-> MEMPHY_read(mp, fpn * PAGING_PAGESZ + cell)]

(* Variant: the last byte is not copied.                                     *)
__swap_cp_page_SkipsLast(mpsrc, srcfpn, mpdst, dstfpn) ==
  LET base == dstfpn * PAGING_PAGESZ
  IN  [mpdst EXCEPT !.storage = Over(
         [a \in {base + cell : cell \in Cells \ {PAGING_PAGESZ - 1}} |->
            PageAt(mpsrc, srcfpn)[a - base]], @)]

(* Variant: the destination is computed one byte too low.                    *)
__swap_cp_page_Low(mpsrc, srcfpn, mpdst, dstfpn) ==
  LET base == dstfpn * PAGING_PAGESZ - 1
  IN  [mpdst EXCEPT !.storage = Over(
         [a \in {base + cell : cell \in Cells} |-> PageAt(mpsrc, srcfpn)[a - base]], @)]

(* The destination device after a page has been copied to its frame dstfpn.  *)
__swap_cp_page(mpsrc, srcfpn, mpdst, dstfpn) ==
  LET base == dstfpn * PAGING_PAGESZ
  IN  [mpdst EXCEPT !.storage = Over(
         [a \in {base + cell : cell \in Cells} |-> PageAt(mpsrc, srcfpn)[a - base]], @)]
=============================================================================
