------------------------------- MODULE Regions -------------------------------
(***************************************************************************)
(* The regions of one virtual memory area: __alloc, __free and             *)
(* get_free_vmrg_area of libmem.c with the lists of mm64.c.                *)
(*                                                                         *)
(* mmvm_lock is held throughout __alloc and __free, so each is one step.   *)
(* All processes share one mm (krnl->mm), and with it one symbol table: a  *)
(* region ID is used by whichever process executes the instruction.        *)
(*                                                                         *)
(* Two functions are open in the source.  init_mm stops before it attaches *)
(* the area and the symbol table to the mm; Init is what it prepares.      *)
(* inc_vma_limit is a TODO that returns 0, and its caller __sys_memmap     *)
(* gives it a krnl_t that it has just allocated, not the one of the        *)
(* process.  What __alloc expects of the call is an assumption here: that  *)
(* the area of the process grows by the size or more, up to AreaLimit, or  *)
(* stays.  With AreaLimit = 0 no call has an effect, as in the code as     *)
(* committed.                                                              *)
(***************************************************************************)
EXTENDS Integers, Sequences, SequencesExt

CONSTANTS Rgids,       \* region IDs, the indices of symrgtbl
          Sizes,       \* the sizes programs ask for
          AreaLimit,   \* how far the area can grow
          MaxOverruns  \* bound: how many extensions fail

ASSUME SizesAssumption == Sizes \subseteq Nat
ASSUME LimitAssumption == AreaLimit \in Nat /\ MaxOverruns \in Nat

VARIABLES sbrk,            \* vma->sbrk
          vm_freerg_list,  \* vma->vm_freerg_list
          symrgtbl,        \* mm->symrgtbl
          overruns         \* history: the allocations that went on although
                           \* the area had not grown
vars == <<sbrk, vm_freerg_list, symrgtbl, overruns>>

Region   == [rg_start : Nat, rg_end : Nat]
Empty(a) == [rg_start |-> a, rg_end |-> a]
Unused   == Empty(0)       \* how an unused entry of symrgtbl is recognised

TypeOK == /\ sbrk \in Nat
          /\ vm_freerg_list \in Seq(Region) /\ vm_freerg_list # << >>
          /\ symrgtbl \in [Rgids -> Region]
          /\ overruns \in 0 .. MaxOverruns

Init == /\ sbrk = 0
        /\ vm_freerg_list = <<Empty(0)>>
        /\ symrgtbl = [r \in Rgids |-> Unused]
        /\ overruns = 0

-----------------------------------------------------------------------------
Free == DOMAIN vm_freerg_list

Fits(rg, size) == rg.rg_start + size <= rg.rg_end

(* Variant: only the head of the list is tried.                              *)
FirstFit_HeadOnly(k, size) == k = 1 /\ Fits(vm_freerg_list[k], size)

(* get_free_vmrg_area walks the list and takes the first region that fits.   *)
FirstFit(k, size) == /\ Fits(vm_freerg_list[k], size)
                     /\ \A j \in 1 .. k - 1 : ~Fits(vm_freerg_list[j], size)

(* Variant: a region that is used up is unlinked even if it is the last one. *)
Carve_UnlinksLast(k, size) ==
  IF vm_freerg_list[k].rg_start + size = vm_freerg_list[k].rg_end
    THEN RemoveAt(vm_freerg_list, k)
    ELSE [vm_freerg_list EXCEPT ![k].rg_start = @ + size]

(* Variant: the next region is unlinked without being cloned.               *)
Carve_NoClone(k, size) ==
  LET shrunk == [vm_freerg_list EXCEPT ![k].rg_start = @ + size]
  IN  IF /\ shrunk[k].rg_start = shrunk[k].rg_end
         /\ k < Len(vm_freerg_list)
        THEN RemoveAt(shrunk, k + 1)
        ELSE shrunk

(* What is left of the list: the region shrinks from below; used up, it is   *)
(* replaced by the next one, or stays behind empty if it is the last.        *)
Carve(k, size) ==
  IF /\ vm_freerg_list[k].rg_start + size = vm_freerg_list[k].rg_end
     /\ k < Len(vm_freerg_list)
    THEN RemoveAt(vm_freerg_list, k)
    ELSE [vm_freerg_list EXCEPT ![k].rg_start = @ + size]

SetRegion(rgid, start, size) ==
  symrgtbl' = [symrgtbl EXCEPT ![rgid] =
                 [rg_start |-> start, rg_end |-> start + size]]

(* get_free_vmrg_area gives out the lower end of the region at k.            *)
TakeFree(k, size) == /\ FirstFit(k, size)
                     /\ vm_freerg_list' = Carve(k, size)
                     /\ UNCHANGED <<sbrk, overruns>>

(* What __alloc expects of sys_memmap with SYSMEM_INC_OP: the area grows by  *)
(* the size or more, or not at all.                                          *)
inc_vma_limit(size) ==
  \/ /\ sbrk' \in sbrk + size .. AreaLimit
     /\ UNCHANGED overruns
  \/ /\ overruns < MaxOverruns
     /\ overruns' = overruns + 1
     /\ UNCHANGED sbrk

(* get_free_vmrg_area finds none, and the area is to be extended.  Whether   *)
(* it has been is not looked at.                                             *)
Extend(size) == /\ \A k \in Free : ~FirstFit(k, size)
                /\ inc_vma_limit(size)
                /\ UNCHANGED vm_freerg_list

(* __alloc: the region begins at what was found, or at the old sbrk.         *)
AllocFree(rgid, size) ==
  \E k \in Free : /\ TakeFree(k, size)
                  /\ SetRegion(rgid, vm_freerg_list[k].rg_start, size)

AllocAtBrk(rgid, size) == Extend(size) /\ SetRegion(rgid, sbrk, size)

liballoc(rgid, size) == AllocFree(rgid, size) \/ AllocAtBrk(rgid, size)

(* __alloc for an index outside the symbol table: the space is taken all the *)
(* same, and no entry names it.                                              *)
LostAlloc(size) == /\ Extend(size) \/ \E k \in Free : TakeFree(k, size)
                   /\ UNCHANGED symrgtbl

Used(rgid) == symrgtbl[rgid] # Unused

(* Variant: the entry of the symbol table is not cleared.                    *)
libfree_KeepsEntry(rgid) ==
  /\ Used(rgid)
  /\ vm_freerg_list' = <<symrgtbl[rgid]>> \o vm_freerg_list
  /\ UNCHANGED <<sbrk, symrgtbl, overruns>>

(* __free: an unused region ID is refused; a region goes to the head of the  *)
(* free list, unless it is empty (enlist_vm_freerg_list refuses it).         *)
libfree(rgid) ==
  LET rg == symrgtbl[rgid]
  IN  /\ Used(rgid)
      /\ symrgtbl' = [symrgtbl EXCEPT ![rgid] = Unused]
      /\ vm_freerg_list' = IF rg.rg_start < rg.rg_end
                             THEN <<rg>> \o vm_freerg_list
                             ELSE vm_freerg_list
      /\ UNCHANGED <<sbrk, overruns>>

Next == \E rgid \in Rgids : \/ \E size \in Sizes : liballoc(rgid, size)
                            \/ libfree(rgid)

Spec == Init /\ [][Next]_vars

-----------------------------------------------------------------------------
(* Properties                                                                *)

(* No address is in both: one is empty, or they lie one after the other.     *)
Apart(a, b) == \/ a.rg_end <= a.rg_start \/ b.rg_end <= b.rg_start
               \/ a.rg_end <= b.rg_start \/ b.rg_end <= a.rg_start

LiveApart == \A r, q \in Rgids : r # q => Apart(symrgtbl[r], symrgtbl[q])
FreeApart == \A j, k \in Free :
               j # k => Apart(vm_freerg_list[j], vm_freerg_list[k])
LiveFree  == \A r \in Rgids, k \in Free : Apart(symrgtbl[r], vm_freerg_list[k])

InArea(rg) == rg.rg_start <= rg.rg_end /\ rg.rg_end <= sbrk

AllInArea == /\ \A r \in Rgids : InArea(symrgtbl[r])
             /\ \A k \in Free : InArea(vm_freerg_list[k])

(* As long as the area grew whenever it had to, the regions in use and the   *)
(* free regions are disjoint and lie below sbrk (docs.md:397), through every *)
(* sequence of carving, using up, giving back and re-using an ID.            *)
RegionsSound == overruns = 0 => LiveApart /\ FreeApart /\ LiveFree /\ AllInArea

Addresses(rg) == {a \in 0 .. AreaLimit - 1 : rg.rg_start <= a /\ a < rg.rg_end}
Known == UNION ({Addresses(symrgtbl[r]) : r \in Rgids}
                \cup {Addresses(vm_freerg_list[k]) : k \in Free})

(* No address is lost from the tables, except by an allocation that takes a  *)
(* region ID in use: "we keep the released storage space in a free list for  *)
(* future allocation requests" (docs.md:616).                                *)
Reallocates == \E r \in Rgids, size \in Sizes : Used(r) /\ liballoc(r, size)

NoSpaceLost == [][~Reallocates => Known \subseteq Known']_vars

(* The area is only extended for a size that no free region can hold.        *)
ReuseBeforeGrowth ==
  [][\A r \in Rgids :
       (sbrk' # sbrk \/ overruns' # overruns) /\ symrgtbl'[r] # symrgtbl[r]
         => LET size == symrgtbl'[r].rg_end - symrgtbl'[r].rg_start
            IN  \A k \in Free : ~Fits(vm_freerg_list[k], size)]_vars
=============================================================================
