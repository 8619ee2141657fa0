------------------------------- MODULE PageTable -------------------------------
(***************************************************************************)
(* The page table of a process, composed with the RAM and the swap device  *)
(* its entries point into.  The entries are made by Pte, the frames come   *)
(* from and go to the devices of Memphy, and free_pcb_memph gives back     *)
(* what the entries say.                                                   *)
(*                                                                         *)
(* libmem.c has the control of an access - what counts as online, how a    *)
(* victim is found, where pg_getpage gives up - and only names, in         *)
(* comments, the calls that are to move a page (libmem.c:250-262), to take *)
(* the frames of new pages (mm64.c:244-297) and to reach the byte          *)
(* (libmem.c:317-321).  Here these calls are made where the comments ask   *)
(* for them, and nothing is added.  libmem.c:250 asks for copies "from     *)
(* MEMRAM to MEMSWP and vice versa", but in that branch there is no page   *)
(* to bring back from swap: it is entered when the present bit is not set, *)
(* and pte_set_swap sets it.  So a swapped page counts as one in memory,   *)
(* and an access to it reaches the frame that its swap offset spells.      *)
(*                                                                         *)
(* Each action is one critical section of mmvm_lock (what reads do without *)
(* it is in Paging).  Frames that other processes hold have been taken off *)
(* the lists before.                                                       *)
(***************************************************************************)
EXTENDS Memphy, Pte, FiniteSets, SequencesExt

CONSTANTS NumPages,      \* PAGING_MAX_PGN
          Configs        \* the devices: frames of each, and how many are taken

ASSUME NumPagesAssumption == NumPages \in Nat \ {0}

ASSUME ConfigsAssumption ==
  \A c \in Configs : /\ c.ram \in Nat \ {0, 1} /\ c.ramTaken \in 0 .. c.ram
                     /\ c.swp \in Nat \ {0, 1} /\ c.swpTaken \in 0 .. c.swp

MaxRam == 8192         \* frames that the 13 bits of an entry can tell apart,
MaxSwp == 2097152      \* and offsets that its 21 bits can

(* The frame numbers fit into the fields of an entry.  os.c takes the sizes  *)
(* of the devices from the configuration file as they come.                  *)
FramesFit == \A c \in Configs : c.ram <= MaxRam /\ c.swp <= MaxSwp

Pages == 0 .. NumPages - 1
Bytes == 0 .. NumPages      \* a write to page p stores the byte p + 1

VARIABLES pgd,              \* the page table, an entry for each page
          fifo_pgn,         \* the list of its pages, the victim last
          mram, mswp,       \* the RAM and the active swap device
          config,           \* the configuration chosen initially
          state             \* of the process: "alive", "freed" by
                            \* free_pcb_memph, or "crashed"

vars == <<pgd, fifo_pgn, mram, mswp, config, state>>

(* A frame number as the bits that are shifted into an entry, up to the 21 of*)
(* a swap offset: left[b] is what is left of n after b bits.  And back:      *)
(* from[b] is what the bits of v from b on amount to.                        *)
Bits(n)   == LET left[b \in 0 .. 21] == IF b = 0 THEN n ELSE left[b - 1] \div 2
             IN  {b \in 0 .. 20 : left[b] % 2 = 1}
Number(v) == LET from[b \in 0 .. 21] ==
                   IF v \cap (b .. 20) = {} THEN 0
                   ELSE 2 * from[b + 1] + (IF b \in v THEN 1 ELSE 0)
             IN  from[0]

Fpn(pte)      == Number(PAGING_FPN(pte))
Swpoff(pte)   == Number(PAGING_SWP(pte))
IsSwapped(pte)  == PAGE_PRESENT(pte) /\ SWAPPED \subseteq pte
IsResident(pte) == PAGE_PRESENT(pte) /\ ~(SWAPPED \subseteq pte)

(* The frames that other processes hold: they came first and got the first.  *)
RamTaken == 0 .. config.ramTaken - 1
SwpTaken == 0 .. config.swpTaken - 1
Taken(mp, n) == [mp EXCEPT !.free_fp_list = SubSeq(@, n + 1, Len(@))]

TypeOK ==
  /\ pgd \in [Pages -> SUBSET (0 .. 31)] /\ fifo_pgn \in Seq(Pages)
  /\ config \in Configs /\ state \in {"alive", "freed", "crashed"}
  /\ mram.free_fp_list \in Seq(Nat) /\ mswp.free_fp_list \in Seq(Nat)
  /\ mram.storage \in [DOMAIN mram.storage -> Bytes]
  /\ mswp.storage \in [DOMAIN mswp.storage -> Bytes]
  /\ DOMAIN mram.storage \subseteq 0 .. config.ram * PAGING_PAGESZ - 1
  /\ DOMAIN mswp.storage \subseteq 0 .. config.swp * PAGING_PAGESZ - 1

Init == /\ pgd = [p \in Pages |-> {}]
        /\ fifo_pgn = << >>
        /\ config \in Configs
        /\ mram = Taken(init_memphy(config.ram), config.ramTaken)
        /\ mswp = Taken(init_memphy(config.swp), config.swpTaken)
        /\ state = "alive"

(* alloc_pages_range and vmap_page_range: page p gets a frame, if there is   *)
(* one, and joins the list.                                                  *)
MapPage(p) ==
  /\ ~PAGE_PRESENT(pgd[p]) /\ HasFreefp(mram)
  /\ pgd' = [pgd EXCEPT ![p] = pte_set_fpn(@, Bits(FirstFreefp(mram)))]
  /\ fifo_pgn' = <<p>> \o fifo_pgn
  /\ mram' = MEMPHY_get_freefp(mram)
  /\ UNCHANGED <<mswp, config, state>>

-----------------------------------------------------------------------------
(* Accesses                                                                  *)

(* pg_getpage looks at the present bit only.                                 *)
Online(p) == PAGE_PRESENT(pgd[p]) /\ UNCHANGED <<pgd, fifo_pgn, mswp>>

(* Variant: the victim's node stays in the list.                             *)
Replace_KeepsNode(p) ==
  LET v      == Last(fifo_pgn)
      vicfpn == Fpn(pgd[v])
      swpfpn == FirstFreefp(mswp)
  IN  /\ ~PAGE_PRESENT(pgd[p]) /\ Len(fifo_pgn) > 1 /\ HasFreefp(mswp)
      /\ fifo_pgn' = <<p>> \o fifo_pgn
      /\ mswp' = __swap_cp_page(mram, vicfpn, MEMPHY_get_freefp(mswp), swpfpn)
      /\ pgd' = [pgd EXCEPT ![v] = pte_set_swap(@, {}, Bits(swpfpn)),
                            ![p] = pte_set_fpn(@, Bits(vicfpn))]

(* Otherwise page p gets the frame of the page at the end of the list, whose *)
(* content goes to a swap frame.  swptyp is active_mswp_id, 0 in os.c:271.   *)
Replace(p) ==
  LET v      == Last(fifo_pgn)
      vicfpn == Fpn(pgd[v])
      swpfpn == FirstFreefp(mswp)
  IN  /\ ~PAGE_PRESENT(pgd[p]) /\ Len(fifo_pgn) > 1 /\ HasFreefp(mswp)
      /\ fifo_pgn' = <<p>> \o Front(fifo_pgn)
      /\ mswp' = __swap_cp_page(mram, vicfpn, MEMPHY_get_freefp(mswp), swpfpn)
      /\ pgd' = [pgd EXCEPT ![v] = pte_set_swap(@, {}, Bits(swpfpn)),
                            ![p] = pte_set_fpn(@, Bits(vicfpn))]

pg_getpage(p) == Online(p) \/ Replace(p)

(* pg_getpage without success: the list is empty, or find_victim_page writes *)
(* through its null pointer prev, or there is no swap frame, but the victim  *)
(* is off the list already.                                                  *)
NoPage(p) ==
  /\ ~PAGE_PRESENT(pgd[p])
  /\ \/ fifo_pgn = << >> /\ UNCHANGED <<fifo_pgn, state>>
     \/ Len(fifo_pgn) = 1 /\ state' = "crashed" /\ UNCHANGED fifo_pgn
     \/ /\ Len(fifo_pgn) > 1 /\ ~HasFreefp(mswp)
        /\ fifo_pgn' = Front(fifo_pgn)
        /\ UNCHANGED state
  /\ UNCHANGED <<pgd, mswp>>

InRam(addr) == addr < config.ram * PAGING_PAGESZ

(* MEMPHY_read and MEMPHY_write do not check the address: outside the device *)
(* the C program crashes or touches memory of unknown use.                   *)
Store(addr, data) ==
  \/ /\ InRam(addr)
     /\ mram' = MEMPHY_write(mram, addr, data)
     /\ UNCHANGED state
  \/ ~InRam(addr) /\ state' \in {"alive", "crashed"} /\ UNCHANGED mram

Load(addr) == /\ state' \in IF InRam(addr) THEN {state} ELSE {"alive", "crashed"}
              /\ UNCHANGED mram

(* Variant: the frame is taken from the entry as it was before pg_getpage.   *)
pg_setval_StaleEntry(p, cell) ==
  /\ \/ pg_getpage(p) /\ Store(Fpn(pgd[p]) * PAGING_PAGESZ + cell, p + 1)
     \/ NoPage(p) /\ UNCHANGED mram
  /\ UNCHANGED config

(* The byte is in the frame that the entry names after pg_getpage.           *)
pg_setval(p, cell) ==
  /\ \/ pg_getpage(p) /\ Store(Fpn(pgd'[p]) * PAGING_PAGESZ + cell, p + 1)
     \/ NoPage(p) /\ UNCHANGED mram
  /\ UNCHANGED config

pg_getval(p, cell) ==
  /\ \/ pg_getpage(p) /\ Load(Fpn(pgd'[p]) * PAGING_PAGESZ + cell)
     \/ NoPage(p) /\ UNCHANGED mram
  /\ UNCHANGED config

-----------------------------------------------------------------------------
(* One round of the loop of free_pcb_memph, on the two devices.              *)
PutFrame(mps, p) ==
  IF PAGE_PRESENT(pgd[p])
    THEN [mps EXCEPT !.ram = MEMPHY_put_freefp(@, Fpn(pgd[p]))]
    ELSE [mps EXCEPT !.swp = MEMPHY_put_freefp(@, Swpoff(pgd[p]))]

(* The loop of free_pcb_memph, from page first on.                           *)
FreedFrom(first) ==
  LET mps[k \in first .. NumPages] ==
        IF k = first THEN [ram |-> mram, swp |-> mswp] ELSE PutFrame(mps[k - 1], k - 1)
  IN  mps[NumPages]

(* Variant: the loop starts at page 1.                                       *)
free_pcb_memph_SkipsFirst ==
  /\ mram' = FreedFrom(1).ram /\ mswp' = FreedFrom(1).swp
  /\ state' = "freed"
  /\ UNCHANGED <<pgd, fifo_pgn, config>>

free_pcb_memph ==
  /\ mram' = FreedFrom(0).ram /\ mswp' = FreedFrom(0).swp
  /\ state' = "freed"
  /\ UNCHANGED <<pgd, fifo_pgn, config>>

Next == /\ state = "alive"
        /\ \/ \E p \in Pages : MapPage(p)
           \/ \E p \in Pages, cell \in Cells : pg_setval(p, cell) \/ pg_getval(p, cell)
           \/ free_pcb_memph

Spec == Init /\ [][Next]_vars

-----------------------------------------------------------------------------
(* Properties                                                                *)

RamInUse == {p \in Pages : IsResident(pgd[p])}
SwpInUse == {p \in Pages : IsSwapped(pgd[p])}

(* While a process lives each frame of a device has one owner: it is on the  *)
(* free list, once, or held by another process, or in the entry of one page, *)
(* as the entry's own bits tell.  A frame that is put back too early or twice*)
(* or cut out of an entry wrongly would get two: together the owners have    *)
(* every frame, and no more than there are.                                  *)
EachFrameOneOwner ==
  state = "alive" =>
    /\ Range(mram.free_fp_list) \cup {Fpn(pgd[p]) : p \in RamInUse} \cup RamTaken
         = 0 .. config.ram - 1
    /\ Len(mram.free_fp_list) + Cardinality(RamInUse) + config.ramTaken = config.ram
    /\ Range(mswp.free_fp_list) \cup {Swpoff(pgd[p]) : p \in SwpInUse} \cup SwpTaken
         = 0 .. config.swp - 1
    /\ Len(mswp.free_fp_list) + Cardinality(SwpInUse) + config.swpTaken = config.swp

(* The pages that pg_getpage may choose as victims, or has to: each is on    *)
(* the list once, and in RAM.  A page that is chosen while it is swapped     *)
(* would be swapped out from the frame its swap offset spells.               *)
VictimsAreResident ==
  state = "alive" =>
    /\ \A i, j \in DOMAIN fifo_pgn : i # j => fifo_pgn[i] # fifo_pgn[j]
    /\ \A i \in DOMAIN fifo_pgn : IsResident(pgd[fifo_pgn[i]])

(* The content of a page, through its entry, in RAM or in swap.              *)
Content(p) == IF IsSwapped(pgd[p]) THEN PageAt(mswp, Swpoff(pgd[p]))
                                   ELSE PageAt(mram, Fpn(pgd[p]))

(* A page that is swapped out has in its swap frame what it had in RAM, and  *)
(* keeps that whatever else is mapped, written and swapped out later, so     *)
(* that it could be brought back (docs.md:611).                              *)
SwapKeepsContent ==
  [][\A p \in Pages : IsSwapped(pgd'[p]) => Content(p)' = Content(p)]_vars

Writes(p) == \E cell \in Cells : pg_setval(p, cell)

(* A page that stays in RAM changes by a write to it or by a write to a      *)
(* swapped page, which goes astray, and by nothing else.                     *)
ResidentsKeepContent ==
  [][\A q \in Pages :
       IsResident(pgd[q]) /\ IsResident(pgd'[q]) /\ Content(q)' # Content(q)
         => \E p \in SwpInUse \cup {q} : Writes(p)]_vars

(* The frames of a device with a byte that a step changes.                   *)
Changed(old, new) == {a \div PAGING_PAGESZ : a \in
  {b \in DOMAIN new.storage : MEMPHY_read(new, b) # MEMPHY_read(old, b)}}

(* Nothing of a frame that another process holds is ever changed in swap,    *)
(* and in RAM only by the same stray writes.                                 *)
OthersUntouched ==
  [][/\ Changed(mswp, mswp') \cap SwpTaken = {}
     /\ Changed(mram, mram') \cap RamTaken # {} => \E p \in SwpInUse : Writes(p)]_vars

(* "Get the page to MEMRAM, swap from MEMSWAP if needed" (libmem.c:310),     *)
(* "get the page in ram" (libmem.c:215): when a byte of a page has been      *)
(* written the page is in RAM.                                               *)
GetsPageInRam ==
  [][\A p \in Pages, cell \in Cells :
       pg_setval(p, cell) /\ mram' # mram => IsResident(pgd'[p])]_vars

(* free_pcb_memph leaves no frame of RAM behind: every one that no other     *)
(* process holds can be handed out again.  More, as that each is on the list *)
(* once or that swap frames come back, cannot be said: it puts back swap     *)
(* frame 0 for every page never mapped, and a swapped page to the RAM.       *)
NoRamFrameLeaks ==
  state = "freed" => (0 .. config.ram - 1) \subseteq RamTaken \cup Range(mram.free_fp_list)
=============================================================================
