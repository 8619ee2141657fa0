-------------------------------- MODULE Paging --------------------------------
(***************************************************************************)
(* Reads and writes of paged memory by several threads: __read and __write *)
(* of libmem.c, with pg_getpage, find_victim_page, MEMPHY_get_freefp and   *)
(* enlist_pgn_node, down to their accesses to the nodes of the two lists   *)
(* they share, the pages in memory (fifo_pgn) and the free frames of the   *)
(* swap device.  __write holds mmvm_lock throughout, __read takes no lock. *)
(*                                                                         *)
(* pte_get_entry of mm64.c returns 0, so every access faults.  The pages   *)
(* that are in the list at first have been put there by vmap_page_range    *)
(* (open, mm64.c:259-261).  A thread that dereferences null, uses a node   *)
(* that is freed or frees it again ends the run: fault says how.           *)
(***************************************************************************)
EXTENDS Integers, Sequences, FiniteSets

CONSTANTS Threads, Pages, NULL,
          NumNodes,    \* nodes that malloc has for the list of pages
          NumFrames,   \* frames of the swap device
          FirstPages,  \* the lists of pages there may be at first
          Kinds,       \* the accesses that threads make, of those below
          MaxOps       \* bound: accesses of each thread

ASSUME NumbersAssumption == NumNodes \in Nat /\ NumFrames \in Nat /\ MaxOps \in Nat
ASSUME PagesAssumption   == Pages # {}
ASSUME NullAssumption    == NULL \notin Nat \cup Threads
ASSUME FirstAssumption   == \A l \in FirstPages : l \in Seq(Pages) /\ Len(l) <= NumNodes
ASSUME KindsAssumption   == Kinds \subseteq {"read", "write", "badRead", "badWrite"}

VARIABLES
  fifo_pgn, pg_next, pgn,     \* the list of pages: its head and its nodes
  live,                       \* the nodes that are allocated
  free_fp_list, liveFp,       \* free frames: the head, and the nodes allocated
  granted,                    \* the frames handed out, in order
  mmvm_lock,                  \* the thread that holds it, or NULL
  pc, op, ops,                \* where a thread is, its access, how many it made
  pg, prev, fp, pnode,        \* its local variables
  fault

listVars  == <<fifo_pgn, pg_next, pgn, live>>
swapVars  == <<free_fp_list, liveFp, granted>>
localVars == <<pg, prev, fp, pnode>>
vars == <<listVars, swapVars, mmvm_lock, pc, op, ops, localVars, fault>>

Nodes  == 1 .. NumNodes
Frames == 0 .. NumFrames - 1
Refs   == Nodes \cup {NULL}
Ops    == [kind : Kinds, page : Pages] \cup {NULL}
Pcs    == {"idle", "lock", "region", "find", "walk", "advance", "take", "unlink",
           "freePg", "getFp", "fpNext", "freeFp", "enlist", "head", "return"}

TypeOK ==
  /\ fifo_pgn \in Refs /\ pg_next \in [Nodes -> Refs] /\ pgn \in [Nodes -> Pages]
  /\ live \subseteq Nodes /\ liveFp \subseteq Frames
  /\ free_fp_list \in Frames \cup {NULL} /\ granted \in Seq(Frames)
  /\ mmvm_lock \in Threads \cup {NULL}
  /\ pc \in [Threads -> Pcs] /\ op \in [Threads -> Ops]
  /\ ops \in [Threads -> 0 .. MaxOps]
  /\ pg \in [Threads -> Refs] /\ prev \in [Threads -> Refs]
  /\ pnode \in [Threads -> Refs] /\ fp \in [Threads -> Frames \cup {NULL}]
  /\ fault \in {"none", "null", "dangling", "double free"}

(* Variant: the last frame points on.                                        *)
fp_next_NoEnd(f) == f + 1

(* The list of free frames as MEMPHY_format leaves it: the node of frame f   *)
(* points to that of the next frame.                                         *)
fp_next(f) == IF f + 1 \in Frames THEN f + 1 ELSE NULL

Init == /\ \E first \in FirstPages :
             /\ fifo_pgn = IF first = << >> THEN NULL ELSE 1
             /\ live = DOMAIN first
             /\ pg_next = [m \in Nodes |-> IF m < Len(first) THEN m + 1 ELSE NULL]
             /\ pgn = [m \in Nodes |-> IF m <= Len(first) THEN first[m]
                                       ELSE CHOOSE p \in Pages : TRUE]
        /\ free_fp_list = IF NumFrames = 0 THEN NULL ELSE 0
        /\ liveFp = Frames /\ granted = << >>
        /\ mmvm_lock = NULL
        /\ pc = [t \in Threads |-> "idle"]
        /\ op = [t \in Threads |-> NULL] /\ ops = [t \in Threads |-> 0]
        /\ pg = op /\ prev = op /\ fp = op /\ pnode = op
        /\ fault = "none"

At(t, l)   == fault = "none" /\ pc[t] = l
Goto(t, l) == pc' = [pc EXCEPT ![t] = l]

-----------------------------------------------------------------------------
(* __read and __write                                                        *)

(* libread and libwrite are called, for any page.                            *)
Begin(t) ==
  /\ At(t, "idle") /\ ops[t] < MaxOps
  /\ \E k \in Kinds, p \in Pages :
       /\ op' = [op EXCEPT ![t] = [kind |-> k, page |-> p]]
       /\ Goto(t, IF k \in {"read", "badRead"} THEN "region" ELSE "lock")
  /\ ops' = [ops EXCEPT ![t] = @ + 1]
  /\ UNCHANGED <<listVars, swapVars, mmvm_lock, localVars, fault>>

(* Variant: the lock does not exclude.                                       *)
Lock_NoWait(t) ==
  /\ At(t, "lock")
  /\ mmvm_lock' = t
  /\ Goto(t, "region")
  /\ UNCHANGED <<listVars, swapVars, op, ops, localVars, fault>>

(* Only __write locks.                                                       *)
Lock(t) ==
  /\ At(t, "lock") /\ mmvm_lock = NULL
  /\ mmvm_lock' = t
  /\ Goto(t, "region")
  /\ UNCHANGED <<listVars, swapVars, op, ops, localVars, fault>>

(* get_symrg_byid; __write returns when the region does not exist.  __read   *)
(* has no such test (Crash).                                                 *)
Region(t) ==
  /\ At(t, "region") /\ op[t].kind # "badRead"
  /\ Goto(t, IF op[t].kind = "badWrite" THEN "return" ELSE "find")
  /\ UNCHANGED <<listVars, swapVars, mmvm_lock, op, ops, localVars, fault>>

(* Whatever pg_getval or pg_setval has returned, the caller is told 0.       *)
Return(t) ==
  /\ At(t, "return")
  /\ mmvm_lock' = IF op[t].kind \in {"write", "badWrite"} THEN NULL ELSE mmvm_lock
  /\ Goto(t, "idle")
  /\ op' = [op EXCEPT ![t] = NULL]
  /\ pg' = [pg EXCEPT ![t] = NULL] /\ prev' = [prev EXCEPT ![t] = NULL]
  /\ fp' = [fp EXCEPT ![t] = NULL] /\ pnode' = [pnode EXCEPT ![t] = NULL]
  /\ UNCHANGED <<listVars, swapVars, ops, fault>>

-----------------------------------------------------------------------------
(* find_victim_page                                                          *)

(* An empty list: -1 up to the caller.                                       *)
Find(t) ==
  /\ At(t, "find")
  /\ pg' = [pg EXCEPT ![t] = fifo_pgn]
  /\ Goto(t, IF fifo_pgn = NULL THEN "return" ELSE "walk")
  /\ UNCHANGED <<listVars, swapVars, mmvm_lock, op, ops, prev, fp, pnode, fault>>

(* while (pg->pg_next)                                                       *)
Walk(t) ==
  /\ At(t, "walk") /\ pg[t] \in live
  /\ Goto(t, IF pg_next[pg[t]] # NULL THEN "advance" ELSE "take")
  /\ UNCHANGED <<listVars, swapVars, mmvm_lock, op, ops, localVars, fault>>

(* Variant: pg does not move on.                                             *)
Advance_Stays(t) ==
  /\ At(t, "advance") /\ pg[t] \in live
  /\ prev' = [prev EXCEPT ![t] = pg[t]]
  /\ Goto(t, "walk")
  /\ UNCHANGED <<listVars, swapVars, mmvm_lock, op, ops, pg, fp, pnode, fault>>

Advance(t) ==
  /\ At(t, "advance") /\ pg[t] \in live
  /\ prev' = [prev EXCEPT ![t] = pg[t]]
  /\ pg' = [pg EXCEPT ![t] = pg_next[pg[t]]]
  /\ Goto(t, "walk")
  /\ UNCHANGED <<listVars, swapVars, mmvm_lock, op, ops, fp, pnode, fault>>

(* *retpgn = pg->pgn, which no one uses yet.                                 *)
Take(t) ==
  /\ At(t, "take") /\ pg[t] \in live
  /\ Goto(t, "unlink")
  /\ UNCHANGED <<listVars, swapVars, mmvm_lock, op, ops, localVars, fault>>

(* Variant: the node before the victim still points to it.                   *)
Unlink_Omitted(t) ==
  /\ At(t, "unlink") /\ prev[t] \in live
  /\ Goto(t, "freePg")
  /\ UNCHANGED <<listVars, swapVars, mmvm_lock, op, ops, localVars, fault>>

Unlink(t) ==
  /\ At(t, "unlink") /\ prev[t] \in live
  /\ pg_next' = [pg_next EXCEPT ![prev[t]] = NULL]
  /\ Goto(t, "freePg")
  /\ UNCHANGED <<fifo_pgn, pgn, live, swapVars, mmvm_lock, op, ops, localVars, fault>>

(* Variant: the victim's node is not freed.                                  *)
FreePg_Omitted(t) ==
  /\ At(t, "freePg") /\ pg[t] \in live
  /\ Goto(t, "getFp")
  /\ UNCHANGED <<listVars, swapVars, mmvm_lock, op, ops, localVars, fault>>

FreePg(t) ==
  /\ At(t, "freePg") /\ pg[t] \in live
  /\ live' = live \ {pg[t]}
  /\ Goto(t, "getFp")
  /\ UNCHANGED <<fifo_pgn, pg_next, pgn, swapVars, mmvm_lock, op, ops, localVars, fault>>

-----------------------------------------------------------------------------
(* MEMPHY_get_freefp of the swap device                                      *)

(* No frame left: -1 up to the caller, and the victim is gone from the list. *)
GetFp(t) ==
  /\ At(t, "getFp")
  /\ fp' = [fp EXCEPT ![t] = free_fp_list]
  /\ Goto(t, IF free_fp_list = NULL THEN "return" ELSE "fpNext")
  /\ UNCHANGED <<listVars, swapVars, mmvm_lock, op, ops, pg, prev, pnode, fault>>

FpNext(t) ==
  /\ At(t, "fpNext") /\ fp[t] \in liveFp
  /\ granted' = Append(granted, fp[t])
  /\ free_fp_list' = fp_next(fp[t])
  /\ Goto(t, "freeFp")
  /\ UNCHANGED <<listVars, liveFp, mmvm_lock, op, ops, localVars, fault>>

FreeFp(t) ==
  /\ At(t, "freeFp") /\ fp[t] \in liveFp
  /\ liveFp' = liveFp \ {fp[t]}
  /\ Goto(t, "enlist")
  /\ UNCHANGED <<listVars, free_fp_list, granted, mmvm_lock, op, ops, localVars, fault>>

-----------------------------------------------------------------------------
(* enlist_pgn_node: malloc returns any free node.                            *)

(* Variant: the new node is put at the head without the list behind it.      *)
Enlist_NoNext(t) ==
  /\ At(t, "enlist")
  /\ \E m \in Nodes \ live :
       /\ live' = live \cup {m}
       /\ pgn' = [pgn EXCEPT ![m] = op[t].page]
       /\ pg_next' = [pg_next EXCEPT ![m] = NULL]
       /\ pnode' = [pnode EXCEPT ![t] = m]
  /\ Goto(t, "head")
  /\ UNCHANGED <<fifo_pgn, swapVars, mmvm_lock, op, ops, pg, prev, fp, fault>>

Enlist(t) ==
  /\ At(t, "enlist")
  /\ \E m \in Nodes \ live :
       /\ live' = live \cup {m}
       /\ pgn' = [pgn EXCEPT ![m] = op[t].page]
       /\ pg_next' = [pg_next EXCEPT ![m] = fifo_pgn]
       /\ pnode' = [pnode EXCEPT ![t] = m]
  /\ Goto(t, "head")
  /\ UNCHANGED <<fifo_pgn, swapVars, mmvm_lock, op, ops, pg, prev, fp, fault>>

SetHead(t) ==
  /\ At(t, "head")
  /\ fifo_pgn' = pnode[t]
  /\ Goto(t, "return")
  /\ UNCHANGED <<pg_next, pgn, live, swapVars, mmvm_lock, op, ops, localVars, fault>>

-----------------------------------------------------------------------------
(* The steps above that find a null pointer or freed memory instead.         *)
How(ref) == IF ref = NULL THEN "null" ELSE "dangling"

Crash(t) ==
  /\ fault = "none"
  /\ \/ /\ pc[t] = "region" /\ op[t].kind = "badRead"
        /\ fault' = "null"
     \/ /\ pc[t] \in {"walk", "advance", "take"} /\ pg[t] \notin live
        /\ fault' = How(pg[t])
     \/ /\ pc[t] = "unlink" /\ prev[t] \notin live
        /\ fault' = How(prev[t])
     \/ /\ pc[t] = "fpNext" /\ fp[t] \notin liveFp
        /\ fault' = "dangling"
     \/ /\ \/ pc[t] = "freePg" /\ pg[t] \notin live
           \/ pc[t] = "freeFp" /\ fp[t] \notin liveFp
        /\ fault' = "double free"
  /\ UNCHANGED <<listVars, swapVars, mmvm_lock, pc, op, ops, localVars>>

Step(t) == \/ Begin(t) \/ Lock(t) \/ Region(t) \/ Return(t)
           \/ Find(t) \/ Walk(t) \/ Advance(t) \/ Take(t) \/ Unlink(t) \/ FreePg(t)
           \/ GetFp(t) \/ FpNext(t) \/ FreeFp(t)
           \/ Enlist(t) \/ SetHead(t)
           \/ Crash(t)

(* The threads have made their accesses, or the program has crashed.         *)
Terminated == /\ fault # "none" \/ \A t \in Threads : pc[t] = "idle" /\ ops[t] = MaxOps
              /\ UNCHANGED vars

Next == Terminated \/ \E t \in Threads : Step(t)
Spec == Init /\ [][Next]_vars

(* The operating system runs every thread.  The mutex need not be fair: each *)
(* thread makes a bounded number of accesses.                                *)
FairSpec == Spec /\ \A t \in Threads : WF_vars(Step(t))

-----------------------------------------------------------------------------
(* Properties                                                                *)

(* The list of pages as a walk from its head finds it.                       *)
Queue ==
  LET node[k \in 0 .. NumNodes] ==
        IF k = 0 THEN fifo_pgn
        ELSE IF node[k - 1] = NULL THEN NULL ELSE pg_next[node[k - 1]]
      length == Cardinality({k \in 0 .. NumNodes - 1 : node[k] # NULL})
  IN  [k \in 1 .. length |-> pgn[node[k - 1]]]

(* The only way for locked accesses to crash is the null pointer of          *)
(* find_victim_page, with exactly one page in the list; in particular no     *)
(* node is used after it has been freed.                                     *)
CrashOnlyOnLastPage ==
  fault # "none" => fault = "null" /\ Len(Queue) = 1 /\ \E t \in Threads : pc[t] = "unlink"

(* No frame of the swap device is handed out twice: two pages swapped to it  *)
(* would overwrite each other.                                               *)
SwapFramesOnce == \A j, k \in DOMAIN granted : granted[j] = granted[k] => j = k

(* No memory is lost: a node that is allocated is in the list of pages, or a *)
(* thread is about to free or to link it; the frames not in liveFp have been *)
(* handed out.                                                               *)
NoNodeLeaks ==
  fault = "none" =>
    /\ Cardinality(live) =
         Len(Queue) + Cardinality({t \in Threads : pc[t] \in {"freePg", "head"}})
    /\ \A f \in Frames \ liveFp : \E k \in DOMAIN granted : granted[k] = f

(* An access whose victim found no swap frame costs the list a page, and only*)
(* such an access does.                                                      *)
Replacing == {t \in Threads : pc[t] \in {"freePg", "getFp", "fpNext", "freeFp", "enlist", "head"}}

PQ == INSTANCE PageQueue WITH queue <- Queue, replacing <- Replacing # {}

(* Locked accesses implement first-in first-out replacement, one at a time.  *)
ImplementsPageQueue == PQ!Spec

(* Every access that is made returns, unless the program crashes.            *)
AccessReturns == \A t \in Threads : (pc[t] = "lock") ~> (pc[t] = "idle" \/ fault # "none")
=============================================================================
