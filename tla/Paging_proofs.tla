----------------------------- MODULE Paging_proofs -----------------------------
(***************************************************************************)
(* Proofs about Paging, for any number of threads, pages, nodes and frames *)
(* and accesses.  All but type correctness are for accesses under          *)
(* mmvm_lock: of writes, which is all that __write guards (Locked).  The   *)
(* inductive invariant, IInv, says that a thread owns the lock from its    *)
(* region test to its return (LockInv), that the nodes in memory form a    *)
(* list which the thread inside walks from the head, and that all other    *)
(* allocated nodes are in its hands (ListInv), that the swap frames are    *)
(* handed out in order (SwapInv), and what a crash was (FaultInv).         *)
(***************************************************************************)
EXTENDS Paging, FiniteSetTheorems, SequenceTheorems, WellFoundedInduction, TLAPS

USE NumbersAssumption, NullAssumption, PagesAssumption

(* The nodes of the list of pages, in order.                                 *)
IsList(s) ==
  /\ s \in Seq(Nodes) /\ \A j, k \in 1 .. Len(s) : s[j] = s[k] => j = k
  /\ fifo_pgn = IF Len(s) = 0 THEN NULL ELSE s[1]
  /\ \A k \in 1 .. Len(s) : pg_next[s[k]] = IF k = Len(s) THEN NULL ELSE s[k + 1]

In(s) == {s[k] : k \in 1 .. Len(s)}

-----------------------------------------------------------------------------

(* Induction, as it is used below: a set of naturals has a least element.    *)
LEMMA LeastElement ==
  ASSUME NEW S, S \subseteq Nat, S # {}
  PROVE  \E m \in S : \A k \in S : m <= k
<1> DEFINE R == OpToRel(<, Nat)
<1>1. \A x, y \in Nat : x < y => <<x, y>> \in R
  BY DEF OpToRel
<1>2. IsWellFoundedOn(R, Nat)
  BY NatLessThanWellFounded
<1> HIDE DEF R
<1>3. PICK m \in S : \A k \in S : ~(<<k, m>> \in R)
  BY <1>2, WFMin
<1>4. \A k \in S : k \in Nat /\ m \in Nat /\ ~(k < m)
  BY <1>1, <1>3
<1>. QED
  BY <1>4

(* How many numbers an interval has.                                         *)
LEMMA IntervalSize ==
  ASSUME NEW n \in Nat
  PROVE  /\ IsFiniteSet(1 .. n) /\ Cardinality(1 .. n) = n
         /\ Cardinality(0 .. n - 1) = n
<1>1. 1 \in Int /\ n \in Int /\ 0 \in Int /\ n - 1 \in Int
  OBVIOUS
<1>2. /\ IsFiniteSet(1 .. n)
      /\ Cardinality(1 .. n) = IF 1 > n THEN 0 ELSE n - 1 + 1
      /\ Cardinality(0 .. n - 1) = IF 0 > n - 1 THEN 0 ELSE (n - 1) - 0 + 1
  BY <1>1, FS_Interval, Zenon
<1>. QED
  BY <1>2

(* Null is not a node.                                                       *)
LEMMA NullIsNoNode == NULL \notin Nodes
BY DEF Nodes

(* A list has as many nodes as elements, at most all nodes.                  *)
LEMMA ListSize ==
  ASSUME NEW s \in Seq(Nodes), \A j, k \in 1 .. Len(s) : s[j] = s[k] => j = k
  PROVE  /\ IsFiniteSet(In(s)) /\ Cardinality(In(s)) = Len(s)
         /\ Len(s) <= NumNodes
<1>1. s \in Bijection(1 .. Len(s), In(s))
  BY DEF In, Bijection, Injection, Surjection, IsInjective
<1>2. Len(s) \in Nat /\ IsFiniteSet(1 .. Len(s)) /\ Cardinality(1 .. Len(s)) = Len(s)
  BY IntervalSize
<1>3. IsFiniteSet(In(s)) /\ Cardinality(In(s)) = Len(s)
  BY <1>1, <1>2, FS_Bijection DEF ExistsBijection
<1>4. IsFiniteSet(Nodes) /\ Cardinality(Nodes) = NumNodes
  BY IntervalSize DEF Nodes
<1>5. In(s) \in SUBSET Nodes
  BY DEF In
<1>6. Cardinality(In(s)) <= Cardinality(Nodes)
  BY <1>4, <1>5, FS_Subset
<1>. QED
  BY <1>3, <1>4, <1>6

(* The walk from fifo_pgn along pg_next finds just the list: by induction on *)
(* the steps of the walk, node[k - 1] = s[k].                                *)
LEMMA QueueOfList ==
  ASSUME NEW s, IsList(s)
  PROVE  Queue = [k \in 1 .. Len(s) |-> pgn[s[k]]]
<1> DEFINE From(g, k) == IF k = 0 THEN fifo_pgn
                         ELSE IF g[k - 1] = NULL THEN NULL ELSE pg_next[g[k - 1]]
           node == CHOOSE g : g = [k \in 0 .. NumNodes |-> From(g, k)]
           length == Cardinality({k \in 0 .. NumNodes - 1 : node[k] # NULL})
           walk == [k \in 0 .. NumNodes |-> IF k < Len(s) THEN s[k + 1] ELSE NULL]
<1>1. /\ s \in Seq(Nodes) /\ Len(s) \in Nat /\ Len(s) <= NumNodes
      /\ \A k \in 1 .. Len(s) : s[k] \in Nodes /\ s[k] # NULL
  BY ListSize DEF IsList, Nodes
<1>2. walk = [k \in 0 .. NumNodes |-> From(walk, k)]
  <2>. SUFFICES ASSUME NEW k \in 0 .. NumNodes PROVE walk[k] = From(walk, k)
    OBVIOUS
  <2>1. CASE k = 0
    BY <2>1, <1>1 DEF IsList
  <2>2. CASE k # 0 /\ k - 1 < Len(s)
    <3>1. walk[k - 1] = s[k] /\ k \in 1 .. Len(s)
      BY <1>1, <2>2
    <3>. QED
      BY <3>1, <1>1, <2>2 DEF IsList
  <2>3. CASE k # 0 /\ ~(k - 1 < Len(s))
    BY <1>1, <2>3
  <2>. QED
    BY <2>1, <2>2, <2>3
<1>3. node = [k \in 0 .. NumNodes |-> From(node, k)]
  <2>. HIDE DEF walk, From
  <2>. QED
    BY <1>2
<1>. HIDE DEF node
<1>4. \A k \in 0 .. NumNodes : node[k] = walk[k]
  <2> DEFINE S == {k \in 0 .. NumNodes : node[k] # walk[k]}
  <2>1. SUFFICES ASSUME S # {} PROVE FALSE
    OBVIOUS
  <2>2. PICK m \in S : \A k \in S : m <= k
    <3>. S \subseteq Nat
      OBVIOUS
    <3>. HIDE DEF S
    <3>. QED
      BY <2>1, LeastElement
  <2>3. m # 0 => m - 1 \in 0 .. NumNodes /\ m - 1 \notin S
    BY <2>2
  <2>4. From(node, m) = From(walk, m)
    BY <2>3
  <2>. QED
    BY <1>2, <1>3, <2>2, <2>4
<1>5. length = Len(s)
  <2>1. {k \in 0 .. NumNodes - 1 : node[k] # NULL} = 0 .. Len(s) - 1
    BY <1>1, <1>4
  <2>. QED
    BY <1>1, <2>1, IntervalSize
<1>6. Queue = [k \in 1 .. length |-> pgn[node[k - 1]]]
  BY DEF Queue, node
<1>7. \A k \in 1 .. Len(s) : node[k - 1] = s[k]
  BY <1>1, <1>4
<1>. HIDE DEF length, walk
<1>. QED
  BY <1>5, <1>6, <1>7
-----------------------------------------------------------------------------
(* The inductive invariant                                                   *)

(* The accesses take mmvm_lock: they are __write's, not __read's             *)
(* (libmem.c:340, 388).                                                      *)
Locked == Kinds \subseteq {"write", "badWrite"}

(* An access that is under way is one that was asked for.                    *)
OpInv == \A t \in Threads : pc[t] # "idle" => op[t] \in [kind : Kinds, page : Pages]

(* A thread holds the lock exactly from its region test to its return; an    *)
(* access that is under way is one that was asked for, and a search begins   *)
(* without a node before the first.                                          *)
LockInv ==
  \A t \in Threads :
    /\ mmvm_lock = t <=> pc[t] \notin {"idle", "lock"}
    /\ pc[t] # "idle" => op[t] \in [kind : Kinds, page : Pages]
    /\ pc[t] \in {"idle", "lock", "region", "find"} => prev[t] = NULL

(* What a thread that searches, unlinks, frees or links a node knows of the  *)
(* list.                                                                     *)
WalkInv(s) ==
  \A t \in Threads :
    /\ pc[t] \in {"walk", "advance", "take", "unlink"} =>
         \E k \in 1 .. Len(s) :
           /\ pg[t] = s[k] /\ prev[t] = IF k = 1 THEN NULL ELSE s[k - 1]
           /\ pc[t] = "advance" => k < Len(s)
           /\ pc[t] \in {"take", "unlink"} => k = Len(s)
    /\ pc[t] = "freePg" => pg[t] \in Nodes \ In(s)
    /\ pc[t] = "head" => /\ pnode[t] \in Nodes \ In(s)
                         /\ pg_next[pnode[t]] = fifo_pgn
                         /\ pgn[pnode[t]] = op[t].page

(* The nodes that are allocated: those of the list, one that is unlinked and *)
(* not yet freed, one that is filled in and not yet linked.                  *)
LiveInv(s) ==
  \A m \in Nodes : m \in live <=> \/ m \in In(s)
                                  \/ \E t \in Threads : \/ pc[t] = "freePg" /\ pg[t] = m
                                                        \/ pc[t] = "head" /\ pnode[t] = m

ListInv == \E s \in Seq(Nodes) : IsList(s) /\ WalkInv(s) /\ LiveInv(s)

(* Frames are handed out from 0 upwards.                                     *)
Handed == IF free_fp_list = NULL THEN NumFrames ELSE free_fp_list

SwapInv ==
  /\ granted = [j \in 1 .. Handed |-> j - 1]
  /\ \A f \in Frames : f \in liveFp <=> \/ f >= Handed
                                        \/ \E t \in Threads : pc[t] = "freeFp" /\ fp[t] = f
  /\ \A t \in Threads : /\ pc[t] = "fpNext" => fp[t] \in Frames /\ fp[t] = free_fp_list
                        /\ pc[t] = "freeFp" => fp[t] \in Frames /\ fp[t] = Handed - 1

FaultInv ==
  fault # "none" => fault = "null" /\ \E t \in Threads : pc[t] = "unlink" /\ prev[t] = NULL

IInv == TypeOK /\ LockInv /\ ListInv /\ SwapInv /\ FaultInv

-----------------------------------------------------------------------------

(* At first the list is nodes 1, 2, ... and no thread is inside.             *)
LEMMA InitIInv == Init => IInv
<1>. SUFFICES ASSUME Init PROVE IInv
  OBVIOUS
<1>1. PICK first \in FirstPages :
        /\ fifo_pgn = IF first = << >> THEN NULL ELSE 1
        /\ live = DOMAIN first
        /\ pg_next = [m \in Nodes |-> IF m < Len(first) THEN m + 1 ELSE NULL]
        /\ pgn = [m \in Nodes |-> IF m <= Len(first) THEN first[m]
                                  ELSE CHOOSE p \in Pages : TRUE]
  BY DEF Init
<1>2. first \in Seq(Pages) /\ Len(first) \in Nat /\ Len(first) <= NumNodes
      /\ DOMAIN first = 1 .. Len(first)
  BY FirstAssumption
<1>3. fifo_pgn = IF Len(first) = 0 THEN NULL ELSE 1
  BY <1>1, <1>2
<1>4. \A k \in 1 .. Len(first) : first[k] \in Pages
  BY <1>2
<1>5. (CHOOSE p \in Pages : TRUE) \in Pages
  OBVIOUS
<1>6. TypeOK
  <2>1. pgn \in [Nodes -> Pages]
    BY <1>1, <1>2, <1>4, <1>5 DEF Nodes
  <2>2. fifo_pgn \in Refs /\ pg_next \in [Nodes -> Refs] /\ live \subseteq Nodes
    BY <1>1, <1>2, <1>3 DEF Nodes, Refs
  <2>3. free_fp_list \in Frames \cup {NULL} /\ granted \in Seq(Frames) /\ liveFp = Frames
    BY DEF Init, Frames
  <2>. QED
    BY <2>1, <2>2, <2>3 DEF Init, TypeOK, Pcs, Ops, Refs
<1>7. ListInv
  <2> DEFINE s == [k \in 1 .. Len(first) |-> k]
  <2>1. s \in Seq(Nodes) /\ Len(s) = Len(first) /\ \A k \in 1 .. Len(s) : s[k] = k
    BY <1>2 DEF Nodes
  <2>. HIDE DEF s
  <2>2. In(s) = 1 .. Len(first)
    BY <1>2, <2>1 DEF In
  <2>3. IsList(s)
    <3>1. fifo_pgn = IF Len(s) = 0 THEN NULL ELSE s[1]
      BY <1>2, <1>3, <2>1
    <3>2. \A k \in 1 .. Len(s) : pg_next[s[k]] = IF k = Len(s) THEN NULL ELSE s[k + 1]
      <4>. SUFFICES ASSUME NEW k \in 1 .. Len(s)
                    PROVE  pg_next[s[k]] = IF k = Len(s) THEN NULL ELSE s[k + 1]
        OBVIOUS
      <4>1. k \in Nodes /\ k \in 1 .. Len(first) /\ (k # Len(s) => k + 1 \in 1 .. Len(s))
        <5>1. k \in 1 .. Len(first)
          BY <2>1
        <5>2. k <= Len(first) /\ k \in Nat /\ 1 <= k /\ Len(first) <= NumNodes /\ NumNodes \in Nat
          BY <5>1, <1>2
        <5>3. k # Len(s) => k + 1 \in 1 .. Len(s)
          BY <5>2, <2>1
        <5>. QED
          BY <5>1, <5>2, <5>3 DEF Nodes
      <4>2. s[k] = k /\ (k # Len(s) => s[k + 1] = k + 1)
        BY <2>1, <4>1
      <4>3. pg_next[k] = IF k < Len(first) THEN k + 1 ELSE NULL
        BY <1>1, <4>1
      <4>. QED
        BY <2>1, <4>1, <4>2, <4>3, <1>2
    <3>. QED
      BY <2>1, <3>1, <3>2 DEF IsList
  <2>4. WalkInv(s) /\ LiveInv(s)
    BY <1>1, <1>2, <2>2 DEF WalkInv, LiveInv, Init
  <2>. QED
    BY <2>1, <2>3, <2>4 DEF ListInv
<1>8. LockInv /\ FaultInv
  BY DEF Init, LockInv, FaultInv
<1>9. SwapInv
  <2>1. Handed = 0
    BY DEF Handed, Init
  <2>. QED
    BY <2>1 DEF SwapInv, Init, Frames
<1>. QED
  BY <1>6, <1>7, <1>8, <1>9 DEF IInv

(* What each step assigns has its type.                                      *)
LEMMA TypeStep == TypeOK /\ OpInv /\ [Next]_vars => TypeOK'
<1>. SUFFICES ASSUME TypeOK, OpInv, [Next]_vars PROVE TypeOK'
  OBVIOUS
<1>. USE DEF TypeOK, At, Goto, Pcs, listVars, swapVars, localVars
<1>1. ASSUME NEW t \in Threads, Begin(t) PROVE TypeOK'
  BY <1>1 DEF Begin, Ops
<1>2. ASSUME NEW t \in Threads, Lock(t) \/ Region(t) \/ Return(t) PROVE TypeOK'
  BY <1>2 DEF Lock, Region, Return, Refs, Ops
<1>3. ASSUME NEW t \in Threads, Find(t) \/ Walk(t) \/ Take(t) \/ FreePg(t) PROVE TypeOK'
  <2>1. CASE Find(t)
    BY <2>1 DEF Find
  <2>2. CASE Walk(t)
    BY <2>2 DEF Walk
  <2>3. CASE Take(t)
    BY <2>3 DEF Take
  <2>4. CASE FreePg(t)
    BY <2>4 DEF FreePg
  <2>. QED
    BY <1>3, <2>1, <2>2, <2>3, <2>4
<1>4. ASSUME NEW t \in Threads, Advance(t) PROVE TypeOK'
  <2>1. pg[t] \in Nodes /\ pg_next[pg[t]] \in Refs /\ pg[t] \in Refs
    BY <1>4 DEF Advance, Refs
  <2>. QED
    BY <1>4, <2>1 DEF Advance
<1>5. ASSUME NEW t \in Threads, Unlink(t) PROVE TypeOK'
  BY <1>5 DEF Unlink, Refs
<1>6. ASSUME NEW t \in Threads, GetFp(t) \/ FreeFp(t) PROVE TypeOK'
  <2>1. CASE GetFp(t)
    BY <2>1 DEF GetFp
  <2>2. CASE FreeFp(t)
    BY <2>2 DEF FreeFp
  <2>. QED
    BY <1>6, <2>1, <2>2
<1>7. ASSUME NEW t \in Threads, FpNext(t) PROVE TypeOK'
  <2>1. fp[t] \in Frames /\ fp_next(fp[t]) \in Frames \cup {NULL}
    BY <1>7 DEF FpNext, fp_next
  <2>2. granted' \in Seq(Frames)
    <3>1. granted \in Seq(Frames) /\ granted' = Append(granted, fp[t])
      BY <1>7 DEF FpNext
    <3>. HIDE DEF TypeOK
    <3>. QED
      BY <2>1, <3>1, AppendProperties
  <2>. QED
    BY <1>7, <2>1, <2>2 DEF FpNext
<1>8. ASSUME NEW t \in Threads, Enlist(t) PROVE TypeOK'
  <2>1. op[t].page \in Pages
    BY <1>8 DEF Enlist, OpInv
  <2>. QED
    BY <1>8, <2>1 DEF Enlist, Refs
<1>9. ASSUME NEW t \in Threads, SetHead(t) PROVE TypeOK'
  BY <1>9 DEF SetHead
<1>10. ASSUME NEW t \in Threads, Crash(t) PROVE TypeOK'
  BY <1>10 DEF Crash, How
<1>11. CASE UNCHANGED vars
  BY <1>11 DEF vars
<1>. QED
  BY <1>1, <1>2, <1>3, <1>4, <1>5, <1>6, <1>7, <1>8, <1>9, <1>10, <1>11
  DEF Next, Step, Terminated

(* The access of a thread stays until its return.                            *)
LEMMA OpStep == TypeOK /\ OpInv /\ [Next]_vars => OpInv'
<1>. SUFFICES ASSUME TypeOK, OpInv, [Next]_vars PROVE OpInv'
  OBVIOUS
<1>1. ASSUME NEW t \in Threads, Begin(t) PROVE OpInv'
  <2>1. PICK o \in [kind : Kinds, page : Pages] : op' = [op EXCEPT ![t] = o]
    <3>1. PICK k \in Kinds, p \in Pages : op' = [op EXCEPT ![t] = [kind |-> k, page |-> p]]
      BY <1>1 DEF Begin
    <3>. QED
      BY <3>1
  <2>2. \A u \in Threads \ {t} : pc'[u] = pc[u]
    BY <1>1 DEF Begin, Goto, TypeOK
  <2>. QED
    BY <2>1, <2>2 DEF OpInv, TypeOK
<1>2. ASSUME NEW t \in Threads, Return(t) PROVE OpInv'
  BY <1>2 DEF Return, Goto, OpInv, TypeOK
<1>3. ASSUME NEW t \in Threads, Step(t), ~Begin(t), ~Return(t)
      PROVE  op' = op /\ \A u \in Threads : pc[u] = "idle" => pc'[u] = "idle"
  <2>. USE DEF At, Goto, TypeOK
  <2>1. CASE Lock(t) \/ Region(t)
    BY <2>1 DEF Lock, Region
  <2>2. CASE Find(t) \/ Walk(t) \/ Advance(t)
    BY <2>2 DEF Find, Walk, Advance
  <2>3. CASE Take(t) \/ Unlink(t) \/ FreePg(t)
    BY <2>3 DEF Take, Unlink, FreePg
  <2>4. CASE GetFp(t) \/ FpNext(t) \/ FreeFp(t)
    BY <2>4 DEF GetFp, FpNext, FreeFp
  <2>5. CASE Enlist(t) \/ SetHead(t) \/ Crash(t)
    BY <2>5 DEF Enlist, SetHead, Crash
  <2>. QED
    BY <1>3, <2>1, <2>2, <2>3, <2>4, <2>5 DEF Step
<1>4. CASE UNCHANGED vars
  BY <1>4 DEF vars, OpInv
<1>. QED
  BY <1>1, <1>2, <1>3, <1>4 DEF Next, Terminated, OpInv

(* Without reads, a thread is inside only with the lock.                     *)
LEMMA LockStep == Locked /\ IInv /\ [Next]_vars => LockInv'
<1>. SUFFICES ASSUME Locked, IInv, [Next]_vars PROVE LockInv'
  OBVIOUS
<1>. USE DEF IInv, TypeOK, LockInv, At, Goto, localVars, Locked
<1>1. ASSUME NEW t \in Threads, Begin(t) PROVE LockInv'
  BY <1>1 DEF Begin
<1>2. ASSUME NEW t \in Threads, Lock(t) PROVE LockInv'
  BY <1>2 DEF Lock
<1>3. ASSUME NEW t \in Threads, Region(t) PROVE LockInv'
  BY <1>3 DEF Region
<1>4. ASSUME NEW t \in Threads, Return(t) PROVE LockInv'
  BY <1>4 DEF Return
<1>5. ASSUME NEW t \in Threads, Find(t) PROVE LockInv'
  BY <1>5 DEF Find
<1>6. ASSUME NEW t \in Threads, Walk(t) PROVE LockInv'
  BY <1>6 DEF Walk
<1>7. ASSUME NEW t \in Threads, Advance(t) PROVE LockInv'
  BY <1>7 DEF Advance
<1>8. ASSUME NEW t \in Threads, Take(t) PROVE LockInv'
  BY <1>8 DEF Take
<1>9. ASSUME NEW t \in Threads, Unlink(t) PROVE LockInv'
  BY <1>9 DEF Unlink
<1>10. ASSUME NEW t \in Threads, FreePg(t) PROVE LockInv'
  BY <1>10 DEF FreePg
<1>11. ASSUME NEW t \in Threads, GetFp(t) PROVE LockInv'
  BY <1>11 DEF GetFp
<1>12. ASSUME NEW t \in Threads, FpNext(t) PROVE LockInv'
  BY <1>12 DEF FpNext
<1>13. ASSUME NEW t \in Threads, FreeFp(t) PROVE LockInv'
  BY <1>13 DEF FreeFp
<1>14. ASSUME NEW t \in Threads, Enlist(t) PROVE LockInv'
  BY <1>14 DEF Enlist
<1>15. ASSUME NEW t \in Threads, SetHead(t) PROVE LockInv'
  BY <1>15 DEF SetHead
<1>16. ASSUME NEW t \in Threads, Crash(t) PROVE LockInv'
  BY <1>16 DEF Crash
<1>17. CASE UNCHANGED vars
  BY <1>17 DEF vars
<1>. QED
  BY <1>1, <1>2, <1>3, <1>4, <1>5, <1>6, <1>7, <1>8, <1>9, <1>10, <1>11, <1>12, <1>13, <1>14, <1>15, <1>16, <1>17
  DEF Next, Step, Terminated

(* The thread inside is the only one.                                        *)
LEMMA Alone ==
  ASSUME LockInv, NEW t \in Threads, pc[t] \notin {"idle", "lock"}
  PROVE  \A u \in Threads \ {t} : pc[u] \in {"idle", "lock"}
BY DEF LockInv

(* A step that leaves the nodes alone.                                       *)
LEMMA ListKept ==
  ASSUME NEW s \in Seq(Nodes), IsList(s), LiveInv(s), UNCHANGED listVars,
         \A u \in Threads : /\ pc'[u] = "freePg" <=> pc[u] = "freePg"
                            /\ pc'[u] = "head" <=> pc[u] = "head"
                            /\ pc[u] = "freePg" => pg'[u] = pg[u]
                            /\ pc[u] = "head" => pnode'[u] = pnode[u],
         WalkInv(s)'
  PROVE  ListInv'
<1>1. IsList(s)'
  BY DEF IsList, listVars
<1>2. LiveInv(s)'
  BY DEF LiveInv, listVars
<1>. QED
  BY <1>1, <1>2 DEF ListInv

(* The list without its last node, as find_victim_page leaves it.            *)
LEMMA UnlinkList ==
  ASSUME TypeOK, NEW s \in Seq(Nodes), IsList(s), WalkInv(s),
         NEW t \in Threads, Unlink(t)
  PROVE  /\ pg[t] = s[Len(s)] /\ Len(s) >= 2
         /\ \E r \in Seq(Nodes) :
              IsList(r)' /\ Len(r) = Len(s) - 1 /\ \A k \in 1 .. Len(r) : r[k] = s[k]
<1>size. Len(s) \in Nat /\ \A k \in 1 .. Len(s) : s[k] \in Nodes
  OBVIOUS
<1>step. TypeOK /\ WalkInv(s) /\ Unlink(t)
  OBVIOUS
<1>list. IsList(s)
  OBVIOUS
<1>. USE DEF At, Goto
<1> DEFINE r == [k \in 1 .. Len(s) - 1 |-> s[k]]
<1>1. pg[t] = s[Len(s)] /\ Len(s) >= 2 /\ prev[t] = s[Len(s) - 1]
  <2>1. PICK k \in 1 .. Len(s) :
          pg[t] = s[k] /\ prev[t] = (IF k = 1 THEN NULL ELSE s[k - 1]) /\ k = Len(s)
    BY <1>step DEF TypeOK, Unlink, WalkInv
  <2>2. prev[t] # NULL
    <3>1. prev[t] \in live /\ live \subseteq Nodes
      BY <1>step DEF TypeOK, Unlink
    <3>. QED
      BY <3>1, NullIsNoNode
  <2>3. k # 1
    BY <2>1, <2>2
  <2>4. k >= 2
    BY <1>size, <2>3
  <2>. QED
    BY <2>1, <2>3, <2>4
<1>2. r \in Seq(Nodes) /\ Len(r) = Len(s) - 1 /\ \A k \in 1 .. Len(r) : r[k] = s[k]
  BY <1>size, <1>1
<1>. HIDE DEF r
<1>3. IsList(r)'
  <2>1. fifo_pgn' = s[1] /\ 1 \in 1 .. Len(r) /\ r[1] = s[1]
    BY <1>size, <1>1, <1>2, <1>list, <1>step DEF TypeOK, IsList, Unlink
  <2>2. \A j, k \in 1 .. Len(r) : r[j] = r[k] => j = k
    BY <1>size, <1>2, <1>list DEF IsList
  <2>3. ASSUME NEW k \in 1 .. Len(r)
        PROVE  pg_next'[r[k]] = IF k = Len(r) THEN NULL ELSE r[k + 1]
    <3>1. k \in 1 .. Len(s) /\ k # Len(s) /\ r[k] = s[k] /\ r[k] \in Nodes
      BY <1>size, <1>2
    <3>2. CASE k = Len(r)
      BY <1>step, <1>1, <1>2, <3>1, <3>2 DEF TypeOK, Unlink
    <3>3. CASE k # Len(r)
      <4>1. k + 1 \in 1 .. Len(r) /\ r[k + 1] = s[k + 1] /\ pg_next[s[k]] = s[k + 1]
        BY <1>size, <1>2, <1>list, <3>1, <3>3 DEF IsList
      <4>2. Len(s) - 1 \in 1 .. Len(s) /\ k # Len(s) - 1
        BY <1>size, <1>1, <1>2, <3>3
      <4>3. prev[t] # s[k]
        BY <1>list, <1>1, <3>1, <4>2 DEF IsList
      <4>. QED
        BY <1>step, <3>1, <3>3, <4>1, <4>3 DEF TypeOK, Unlink
    <3>. QED
      BY <3>2, <3>3
  <2>. QED
    BY <1>size, <1>1, <1>2, <2>1, <2>2, <2>3 DEF IsList
<1>. QED
  BY <1>1, <1>2, <1>3

(* A node that is not in the list changes without the list.                  *)
LEMMA EnlistList ==
  ASSUME NEW s \in Seq(Nodes), IsList(s), LiveInv(s), NEW m \in Nodes \ live,
         pg_next \in [Nodes -> Refs], UNCHANGED fifo_pgn,
         pg_next' = [pg_next EXCEPT ![m] = fifo_pgn]
  PROVE  m \notin In(s) /\ IsList(s)'
<1>1. m \notin In(s) /\ \A k \in 1 .. Len(s) : s[k] \in Nodes /\ s[k] # m
  BY DEF LiveInv, In
<1>. QED
  BY <1>1 DEF IsList

(* The list with a new head, as enlist_pgn_node leaves it.                   *)
LEMMA SetHeadList ==
  ASSUME NEW s \in Seq(Nodes), IsList(s), WalkInv(s), NEW t \in Threads, SetHead(t)
  PROVE  \E r \in Seq(Nodes) :
           /\ IsList(r)' /\ Len(r) = Len(s) + 1
           /\ r[1] = pnode[t] /\ \A k \in 1 .. Len(s) : r[k + 1] = s[k]
<1>. USE DEF At
<1>0. Len(s) \in Nat /\ (\A k \in 1 .. Len(s) : s[k] \in Nodes)
      /\ \A k \in 1 .. Len(s) : s[k] \in In(s)
  BY DEF In
<1>1. pnode[t] \in Nodes \ In(s) /\ pg_next[pnode[t]] = fifo_pgn
  BY DEF SetHead, WalkInv
<1>2. PICK r \in Seq(Nodes) :
        /\ Len(r) = Len(s) + 1
        /\ r[1] = pnode[t] /\ \A k \in 1 .. Len(s) : r[k + 1] = s[k]
  <2> DEFINE r == [k \in 1 .. Len(s) + 1 |-> IF k = 1 THEN pnode[t] ELSE s[k - 1]]
  <2>1. /\ r \in Seq(Nodes) /\ Len(r) = Len(s) + 1
        /\ r[1] = pnode[t] /\ \A k \in 1 .. Len(s) : r[k + 1] = s[k]
    BY <1>0, <1>1
  <2>. QED
    BY <2>1
<1>3. IsList(r)'
  <2>1. ASSUME NEW k \in 1 .. Len(r), k # 1
        PROVE  k - 1 \in 1 .. Len(s) /\ r[k] = s[k - 1]
    <3>1. k - 1 \in 1 .. Len(s) /\ (k - 1) + 1 = k
      BY <1>0, <1>2, <2>1
    <3>. QED
      BY <1>2, <3>1
  <2>2. ASSUME NEW j \in 1 .. Len(r), NEW k \in 1 .. Len(r), r[j] = r[k] PROVE j = k
    <3>1. \A i \in 1 .. Len(s) : s[i] # pnode[t]
      BY <1>0, <1>1
    <3>2. j = 1 <=> k = 1
      <4>1. j = 1 => k = 1
        BY <1>2, <2>1, <2>2, <3>1
      <4>2. k = 1 => j = 1
        <5>. SUFFICES ASSUME k = 1, j # 1 PROVE FALSE
          OBVIOUS
        <5>1. j - 1 \in 1 .. Len(s) /\ r[j] = s[j - 1]
          BY <2>1
        <5>. QED
          BY <1>2, <2>2, <3>1, <5>1
      <4>. QED
        BY <4>1, <4>2
    <3>3. CASE j # 1 /\ k # 1
      <4>1. j - 1 = k - 1
        BY <2>1, <2>2, <3>3 DEF IsList
      <4>. QED
        BY <4>1
    <3>. QED
      BY <3>2, <3>3
  <2>3. ASSUME NEW k \in 1 .. Len(r)
        PROVE  pg_next[r[k]] = IF k = Len(r) THEN NULL ELSE r[k + 1]
    <3>1. CASE k = 1
      <4>1. CASE Len(s) = 0
        BY <1>1, <1>2, <3>1, <4>1 DEF IsList
      <4>2. CASE Len(s) # 0
        <5>1. 1 \in 1 .. Len(s) /\ r[1 + 1] = s[1]
          BY <1>0, <1>2, <4>2
        <5>. QED
          BY <1>0, <1>1, <1>2, <3>1, <4>2, <5>1 DEF IsList
      <4>. QED
        BY <4>1, <4>2
    <3>2. CASE k # 1
      <4>1. k - 1 \in 1 .. Len(s) /\ r[k] = s[k - 1]
        BY <2>1, <3>2
      <4>2. pg_next[s[k - 1]] = IF k - 1 = Len(s) THEN NULL ELSE s[(k - 1) + 1]
        BY <4>1 DEF IsList
      <4>3. CASE k = Len(r)
        BY <1>0, <1>2, <4>1, <4>2, <4>3
      <4>4. CASE k # Len(r)
        <5>1. k \in 1 .. Len(s) /\ (k - 1) + 1 = k /\ k - 1 # Len(s)
          BY <1>0, <1>2, <4>4
        <5>. QED
          BY <1>2, <4>1, <4>2, <4>4, <5>1
      <4>. QED
        BY <4>3, <4>4
    <3>. QED
      BY <3>1, <3>2
  <2>4. Len(r) # 0 /\ fifo_pgn' = r[1] /\ pg_next' = pg_next
    BY <1>0, <1>2 DEF SetHead
  <2>5. \A j, k \in 1 .. Len(r) : r[j] = r[k] => j = k
    BY <2>2
  <2>6. \A k \in 1 .. Len(r) : pg_next[r[k]] = IF k = Len(r) THEN NULL ELSE r[k + 1]
    BY <2>3
  <2>. QED
    BY <1>2, <2>4, <2>5, <2>6 DEF IsList
<1>. QED
  BY <1>2, <1>3

(* The list, and what the thread inside knows of it, step by step.           *)
LEMMA ListStep == IInv /\ [Next]_vars => ListInv'
<1>. SUFFICES ASSUME IInv, [Next]_vars PROVE ListInv'
  OBVIOUS
<1>1. PICK s \in Seq(Nodes) : IsList(s) /\ WalkInv(s) /\ LiveInv(s)
  BY DEF IInv, ListInv
<1>2. TypeOK /\ LockInv
  BY DEF IInv
<1>3. /\ Len(s) \in Nat /\ \A k \in 1 .. Len(s) : s[k] \in Nodes
      /\ In(s) \subseteq Nodes /\ \A k \in 1 .. Len(s) : s[k] \in In(s)
  BY DEF In
<1>. USE DEF At, Goto, TypeOK
<1>4. ASSUME NEW t \in Threads, Begin(t) PROVE ListInv'
  <2>1. WalkInv(s)'
    BY <1>1, <1>2, <1>4 DEF Begin, WalkInv, listVars, localVars
  <2>. QED
    BY <1>1, <1>2, <1>4, <2>1, ListKept DEF Begin, localVars
<1>5. ASSUME NEW t \in Threads, Lock(t) PROVE ListInv'
  <2>1. WalkInv(s)'
    BY <1>1, <1>2, <1>5 DEF Lock, WalkInv, listVars, localVars
  <2>. QED
    BY <1>1, <1>2, <1>5, <2>1, ListKept DEF Lock, localVars
<1>6. ASSUME NEW t \in Threads, Region(t) PROVE ListInv'
  <2>1. WalkInv(s)'
    BY <1>1, <1>2, <1>6 DEF Region, WalkInv, listVars, localVars
  <2>. QED
    BY <1>1, <1>2, <1>6, <2>1, ListKept DEF Region, localVars
<1>7. ASSUME NEW t \in Threads, Return(t) PROVE ListInv'
  <2>1. WalkInv(s)'
    BY <1>1, <1>2, <1>7 DEF Return, WalkInv, listVars
  <2>. QED
    BY <1>1, <1>2, <1>7, <2>1, ListKept DEF Return
<1>8. ASSUME NEW t \in Threads, Find(t) PROVE ListInv'
  <2>1. prev[t] = NULL
    BY <1>2, <1>8 DEF Find, LockInv
  <2>2. fifo_pgn # NULL => 1 \in 1 .. Len(s) /\ fifo_pgn = s[1]
    BY <1>1, <1>3 DEF IsList
  <2>3. WalkInv(s)'
    <3>1. \A u \in Threads \ {t} : pc'[u] = pc[u] /\ pg'[u] = pg[u]
      BY <1>8 DEF Find
    <3>2. pc'[t] = "walk" => fifo_pgn # NULL /\ pg'[t] = fifo_pgn /\ prev'[t] = NULL
      BY <1>2, <1>8, <2>1 DEF Find
    <3>3. pc'[t] \in {"walk", "return"}
      BY <1>2, <1>8 DEF Find
    <3>. QED
      BY <1>1, <1>8, <2>2, <3>1, <3>2, <3>3 DEF Find, WalkInv, listVars
  <2>. QED
    BY <1>1, <1>2, <1>8, <2>3, ListKept DEF Find
<1>9. ASSUME NEW t \in Threads, Walk(t) PROVE ListInv'
  <2>1. PICK k \in 1 .. Len(s) : pg[t] = s[k] /\ prev[t] = IF k = 1 THEN NULL ELSE s[k - 1]
    BY <1>1, <1>9 DEF Walk, WalkInv
  <2>2. pg_next[pg[t]] # NULL <=> k < Len(s)
    BY <1>1, <1>3, <2>1, NullAssumption DEF IsList, Nodes
  <2>3. \A u \in Threads \ {t} : pc'[u] = pc[u]
    BY <1>9 DEF Walk
  <2>4. WalkInv(s)'
    BY <1>1, <1>2, <1>3, <1>9, <2>1, <2>2, <2>3 DEF Walk, WalkInv, listVars, localVars
  <2>. QED
    BY <1>1, <1>2, <1>9, <2>4, ListKept DEF Walk, localVars
<1>10. ASSUME NEW t \in Threads, Advance(t) PROVE ListInv'
  <2>1. PICK k \in 1 .. Len(s) : pg[t] = s[k] /\ k < Len(s)
    BY <1>1, <1>10 DEF Advance, WalkInv
  <2>2. pg'[t] = s[k + 1] /\ prev'[t] = s[k] /\ k + 1 \in 1 .. Len(s)
    BY <1>1, <1>2, <1>3, <1>10, <2>1 DEF Advance, IsList
  <2>3. WalkInv(s)'
    BY <1>1, <1>2, <1>3, <1>10, <2>2 DEF Advance, WalkInv, listVars
  <2>. QED
    BY <1>1, <1>2, <1>10, <2>3, ListKept DEF Advance
<1>11. ASSUME NEW t \in Threads, Take(t) PROVE ListInv'
  <2>1. WalkInv(s)'
    BY <1>1, <1>2, <1>11 DEF Take, WalkInv, listVars, localVars
  <2>. QED
    BY <1>1, <1>2, <1>11, <2>1, ListKept DEF Take, localVars
<1>12. ASSUME NEW t \in Threads, Unlink(t) PROVE ListInv'
  <2>1. pg[t] = s[Len(s)] /\ Len(s) >= 2
    BY <1>1, <1>2, <1>12, UnlinkList
  <2>2. PICK r \in Seq(Nodes) :
          IsList(r)' /\ Len(r) = Len(s) - 1 /\ \A k \in 1 .. Len(r) : r[k] = s[k]
    BY <1>1, <1>2, <1>12, UnlinkList
  <2>4. In(s) = In(r) \cup {s[Len(s)]} /\ s[Len(s)] \notin In(r)
    <3>1. Len(r) = Len(s) - 1 /\ \A k \in 1 .. Len(r) : r[k] = s[k]
      BY <2>2
    <3>2. \A j, k \in 1 .. Len(s) : s[j] = s[k] => j = k
      BY <1>1 DEF IsList
    <3>3. \A k \in 1 .. Len(s) : k = Len(s) \/ k \in 1 .. Len(r)
      BY <1>3, <2>1, <3>1
    <3>4. \A k \in 1 .. Len(r) : k \in 1 .. Len(s) /\ k # Len(s)
      BY <1>3, <2>1, <3>1
    <3>5. Len(s) \in 1 .. Len(s)
      BY <1>3, <2>1
    <3>6. In(s) \subseteq In(r) \cup {s[Len(s)]}
      BY <3>1, <3>3 DEF In
    <3>7. In(r) \cup {s[Len(s)]} \subseteq In(s)
      BY <3>1, <3>4, <3>5 DEF In
    <3>8. s[Len(s)] \notin In(r)
      BY <3>1, <3>2, <3>4, <3>5 DEF In
    <3>. QED
      BY <3>6, <3>7, <3>8
  <2>5. \A u \in Threads \ {t} : pc'[u] = pc[u] /\ pc[u] \in {"idle", "lock"}
    BY <1>2, <1>12, Alone DEF Unlink
  <2>6. pc'[t] = "freePg" /\ pc[t] = "unlink"
    BY <1>2, <1>12 DEF Unlink
  <2>7. WalkInv(r)'
    BY <1>3, <1>12, <2>1, <2>4, <2>5, <2>6 DEF Unlink, WalkInv, localVars
  <2>8. LiveInv(r)'
    BY <1>1, <1>3, <1>12, <2>1, <2>4, <2>5, <2>6 DEF Unlink, LiveInv, localVars
  <2>. QED
    BY <2>2, <2>7, <2>8 DEF ListInv
<1>13. ASSUME NEW t \in Threads, FreePg(t) PROVE ListInv'
  <2>1. \A u \in Threads \ {t} : pc'[u] = pc[u] /\ pc[u] \in {"idle", "lock"}
    BY <1>2, <1>13, Alone DEF FreePg
  <2>2. pc'[t] = "getFp" /\ pc[t] = "freePg" /\ pg[t] \notin In(s)
    BY <1>1, <1>2, <1>13 DEF FreePg, WalkInv
  <2>3. IsList(s)'
    BY <1>1, <1>13 DEF FreePg, IsList
  <2>4. WalkInv(s)'
    BY <1>13, <2>1, <2>2 DEF FreePg, WalkInv, localVars
  <2>5. LiveInv(s)'
    BY <1>1, <1>13, <2>1, <2>2 DEF FreePg, LiveInv, localVars
  <2>. QED
    BY <2>3, <2>4, <2>5 DEF ListInv
<1>14. ASSUME NEW t \in Threads, GetFp(t) PROVE ListInv'
  <2>1. WalkInv(s)'
    BY <1>1, <1>2, <1>14 DEF GetFp, WalkInv, listVars
  <2>. QED
    BY <1>1, <1>2, <1>14, <2>1, ListKept DEF GetFp
<1>15. ASSUME NEW t \in Threads, FpNext(t) PROVE ListInv'
  <2>1. WalkInv(s)'
    BY <1>1, <1>2, <1>15 DEF FpNext, WalkInv, listVars, localVars
  <2>. QED
    BY <1>1, <1>2, <1>15, <2>1, ListKept DEF FpNext, localVars
<1>16. ASSUME NEW t \in Threads, FreeFp(t) PROVE ListInv'
  <2>1. WalkInv(s)'
    BY <1>1, <1>2, <1>16 DEF FreeFp, WalkInv, listVars, localVars
  <2>. QED
    BY <1>1, <1>2, <1>16, <2>1, ListKept DEF FreeFp, localVars
<1>17. ASSUME NEW t \in Threads, Enlist(t) PROVE ListInv'
  <2>1. PICK m \in Nodes \ live :
          /\ live' = live \cup {m} /\ pgn' = [pgn EXCEPT ![m] = op[t].page]
          /\ pg_next' = [pg_next EXCEPT ![m] = fifo_pgn]
          /\ pnode' = [pnode EXCEPT ![t] = m]
    BY <1>17 DEF Enlist
  <2>2. \A u \in Threads \ {t} : pc'[u] = pc[u] /\ pc[u] \in {"idle", "lock"}
    BY <1>2, <1>17, Alone DEF Enlist
  <2>3. pc'[t] = "head" /\ pc[t] = "enlist" /\ pnode'[t] = m
    BY <1>2, <1>17, <2>1 DEF Enlist
  <2>4. m \notin In(s) /\ IsList(s)'
    BY <1>1, <1>2, <1>17, <2>1, EnlistList DEF Enlist
  <2>6. WalkInv(s)'
    BY <1>2, <1>17, <2>1, <2>2, <2>3, <2>4 DEF Enlist, WalkInv
  <2>7. LiveInv(s)'
    BY <1>1, <2>1, <2>2, <2>3 DEF LiveInv
  <2>. QED
    BY <2>4, <2>6, <2>7 DEF ListInv
<1>18. ASSUME NEW t \in Threads, SetHead(t) PROVE ListInv'
  <2>1. pnode[t] \in Nodes \ In(s) /\ pg_next[pnode[t]] = fifo_pgn
    BY <1>1, <1>18 DEF SetHead, WalkInv
  <2>2. PICK r \in Seq(Nodes) :
          /\ IsList(r)' /\ Len(r) = Len(s) + 1
          /\ r[1] = pnode[t] /\ \A k \in 1 .. Len(s) : r[k + 1] = s[k]
    BY <1>1, <1>18, SetHeadList
  <2>4. In(r) = In(s) \cup {pnode[t]}
    <3>1. \A k \in 1 .. Len(r) : r[k] \in In(s) \cup {pnode[t]}
      <4>. SUFFICES ASSUME NEW k \in 1 .. Len(r) PROVE r[k] \in In(s) \cup {pnode[t]}
        OBVIOUS
      <4>1. k = 1 \/ (k - 1 \in 1 .. Len(s) /\ (k - 1) + 1 = k)
        BY <1>3, <2>2
      <4>. QED
        BY <1>3, <2>2, <4>1
    <3>2. \A k \in 1 .. Len(s) : k + 1 \in 1 .. Len(r)
      BY <1>3, <2>2
    <3>3. 1 \in 1 .. Len(r)
      BY <1>3, <2>2
    <3>. QED
      BY <2>2, <3>1, <3>2, <3>3 DEF In
  <2>5. \A u \in Threads \ {t} : pc'[u] = pc[u] /\ pc[u] \in {"idle", "lock"}
    BY <1>2, <1>18, Alone DEF SetHead
  <2>6. pc'[t] = "return" /\ pc[t] = "head"
    BY <1>2, <1>18 DEF SetHead
  <2>7. WalkInv(r)'
    BY <2>5, <2>6 DEF WalkInv
  <2>8. LiveInv(r)'
    <3>1. live' = live /\ pnode' = pnode /\ pg' = pg
      BY <1>18 DEF SetHead, localVars
    <3>. QED
      BY <1>1, <2>4, <2>5, <2>6, <3>1 DEF LiveInv
  <2>. QED
    BY <2>2, <2>7, <2>8 DEF ListInv
<1>19. ASSUME NEW t \in Threads, Crash(t) PROVE ListInv'
  <2>1. WalkInv(s)'
    BY <1>1, <1>19 DEF Crash, WalkInv, listVars, localVars
  <2>. QED
    BY <1>1, <1>19, <2>1, ListKept DEF Crash, localVars
<1>20. CASE UNCHANGED vars
  <2>1. WalkInv(s)'
    BY <1>1, <1>20 DEF vars, WalkInv, listVars, localVars
  <2>. QED
    BY <1>1, <1>20, <2>1, ListKept DEF vars, localVars
<1>. QED
  BY <1>4, <1>5, <1>6, <1>7, <1>8, <1>9, <1>10, <1>11, <1>12, <1>13, <1>14, <1>15, <1>16,
     <1>17, <1>18, <1>19, <1>20 DEF Next, Step, Terminated

(* Steps that have nothing to do with the swap device.                       *)
LEMMA SwapKept ==
  ASSUME SwapInv, UNCHANGED swapVars,
         \A u \in Threads : \A l \in {"fpNext", "freeFp"} :
           /\ pc'[u] = l <=> pc[u] = l
           /\ pc[u] = l => fp'[u] = fp[u]
  PROVE  SwapInv'
BY DEF SwapInv, swapVars, Handed

(* The number of frames handed out is a number.                              *)
LEMMA HandedInNat == TypeOK => Handed \in Nat
<1>. SUFFICES ASSUME TypeOK PROVE Handed \in Nat
  OBVIOUS
<1>1. free_fp_list # NULL => free_fp_list \in 0 .. NumFrames - 1
  BY DEF TypeOK, Frames
<1>. QED
  BY <1>1 DEF Handed

(* Only MEMPHY_get_freefp moves the head of the free frames.                 *)
LEMMA SwapStep == IInv /\ [Next]_vars => SwapInv'
<1>. SUFFICES ASSUME IInv, [Next]_vars PROVE SwapInv'
  OBVIOUS
<1>0. TypeOK /\ LockInv /\ SwapInv
  BY DEF IInv
<1>. USE DEF At, Goto, TypeOK
<1>1. ASSUME NEW t \in Threads, Begin(t) PROVE SwapInv'
  BY <1>0, <1>1, SwapKept DEF Begin, localVars
<1>2. ASSUME NEW t \in Threads, Lock(t) PROVE SwapInv'
  BY <1>0, <1>2, SwapKept DEF Lock, localVars
<1>3. ASSUME NEW t \in Threads, Region(t) PROVE SwapInv'
  BY <1>0, <1>3, SwapKept DEF Region, localVars
<1>4. ASSUME NEW t \in Threads, Return(t) PROVE SwapInv'
  BY <1>0, <1>4, SwapKept DEF Return, localVars
<1>5. ASSUME NEW t \in Threads, Find(t) PROVE SwapInv'
  BY <1>0, <1>5, SwapKept DEF Find, localVars
<1>6. ASSUME NEW t \in Threads, Walk(t) PROVE SwapInv'
  BY <1>0, <1>6, SwapKept DEF Walk, localVars
<1>7. ASSUME NEW t \in Threads, Advance(t) PROVE SwapInv'
  BY <1>0, <1>7, SwapKept DEF Advance, localVars
<1>8. ASSUME NEW t \in Threads, Take(t) PROVE SwapInv'
  BY <1>0, <1>8, SwapKept DEF Take, localVars
<1>9. ASSUME NEW t \in Threads, Unlink(t) PROVE SwapInv'
  BY <1>0, <1>9, SwapKept DEF Unlink, localVars
<1>10. ASSUME NEW t \in Threads, FreePg(t) PROVE SwapInv'
  BY <1>0, <1>10, SwapKept DEF FreePg, localVars
<1>11. ASSUME NEW t \in Threads, Enlist(t) PROVE SwapInv'
  BY <1>0, <1>11, SwapKept DEF Enlist, localVars
<1>12. ASSUME NEW t \in Threads, SetHead(t) PROVE SwapInv'
  BY <1>0, <1>12, SwapKept DEF SetHead, localVars
<1>13. ASSUME NEW t \in Threads, Crash(t) PROVE SwapInv'
  BY <1>0, <1>13, SwapKept DEF Crash, localVars
<1>14. ASSUME NEW t \in Threads, GetFp(t) PROVE SwapInv'
  <2>1. \A u \in Threads \ {t} : pc'[u] = pc[u] /\ fp'[u] = fp[u]
    BY <1>0, <1>14 DEF GetFp
  <2>2. pc[t] = "getFp" /\ pc'[t] \in {"return", "fpNext"} /\ fp'[t] = free_fp_list
        /\ (pc'[t] = "fpNext" => free_fp_list \in Frames)
    BY <1>0, <1>14 DEF GetFp
  <2>3. UNCHANGED <<granted, liveFp, free_fp_list>>
    BY <1>14 DEF GetFp, swapVars
  <2>4. Handed' = Handed
    BY <2>3 DEF Handed
  <2>5. \A u \in Threads : pc'[u] = "freeFp" <=> pc[u] = "freeFp"
    BY <2>1, <2>2
  <2>6. \A u \in Threads : pc[u] = "freeFp" => fp'[u] = fp[u]
    BY <2>1, <2>2
  <2>7. \A u \in Threads : pc'[u] = "fpNext" => fp'[u] \in Frames /\ fp'[u] = free_fp_list'
    BY <1>0, <2>1, <2>2, <2>3 DEF SwapInv
  <2>. QED
    <3>0. /\ SwapInv /\ liveFp' = liveFp
          /\ \A f \in Frames : f \in liveFp <=>
               \/ f >= Handed \/ \E u \in Threads : pc[u] = "freeFp" /\ fp[u] = f
      BY <1>0, <2>3 DEF SwapInv
    <3>1. \A f \in Frames : f \in liveFp' <=>
            \/ f >= Handed' \/ \E u \in Threads : pc'[u] = "freeFp" /\ fp'[u] = f
      <4>. HIDE DEF TypeOK
      <4>. QED
        BY <3>0, <2>4, <2>5, <2>6
    <3>2. granted' = [j \in 1 .. Handed' |-> j - 1]
      BY <1>0, <2>3, <2>4 DEF SwapInv
    <3>3. \A u \in Threads :
            pc'[u] = "freeFp" => fp'[u] \in Frames /\ fp'[u] = Handed' - 1
      BY <1>0, <2>4, <2>5, <2>6 DEF SwapInv
    <3>. QED
      BY <2>7, <3>1, <3>2, <3>3 DEF SwapInv
<1>15. ASSUME NEW t \in Threads, FpNext(t) PROVE SwapInv'
  <2> DEFINE f == fp[t]
  <2>1. f \in Frames /\ f = free_fp_list /\ Handed = f
    BY <1>0, <1>15, NullAssumption DEF FpNext, SwapInv, Handed, Frames
  <2>2. f \in Nat /\ f + 1 \in Nat /\ f < NumFrames
    BY <2>1 DEF Frames
  <2>3. Handed' = f + 1
    <3>1. free_fp_list' = fp_next(f)
      BY <1>15 DEF FpNext
    <3>2. CASE f + 1 \in Frames
      BY <2>2, <3>1, <3>2, NullAssumption DEF Handed, fp_next
    <3>3. CASE f + 1 \notin Frames
      <4>1. f + 1 = NumFrames
        BY <2>2, <3>3 DEF Frames
      <4>. QED
        BY <3>1, <3>3, <4>1 DEF Handed, fp_next
    <3>. QED
      BY <3>2, <3>3
  <2>4. granted' = [j \in 1 .. f + 1 |-> j - 1]
    <3>1. granted = [j \in 1 .. f |-> j - 1] /\ granted' = Append(granted, f)
      BY <1>0, <1>15, <2>1 DEF SwapInv, FpNext
    <3>. QED
      BY <2>2, <3>1
  <2>5. \A u \in Threads \ {t} : pc'[u] = pc[u] /\ pc[u] \in {"idle", "lock"} /\ fp'[u] = fp[u]
    BY <1>0, <1>15, Alone DEF FpNext, localVars
  <2>6. pc[t] = "fpNext" /\ pc'[t] = "freeFp" /\ fp'[t] = f /\ liveFp' = liveFp
    BY <1>0, <1>15 DEF FpNext, localVars
  <2>7. \A g \in Frames : g \in liveFp <=> g >= f
    BY <1>0, <2>1, <2>5, <2>6 DEF SwapInv
  <2>8. \A g \in Frames : g >= f <=> g >= f + 1 \/ g = f
    BY <2>2 DEF Frames
  <2>9. /\ \A g \in Frames : g \in liveFp' <=> \/ g >= Handed'
                                               \/ \E u \in Threads : pc'[u] = "freeFp" /\ fp'[u] = g
        /\ \A u \in Threads : /\ pc'[u] # "fpNext"
                              /\ pc'[u] = "freeFp" => fp'[u] \in Frames /\ fp'[u] = Handed' - 1
    BY <2>1, <2>2, <2>3, <2>5, <2>6, <2>7, <2>8
  <2>. QED
    BY <2>3, <2>4, <2>9 DEF SwapInv
<1>16. ASSUME NEW t \in Threads, FreeFp(t) PROVE SwapInv'
  <2>1. \A u \in Threads \ {t} : pc'[u] = pc[u] /\ pc[u] \in {"idle", "lock"}
    BY <1>0, <1>16, Alone DEF FreeFp
  <2>2. pc[t] = "freeFp" /\ pc'[t] = "enlist" /\ liveFp' = liveFp \ {fp[t]}
        /\ UNCHANGED <<granted, free_fp_list, fp>>
    BY <1>0, <1>16 DEF FreeFp, localVars
  <2>3. Handed \in Nat /\ fp[t] = Handed - 1
    BY <1>0, <2>2, HandedInNat DEF SwapInv
  <2>4. \A g \in Frames : g \in liveFp <=> g >= Handed \/ g = fp[t]
    BY <1>0, <2>1, <2>2 DEF SwapInv
  <2>5. \A g \in Frames : g \in liveFp' <=> g >= Handed
    BY <2>2, <2>3, <2>4 DEF Frames
  <2>. QED
    BY <1>0, <2>1, <2>2, <2>5 DEF SwapInv, Handed
<1>17. CASE UNCHANGED vars
  BY <1>0, <1>17, SwapKept DEF vars, localVars
<1>. QED
  BY <1>1, <1>2, <1>3, <1>4, <1>5, <1>6, <1>7, <1>8, <1>9, <1>10, <1>11, <1>12, <1>13, <1>14, <1>15, <1>16, <1>17
  DEF Next, Step, Terminated

(* Of the crashes only that of the unlinking is possible.                    *)
LEMMA FaultStep == Locked /\ IInv /\ [Next]_vars => FaultInv'
<1>. SUFFICES ASSUME Locked, IInv, [Next]_vars PROVE FaultInv'
  OBVIOUS
<1>1. fault' = fault \/ \E t \in Threads : Crash(t)
  BY DEF Next, Step, Terminated, vars, Begin, Lock, Region, Return, Find, Walk, Advance, Take,
         Unlink, FreePg, GetFp, FpNext, FreeFp, Enlist, SetHead
<1>2. ASSUME NEW t \in Threads, Crash(t) PROVE FaultInv'
  <2>1. PICK s \in Seq(Nodes) : IsList(s) /\ WalkInv(s) /\ LiveInv(s)
    BY DEF IInv, ListInv
  <2>2. \A k \in 1 .. Len(s) : s[k] \in live
    BY <2>1 DEF LiveInv, In
  <2>3. ~(pc[t] = "region" /\ op[t].kind = "badRead")
    BY DEF IInv, LockInv, Locked
  <2>4. ~(pc[t] \in {"walk", "advance", "take"} /\ pg[t] \notin live)
    BY <2>1, <2>2 DEF WalkInv
  <2>5. ~(pc[t] = "fpNext" /\ fp[t] \notin liveFp)
    BY DEF IInv, SwapInv, Handed, Frames
  <2>6. ~(pc[t] = "freePg" /\ pg[t] \notin live)
    BY <2>1 DEF WalkInv, LiveInv
  <2>7. ~(pc[t] = "freeFp" /\ fp[t] \notin liveFp)
    BY DEF IInv, SwapInv
  <2>8. pc[t] = "unlink" /\ prev[t] \notin live /\ fault' = How(prev[t])
        /\ UNCHANGED <<pc, prev>>
    BY <1>2, <2>3, <2>4, <2>5, <2>6, <2>7 DEF Crash, localVars
  <2>9. prev[t] = NULL
    <3>1. PICK k \in 1 .. Len(s) : prev[t] = IF k = 1 THEN NULL ELSE s[k - 1]
      BY <2>1, <2>8 DEF WalkInv
    <3>2. k # 1 => k - 1 \in 1 .. Len(s)
      OBVIOUS
    <3>. QED
      BY <2>2, <2>8, <3>1, <3>2
  <2>. QED
    BY <2>8, <2>9 DEF FaultInv, How
<1>3. ASSUME fault' = fault, fault # "none" PROVE FaultInv'
  <2>1. UNCHANGED vars
    BY <1>3 DEF Next, Step, Terminated, At, Begin, Lock, Region, Return, Find, Walk, Advance,
       Take, Unlink, FreePg, GetFp, FpNext, FreeFp, Enlist, SetHead, Crash
  <2>. QED
    BY <2>1 DEF IInv, FaultInv, vars, localVars
<1>. QED
  BY <1>1, <1>2, <1>3 DEF FaultInv

(* The invariant is inductive.                                               *)
LEMMA Inductive == ASSUME Locked PROVE Spec => []IInv
<1>0. IInv => OpInv
  BY DEF IInv, LockInv, OpInv
<1>1. Locked /\ IInv /\ [Next]_vars => IInv'
  BY <1>0, TypeStep, LockStep, ListStep, SwapStep, FaultStep DEF IInv
<1>. QED
  BY InitIInv, <1>1, PTL DEF Spec

-----------------------------------------------------------------------------
(* What is shown                                                             *)

(* The pointers of both lists and the threads' copies of them stay nodes or  *)
(* null, whatever the accesses are, with and without the lock, and however   *)
(* they interleave (libmem.c:217-276, 388-413, 640-664;                      *)
(* mm-memphy.c:164-177).                                                     *)
THEOREM TypeCorrect == Spec => []TypeOK
<1>1. Init => TypeOK /\ OpInv
  BY InitIInv DEF IInv, LockInv, OpInv
<1>2. TypeOK /\ OpInv /\ [Next]_vars => TypeOK' /\ OpInv'
  BY TypeStep, OpStep
<1>. QED
  BY <1>1, <1>2, PTL DEF Spec

(* With mmvm_lock the only crash is find_victim_page writing through the     *)
(* null prev when one page is in the list (libmem.c:659): no node is used    *)
(* after free.                                                               *)
THEOREM OnlyLastPageCrashes == ASSUME Locked PROVE Spec => []CrashOnlyOnLastPage
<1>1. IInv => CrashOnlyOnLastPage
  <2>. SUFFICES ASSUME IInv, fault # "none"
                PROVE  fault = "null" /\ Len(Queue) = 1 /\ \E t \in Threads : pc[t] = "unlink"
    BY DEF CrashOnlyOnLastPage
  <2>1. PICK t \in Threads : fault = "null" /\ pc[t] = "unlink" /\ prev[t] = NULL
    BY DEF IInv, FaultInv
  <2>2. PICK s \in Seq(Nodes) : IsList(s) /\ WalkInv(s)
    BY DEF IInv, ListInv
  <2>3. PICK k \in 1 .. Len(s) : k = Len(s) /\ prev[t] = IF k = 1 THEN NULL ELSE s[k - 1]
    BY <2>1, <2>2 DEF WalkInv
  <2>4. k = 1
    <3>1. k # 1 => k - 1 \in 1 .. Len(s)
      OBVIOUS
    <3>. QED
      BY <2>1, <2>3, <3>1, NullIsNoNode
  <2>5. Len(Queue) = Len(s)
    BY <2>2, QueueOfList
  <2>. QED
    BY <2>1, <2>3, <2>4, <2>5
<1>. QED
  BY Inductive, <1>1, PTL

(* MEMPHY_get_freefp, called with mmvm_lock, hands out no frame of the swap  *)
(* device twice (mm-memphy.c:164).                                           *)
THEOREM SwapFramesHandedOutOnce == ASSUME Locked PROVE Spec => []SwapFramesOnce
<1>1. IInv => SwapFramesOnce
  <2>. SUFFICES ASSUME IInv PROVE SwapFramesOnce
    OBVIOUS
  <2>1. granted = [j \in 1 .. Handed |-> j - 1] /\ Handed \in Nat
    BY HandedInNat DEF IInv, SwapInv
  <2>. QED
    BY <2>1 DEF SwapFramesOnce
<1>. QED
  BY Inductive, <1>1, PTL

(* The nodes that find_victim_page unlinks are freed and those that          *)
(* enlist_pgn_node allocates are linked, and a frame that is off the free    *)
(* list has been handed out (libmem.c:658-661, mm64.c:498, mm-memphy.c:172). *)
THEOREM NodesAreNotLeaked == ASSUME Locked PROVE Spec => []NoNodeLeaks
<1>1. IInv => NoNodeLeaks
  <2> DEFINE busy == {t \in Threads : pc[t] \in {"freePg", "head"}}
             held(t) == IF pc[t] = "freePg" THEN pg[t] ELSE pnode[t]
  <2>. SUFFICES ASSUME IInv
                PROVE  /\ Cardinality(live) = Len(Queue) + Cardinality(busy)
                       /\ \A f \in Frames \ liveFp : \E k \in DOMAIN granted : granted[k] = f
    BY DEF NoNodeLeaks
  <2>0. PICK s \in Seq(Nodes) : IsList(s) /\ WalkInv(s) /\ LiveInv(s)
    BY DEF IInv, ListInv
  <2>1. Len(Queue) = Len(s) /\ IsFiniteSet(In(s)) /\ Cardinality(In(s)) = Len(s) /\ Len(s) \in Nat
    BY <2>0, QueueOfList, ListSize DEF IsList
  <2>2. In(s) \subseteq Nodes /\ live \subseteq Nodes
    <3>1. \A k \in 1 .. Len(s) : s[k] \in Nodes
      OBVIOUS
    <3>2. live \subseteq Nodes
      BY DEF IInv, TypeOK
    <3>. QED
      BY <3>1, <3>2 DEF In
  <2>3. ASSUME busy = {} PROVE Cardinality(live) = Len(Queue) + Cardinality(busy)
    <3>1. live = In(s)
      BY <2>0, <2>2, <2>3 DEF LiveInv
    <3>2. Cardinality(busy) = 0
      BY <2>3, FS_EmptySet
    <3>3. Cardinality(live) = Len(s) /\ Len(Queue) = Len(s)
      BY <2>1, <3>1
    <3>. HIDE DEF busy
    <3>. QED
      BY <2>1, <3>2, <3>3
  <2>4. ASSUME NEW t \in busy PROVE Cardinality(live) = Len(Queue) + Cardinality(busy)
    <3>1. busy = {t}
      BY <2>4, Alone DEF IInv
    <3>2. held(t) \in Nodes \ In(s)
      BY <2>0, <2>4 DEF WalkInv
    <3>3. live = In(s) \cup {held(t)}
      <4>1. \A u \in Threads : pc[u] \in {"freePg", "head"} => u = t
        BY <3>1
      <4>. QED
        BY <2>0, <2>2, <2>4, <3>2, <4>1 DEF LiveInv
    <3>4. Cardinality(live) = Cardinality(In(s)) + 1 /\ Cardinality(busy) = 1
      <4>. HIDE DEF busy, held
      <4>. QED
        BY <2>1, <3>1, <3>2, <3>3, FS_AddElement, FS_Singleton
    <3>. QED
      BY <2>1, <3>4
  <2>5. ASSUME NEW f \in Frames \ liveFp PROVE \E k \in DOMAIN granted : granted[k] = f
    <3>1. Handed \in Nat /\ granted = [j \in 1 .. Handed |-> j - 1] /\ ~(f >= Handed)
      BY HandedInNat DEF IInv, SwapInv
    <3>2. f + 1 \in 1 .. Handed /\ f \in Nat
      BY <3>1 DEF Frames
    <3>. QED
      BY <3>1, <3>2
  <2>. QED
    BY <2>3, <2>4, <2>5
<1>. QED
  BY Inductive, <1>1, PTL

-----------------------------------------------------------------------------
(* Refinement                                                                *)

(* QueueOfList, in one formula.                                              *)
LEMMA QueueIs == \A s : IsList(s) => Queue = [k \in 1 .. Len(s) |-> pgn[s[k]]]
BY QueueOfList

(* The same after a step.                                                    *)
LEMMA QueueIsNext ==
  \A s : IsList(s)' => Queue' = [k \in 1 .. Len(s) |-> pgn'[s[k]]]
<1>1. (\A s : IsList(s) => Queue = [k \in 1 .. Len(s) |-> pgn[s[k]]])'
  BY QueueIs, PTL
<1>. QED
  BY <1>1

(* A step of a thread that holds the lock and has found its victim leaves    *)
(* that thread alone in Replacing.                                           *)
LEMMA OnlyReplacing ==
  ASSUME LockInv, NEW t \in Threads, t \in Replacing PROVE Replacing = {t}
BY Alone DEF Replacing

(* Steps that neither begin nor end a replacement leave the abstract state.  *)
LEMMA Stutter ==
  ASSUME UNCHANGED <<fifo_pgn, pg_next, pgn>>,
         \A u \in Threads : pc'[u] \in {"freePg", "getFp", "fpNext", "freeFp", "enlist", "head"}
                        <=> pc[u] \in {"freePg", "getFp", "fpNext", "freeFp", "enlist", "head"}
  PROVE  UNCHANGED <<Queue, Replacing>>
<1>1. Queue' = Queue
  BY DEF Queue
<1>2. Replacing' = Replacing
  BY DEF Replacing
<1>. QED
  BY <1>1, <1>2

(* Unlinking the last node evicts the page that came first.                  *)
LEMMA EvictStep ==
  ASSUME IInv, NEW t \in Threads, Unlink(t)
  PROVE  PQ!Evict
<1>1. PICK s \in Seq(Nodes) : IsList(s) /\ WalkInv(s)
  BY DEF IInv, ListInv
<1>2. TypeOK /\ LockInv
  BY DEF IInv
<1>3. PICK r \in Seq(Nodes) :
        /\ Len(s) >= 2 /\ IsList(r)' /\ Len(r) = Len(s) - 1 /\ \A k \in 1 .. Len(r) : r[k] = s[k]
  BY <1>1, <1>2, UnlinkList
<1>4. Queue = [k \in 1 .. Len(s) |-> pgn[s[k]]] /\ Len(Queue) = Len(s)
  BY <1>1, QueueOfList
<1>5. Queue' = [k \in 1 .. Len(r) |-> pgn[r[k]]]
  <2>1. pgn' = pgn
    BY DEF Unlink
  <2>. QED
    BY <1>3, <2>1, QueueIsNext
<1>6. Queue' = PQ!Front(Queue)
  BY <1>3, <1>4, <1>5 DEF PQ!Front
<1>7. Replacing = {} /\ t \in Replacing'
  <2>1. pc[t] = "unlink" /\ pc'[t] = "freePg"
    BY <1>2 DEF Unlink, At, Goto, TypeOK
  <2>. QED
    BY <1>2, <2>1, Alone DEF Replacing
<1>. QED
  BY <1>3, <1>4, <1>6, <1>7 DEF PQ!Evict, PQ!Front

(* MEMPHY_get_freefp finds a frame, or the replacement is given up.          *)
LEMMA GetFpStep ==
  ASSUME IInv, NEW t \in Threads, GetFp(t)
  PROVE  PQ!GiveUp \/ UNCHANGED <<Queue, Replacing>>
<1>1. TypeOK /\ LockInv
  BY DEF IInv
<1>2. /\ pc[t] = "getFp" /\ pc' = [pc EXCEPT ![t] = pc'[t]]
      /\ pc'[t] = "return" \/ pc'[t] = "fpNext"
      /\ UNCHANGED <<fifo_pgn, pg_next, pgn>>
  BY <1>1 DEF GetFp, At, Goto, TypeOK, listVars
<1>3. t \in Replacing
  BY <1>2 DEF Replacing
<1>4. Replacing = {t}
  BY <1>1, <1>3, OnlyReplacing
<1>5. CASE pc'[t] = "return"
  <2>1. Replacing' = {}
    <3>1. \A u \in Threads \ {t} : pc'[u] = pc[u]
      BY <1>1, <1>2 DEF TypeOK
    <3>. QED
      BY <1>4, <1>5, <3>1 DEF Replacing
  <2>2. Queue' = Queue
    BY <1>2 DEF Queue
  <2>. QED
    BY <1>3, <2>1, <2>2 DEF PQ!GiveUp
<1>6. CASE pc'[t] = "fpNext"
  <2>1. \A u \in Threads \ {t} : pc'[u] = pc[u]
    BY <1>1, <1>2 DEF TypeOK
  <2>. QED
    BY <1>2, <1>6, <2>1, Stutter
<1>. QED
  BY <1>2, <1>5, <1>6

(* The new head of the list is the page that is let in.                      *)
LEMMA LetInStep ==
  ASSUME IInv, NEW t \in Threads, SetHead(t)
  PROVE  \E p \in Pages : PQ!LetIn(p)
<1>1. PICK s \in Seq(Nodes) : IsList(s) /\ WalkInv(s)
  BY DEF IInv, ListInv
<1>2. TypeOK /\ LockInv
  BY DEF IInv
<1>3. pc[t] = "head" /\ pc' = [pc EXCEPT ![t] = "return"] /\ pgn' = pgn
  BY DEF SetHead, At, Goto
<1>4. pgn[pnode[t]] = op[t].page /\ op[t].page \in Pages
  BY <1>1, <1>2, <1>3 DEF WalkInv, LockInv
<1>5. PICK r \in Seq(Nodes) :
        /\ IsList(r)' /\ Len(r) = Len(s) + 1
        /\ r[1] = pnode[t] /\ \A k \in 1 .. Len(s) : r[k + 1] = s[k]
  BY <1>1, SetHeadList
<1>6. Queue = [k \in 1 .. Len(s) |-> pgn[s[k]]] /\ Len(Queue) = Len(s)
  BY <1>1, QueueOfList
<1>7. Queue' = [k \in 1 .. Len(r) |-> pgn[r[k]]]
  BY <1>3, <1>5, QueueIsNext
<1>8. Queue' = <<op[t].page>> \o Queue
  <2> DEFINE q == <<op[t].page>> \o Queue
  <2>1. Len(s) \in Nat /\ Len(r) \in Nat
    OBVIOUS
  <2>2. q = [k \in 1 .. Len(s) + 1 |-> IF k = 1 THEN op[t].page ELSE pgn[s[k - 1]]]
    BY <1>6, <2>1
  <2>3. ASSUME NEW k \in 1 .. Len(s) + 1 PROVE pgn[r[k]] = q[k]
    <3>1. CASE k = 1
      BY <1>4, <1>5, <2>2, <3>1
    <3>2. CASE k # 1
      <4>1. k - 1 \in 1 .. Len(s) /\ (k - 1) + 1 = k
        BY <2>1, <3>2
      <4>2. r[k] = s[k - 1]
        BY <1>5, <4>1
      <4>. QED
        BY <2>2, <3>2, <4>2
    <3>. QED
      BY <3>1, <3>2
  <2>4. q = [k \in 1 .. Len(s) + 1 |-> q[k]]
    BY <2>2
  <2>5. Queue' = q
    <3>. HIDE DEF q
    <3>. QED
      BY <1>5, <1>7, <2>3, <2>4
  <2>. QED
    BY <2>5
<1>9. Replacing = {t}
  BY <1>2, <1>3, OnlyReplacing DEF Replacing
<1>10. Replacing' = {}
  <2>1. \A u \in Threads \ {t} : pc'[u] = pc[u]
    BY <1>2, <1>3 DEF TypeOK
  <2>2. pc'[t] = "return"
    BY <1>2, <1>3 DEF TypeOK
  <2>3. \A u \in Threads : u \in Replacing => u = t
    BY <1>9
  <2>. QED
    BY <2>1, <2>2, <2>3 DEF Replacing
<1>11. PQ!LetIn(op[t].page)
  BY <1>8, <1>9, <1>10 DEF PQ!LetIn
<1>. QED
  BY <1>4, <1>11

(* All other steps are invisible to the queue of pages.                      *)
LEMMA RefinementStep ==
  IInv /\ [Next]_vars => [PQ!Next]_<<Queue, Replacing # {}>>
<1>. SUFFICES ASSUME IInv, [Next]_vars
              PROVE  PQ!Next \/ UNCHANGED <<Queue, Replacing>>
  OBVIOUS
<1>1. TypeOK /\ LockInv
  BY DEF IInv
<1>2. ASSUME NEW t \in Threads, Unlink(t) PROVE PQ!Next
  BY <1>2, EvictStep DEF PQ!Next
<1>3. ASSUME NEW t \in Threads, GetFp(t) PROVE PQ!Next \/ UNCHANGED <<Queue, Replacing>>
  BY <1>3, GetFpStep DEF PQ!Next
<1>4. ASSUME NEW t \in Threads, SetHead(t) PROVE PQ!Next
  BY <1>4, LetInStep DEF PQ!Next
<1>. USE DEF At, Goto, TypeOK, listVars
<1>5. ASSUME NEW t \in Threads, Enlist(t) PROVE UNCHANGED <<Queue, Replacing>>
  <2>1. PICK s \in Seq(Nodes) : IsList(s) /\ LiveInv(s)
    BY DEF IInv, ListInv
  <2>2. PICK m \in Nodes \ live :
          /\ pgn' = [pgn EXCEPT ![m] = op[t].page]
          /\ pg_next' = [pg_next EXCEPT ![m] = fifo_pgn]
    BY <1>5 DEF Enlist
  <2>3. m \notin In(s) /\ IsList(s)'
    <3>1. pg_next \in [Nodes -> Refs] /\ UNCHANGED fifo_pgn
      BY <1>1, <1>5 DEF Enlist
    <3>. QED
      BY <2>1, <2>2, <3>1, EnlistList
  <2>4. \A k \in 1 .. Len(s) : s[k] \in Nodes /\ pgn'[s[k]] = pgn[s[k]]
    <3>1. \A k \in 1 .. Len(s) : s[k] \in Nodes /\ s[k] # m
      BY <2>3 DEF In
    <3>2. pgn \in [Nodes -> Pages]
      BY <1>1
    <3>. HIDE DEF TypeOK
    <3>. QED
      BY <2>2, <3>1, <3>2
  <2>5. Queue = [k \in 1 .. Len(s) |-> pgn[s[k]]]
    BY <2>1, QueueOfList
  <2>6. Queue' = [k \in 1 .. Len(s) |-> pgn'[s[k]]]
    BY <2>3, QueueIsNext
  <2>7. Queue' = Queue
    BY <2>4, <2>5, <2>6
  <2>8. Replacing' = Replacing
    BY <1>1, <1>5 DEF Enlist, Replacing
  <2>. QED
    BY <2>7, <2>8
<1>6. ASSUME NEW t \in Threads,
             Begin(t) \/ Lock(t) \/ Region(t) \/ Return(t) \/ Find(t) \/ Walk(t)
             \/ Advance(t) \/ Take(t)
      PROVE  UNCHANGED <<Queue, Replacing>>
  <2>1. UNCHANGED <<fifo_pgn, pg_next, pgn>> /\ pc' = [pc EXCEPT ![t] = pc'[t]]
        /\ pc[t] \notin {"freePg", "getFp", "fpNext", "freeFp", "enlist", "head"}
        /\ pc'[t] \notin {"freePg", "getFp", "fpNext", "freeFp", "enlist", "head"}
    BY <1>1, <1>6 DEF Begin, Lock, Region, Return, Find, Walk, Advance, Take
  <2>2. \A u \in Threads \ {t} : pc'[u] = pc[u]
    BY <1>1, <2>1
  <2>3. \A u \in Threads :
          pc'[u] \in {"freePg", "getFp", "fpNext", "freeFp", "enlist", "head"}
          <=> pc[u] \in {"freePg", "getFp", "fpNext", "freeFp", "enlist", "head"}
    BY <2>1, <2>2
  <2>. QED
    BY <2>1, <2>3, Stutter
<1>7. ASSUME NEW t \in Threads, FreePg(t) \/ FpNext(t) \/ FreeFp(t)
      PROVE  UNCHANGED <<Queue, Replacing>>
  <2>1. UNCHANGED <<fifo_pgn, pg_next, pgn>> /\ pc' = [pc EXCEPT ![t] = pc'[t]]
        /\ pc[t] \in {"freePg", "getFp", "fpNext", "freeFp", "enlist", "head"}
        /\ pc'[t] \in {"freePg", "getFp", "fpNext", "freeFp", "enlist", "head"}
    BY <1>1, <1>7 DEF FreePg, FpNext, FreeFp
  <2>2. \A u \in Threads \ {t} : pc'[u] = pc[u]
    BY <1>1, <2>1
  <2>. QED
    BY <2>1, <2>2, Stutter
<1>8. ASSUME NEW t \in Threads, Crash(t) PROVE UNCHANGED <<Queue, Replacing>>
  BY <1>8, Stutter DEF Crash
<1>9. ASSUME UNCHANGED vars PROVE UNCHANGED <<Queue, Replacing>>
  BY <1>9, Stutter DEF vars
<1>. QED
  BY <1>2, <1>3, <1>4, <1>5, <1>6, <1>7, <1>8, <1>9 DEF Next, Step, Terminated

(* With mmvm_lock, libread and libwrite replace pages first in, first out,   *)
(* one at a time; only a replacement that finds no swap frame costs the list *)
(* a page (libmem.c:217-276, 640-664; mm64.c:486-500).                       *)
THEOREM ReplacementIsFifo == ASSUME Locked PROVE Spec => ImplementsPageQueue
<1>1. Init => PQ!Init
  <2>. SUFFICES ASSUME Init PROVE PQ!Init
    OBVIOUS
  <2>1. IInv
    BY InitIInv
  <2>2. PICK s \in Seq(Nodes) : IsList(s)
    BY <2>1 DEF IInv, ListInv
  <2>3. pgn \in [Nodes -> Pages]
    BY <2>1 DEF IInv, TypeOK
  <2>4. Queue = [k \in 1 .. Len(s) |-> pgn[s[k]]] /\ \A k \in 1 .. Len(s) : pgn[s[k]] \in Pages
    BY <2>2, <2>3, QueueOfList
  <2>5. Queue \in Seq(Pages)
    BY <2>4
  <2>6. Replacing = {}
    BY DEF Init, Replacing
  <2>. QED
    BY <2>5, <2>6 DEF PQ!Init
<1>. QED
  BY <1>1, RefinementStep, Inductive, PTL DEF Spec, ImplementsPageQueue, PQ!Spec
=============================================================================
