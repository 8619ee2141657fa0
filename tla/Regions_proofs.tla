---------------------------- MODULE Regions_proofs ----------------------------
(***************************************************************************)
(* Proofs about Regions, for every set of region IDs, all sizes, every     *)
(* limit of the area and any number of failed extensions.                  *)
(***************************************************************************)
EXTENDS Regions, SequenceTheorems, WellFoundedInduction, TLAPS

USE SizesAssumption, LimitAssumption

-----------------------------------------------------------------------------
(* Lemmas about the free list                                                *)

(* RemoveAt(s, k) has the elements of s, in order, without the one at k.     *)
LEMMA RemoveAtElements ==
  ASSUME NEW S, NEW s \in Seq(S), NEW k \in 1 .. Len(s)
  PROVE  /\ RemoveAt(s, k) \in Seq(S)
         /\ Len(RemoveAt(s, k)) = Len(s) - 1
         /\ \A j \in 1 .. Len(s) - 1 :
              RemoveAt(s, k)[j] = IF j < k THEN s[j] ELSE s[j + 1]
<1> DEFINE a == SubSeq(s, 1, k - 1)
           b == SubSeq(s, k + 1, Len(s))
<1>1. a \in Seq(S) /\ Len(a) = k - 1 /\ \A j \in 1 .. k - 1 : a[j] = s[j]
  OBVIOUS
<1>2. /\ b \in Seq(S) /\ Len(b) = Len(s) - k
      /\ \A j \in 1 .. Len(s) - k : b[j] = s[j + k]
  OBVIOUS
<1>3. RemoveAt(s, k) = a \o b
  BY DEF RemoveAt
<1> HIDE DEF a, b
<1>4. /\ a \o b \in Seq(S)
      /\ Len(a \o b) = Len(a) + Len(b)
      /\ \A j \in 1 .. Len(a) + Len(b) :
           (a \o b)[j] = IF j <= Len(a) THEN a[j] ELSE b[j - Len(a)]
  BY <1>1, <1>2, ConcatProperties
<1>5. Len(a \o b) = Len(s) - 1
  BY <1>1, <1>2, <1>4
<1>6. ASSUME NEW j \in 1 .. Len(s) - 1
      PROVE  (a \o b)[j] = IF j < k THEN s[j] ELSE s[j + 1]
  <2>1. (a \o b)[j] = IF j <= k - 1 THEN a[j] ELSE b[j - (k - 1)]
    BY <1>1, <1>2, <1>4
  <2>2. CASE j < k
    BY <1>1, <2>1, <2>2
  <2>3. CASE ~(j < k)
    <3>1. j - (k - 1) \in 1 .. Len(s) - k /\ j - (k - 1) + k = j + 1
      BY <2>3
    <3>2. QED
      BY <1>2, <2>1, <2>3, <3>1
  <2>4. QED
    BY <2>2, <2>3
<1>7. QED
  BY <1>3, <1>4, <1>5, <1>6

(* A free region that shrinks from below is still one.                       *)
LEMMA RaisedStart ==
  ASSUME NEW rg \in Region, NEW n \in Nat
  PROVE  [rg EXCEPT !.rg_start = @ + n] \in Region
<1>1. rg.rg_start + n \in Nat
  BY DEF Region
<1>2. QED
  BY <1>1 DEF Region

(* Where the element at j of a carved list was before.                       *)
Origin(k, size, j) ==
  IF /\ vm_freerg_list[k].rg_start + size = vm_freerg_list[k].rg_end
     /\ k < Len(vm_freerg_list) /\ k <= j
    THEN j + 1 ELSE j

(* Carving the region at k leaves every other region as it is, and of that   *)
(* one at most the part above the allocated size.                            *)
LEMMA CarveElements ==
  ASSUME TypeOK, NEW k \in Free, NEW size \in Nat
  PROVE  /\ Carve(k, size) \in Seq(Region) \ {<< >>}
         /\ \A j \in DOMAIN Carve(k, size) :
              /\ Origin(k, size, j) \in Free
              /\ Carve(k, size)[j] =
                   IF Origin(k, size, j) = k
                     THEN [vm_freerg_list[k] EXCEPT !.rg_start = @ + size]
                     ELSE vm_freerg_list[Origin(k, size, j)]
<1> USE DEF TypeOK, Free
<1>1. /\ k \in 1 .. Len(vm_freerg_list) /\ Len(vm_freerg_list) \in Nat
      /\ vm_freerg_list[k] \in Region
  OBVIOUS
<1>2. CASE /\ vm_freerg_list[k].rg_start + size = vm_freerg_list[k].rg_end
           /\ k < Len(vm_freerg_list)
  <2>1. Carve(k, size) = RemoveAt(vm_freerg_list, k)
    BY <1>2 DEF Carve
  <2>2. /\ Carve(k, size) \in Seq(Region)
        /\ Len(Carve(k, size)) = Len(vm_freerg_list) - 1
        /\ \A j \in 1 .. Len(vm_freerg_list) - 1 :
             Carve(k, size)[j] = IF j < k THEN vm_freerg_list[j]
                                          ELSE vm_freerg_list[j + 1]
    BY <1>1, <2>1, RemoveAtElements
  <2>3. Carve(k, size) # << >>
    BY <1>1, <1>2, <2>2
  <2>4. ASSUME NEW j \in DOMAIN Carve(k, size)
        PROVE  /\ Origin(k, size, j) \in Free /\ Origin(k, size, j) # k
               /\ Carve(k, size)[j] = vm_freerg_list[Origin(k, size, j)]
    BY <1>1, <1>2, <2>2, <2>4 DEF Origin
  <2>5. QED
    BY <2>2, <2>3, <2>4
<1>3. CASE ~(/\ vm_freerg_list[k].rg_start + size = vm_freerg_list[k].rg_end
             /\ k < Len(vm_freerg_list))
  <2>1. Carve(k, size) = [vm_freerg_list EXCEPT ![k].rg_start = @ + size]
    BY <1>3 DEF Carve
  <2>2. [vm_freerg_list[k] EXCEPT !.rg_start = @ + size] \in Region
    BY <1>1, RaisedStart
  <2>3. \A j : Origin(k, size, j) = j
    BY <1>3 DEF Origin
  <2>4. /\ Carve(k, size) \in Seq(Region)
        /\ DOMAIN Carve(k, size) = Free
        /\ \A j \in Free :
             Carve(k, size)[j] =
               IF j = k THEN [vm_freerg_list[k] EXCEPT !.rg_start = @ + size]
                        ELSE vm_freerg_list[j]
    BY <1>1, <2>1, <2>2
  <2>5. Carve(k, size) # << >>
    BY <1>1, <2>4
  <2>6. QED
    BY <2>3, <2>4, <2>5
<1>4. QED
  BY <1>2, <1>3

-----------------------------------------------------------------------------
(* What lies apart from a region lies apart from every part of it.           *)
LEMMA ApartFromPart ==
  ASSUME NEW a \in Region, NEW b \in Region, NEW c \in Region, Apart(a, b),
         b.rg_start <= c.rg_start, c.rg_end <= b.rg_end
  PROVE  Apart(a, c) /\ Apart(c, a)
BY DEF Apart, Region

(* What ends below sbrk lies apart from what begins there.                   *)
LEMMA ApartFromNew ==
  ASSUME NEW a \in Region, NEW c \in Region, a.rg_end <= c.rg_start
  PROVE  Apart(a, c) /\ Apart(c, a)
BY DEF Apart, Region

-----------------------------------------------------------------------------
(* The inductive invariant                                                   *)

IInv == TypeOK /\ RegionsSound

(* Initially the one free region and all regions in use are empty.           *)
LEMMA InitInvariant == Init => IInv
<1> SUFFICES ASSUME Init PROVE IInv
  OBVIOUS
<1>1. Empty(0) \in Region
  BY DEF Empty, Region
<1>2. TypeOK
  BY <1>1 DEF Init, TypeOK, Unused
<1>3. RegionsSound
  BY DEF Init, RegionsSound, LiveApart, FreeApart, LiveFree, AllInArea, InArea,
         Apart, Unused, Empty, Free
<1>4. QED
  BY <1>2, <1>3 DEF IInv

-----------------------------------------------------------------------------
(* Each operation preserves it                                               *)

(* A region that is carved out of a free one.                                *)
LEMMA AllocFreePreserves ==
  ASSUME IInv, NEW rgid \in Rgids, NEW size \in Sizes, AllocFree(rgid, size)
  PROVE  IInv'
<1>1. PICK k \in Free : /\ FirstFit(k, size)
                        /\ SetRegion(rgid, vm_freerg_list[k].rg_start, size)
                        /\ vm_freerg_list' = Carve(k, size)
                        /\ UNCHANGED <<sbrk, overruns>>
  BY DEF AllocFree, TakeFree
<1> DEFINE old == vm_freerg_list[k]
           new == [rg_start |-> old.rg_start, rg_end |-> old.rg_start + size]
<1>2. /\ TypeOK /\ size \in Nat
      /\ old \in Region /\ old.rg_start \in Nat /\ old.rg_end \in Nat
  <2>1. TypeOK /\ size \in Nat /\ old \in Region
    BY DEF IInv, TypeOK, Free
  <2>2. QED
    BY <2>1 DEF Region
<1>3. new \in Region /\ new.rg_start = old.rg_start /\ new.rg_end <= old.rg_end
  BY <1>1, <1>2 DEF FirstFit, Fits, Region
<1>4. symrgtbl' = [symrgtbl EXCEPT ![rgid] = new]
  BY <1>1 DEF SetRegion
<1> HIDE DEF new
<1>5. TypeOK'
  <2>1. symrgtbl' \in [Rgids -> Region]
    BY <1>2, <1>3, <1>4 DEF TypeOK
  <2>2. vm_freerg_list' \in Seq(Region) \ {<< >>}
    BY <1>1, <1>2, CarveElements
  <2>3. QED
    BY <1>1, <1>2, <2>1, <2>2 DEF TypeOK
<1>6. RegionsSound'
  <2> SUFFICES ASSUME overruns' = 0
               PROVE  (LiveApart /\ FreeApart /\ LiveFree /\ AllInArea)'
    BY DEF RegionsSound
  <2>1. LiveApart /\ FreeApart /\ LiveFree /\ AllInArea
    BY <1>1 DEF IInv, RegionsSound
  (* A region of the new list is a part of one of the old list, and the one  *)
  (* that was carved begins where the new region ends.                       *)
  <2> DEFINE o(j) == Origin(k, size, j)
  <2>2. ASSUME NEW j \in Free'
        PROVE  /\ o(j) \in Free
               /\ vm_freerg_list[o(j)] \in Region
               /\ vm_freerg_list'[j] \in Region
               /\ vm_freerg_list[o(j)].rg_start <= vm_freerg_list'[j].rg_start
               /\ vm_freerg_list'[j].rg_end = vm_freerg_list[o(j)].rg_end
               /\ o(j) = k => vm_freerg_list'[j].rg_start = new.rg_end
    <3>1. /\ o(j) \in Free
          /\ vm_freerg_list'[j] =
               IF o(j) = k THEN [old EXCEPT !.rg_start = @ + size]
                           ELSE vm_freerg_list[o(j)]
      BY <1>1, <1>2, CarveElements DEF Free
    <3>2. vm_freerg_list[o(j)] \in Region
      BY <1>2, <3>1 DEF TypeOK, Free
    <3>3. QED
      BY <1>2, <3>1, <3>2 DEF Region, new
  <2>3. \A i, j \in Free' : i # j => o(i) # o(j)
    <3>1. Free' \subseteq Int /\ k \in Int /\ Len(vm_freerg_list) \in Int
      BY <1>2, <1>5 DEF TypeOK, Free
    <3>2. QED
      BY <3>1 DEF Origin
  <2> HIDE DEF o
  <2>4. \A r \in Rgids : symrgtbl[r] \in Region
    BY <1>2 DEF TypeOK
  <2>5. \A r \in Rgids : symrgtbl'[r] = IF r = rgid THEN new ELSE symrgtbl[r]
    BY <1>2, <1>4 DEF TypeOK
  <2>6. \A r \in Rgids : Apart(symrgtbl[r], new) /\ Apart(new, symrgtbl[r])
    <3> TAKE r \in Rgids
    <3>1. Apart(symrgtbl[r], old)
      BY <2>1 DEF LiveFree
    <3>2. QED
      BY <1>2, <1>3, <2>4, <3>1, ApartFromPart DEF Region
  <2>7. LiveApart'
    BY <2>1, <2>5, <2>6 DEF LiveApart
  <2>8. FreeApart'
    <3> SUFFICES ASSUME NEW i \in Free', NEW j \in Free', i # j
                 PROVE  Apart(vm_freerg_list'[i], vm_freerg_list'[j])
      BY DEF FreeApart, Apart
    <3>1. Apart(vm_freerg_list[o(i)], vm_freerg_list[o(j)])
      BY <2>1, <2>2, <2>3 DEF FreeApart
    <3>2. QED
      BY <2>2, <3>1 DEF Apart, Region
  <2>9. LiveFree'
    <3> SUFFICES ASSUME NEW r \in Rgids, NEW j \in Free'
                 PROVE  Apart(symrgtbl'[r], vm_freerg_list'[j])
      BY DEF LiveFree, Apart
    <3>1. CASE r # rgid
      <4>1. Apart(symrgtbl[r], vm_freerg_list[o(j)])
        BY <2>1, <2>2 DEF LiveFree
      <4>2. QED
        BY <2>2, <2>4, <2>5, <3>1, <4>1 DEF Apart, Region
    <3>2. CASE r = rgid /\ o(j) = k
      BY <1>3, <2>2, <2>5, <3>2 DEF Apart, Region
    <3>3. CASE r = rgid /\ o(j) # k
      <4>1. Apart(vm_freerg_list[o(j)], old)
        BY <2>1, <2>2, <3>3 DEF FreeApart
      <4>2. Apart(new, vm_freerg_list[o(j)])
        BY <1>2, <1>3, <2>2, <4>1, ApartFromPart DEF Region
      <4>3. QED
        BY <1>3, <2>2, <2>5, <3>3, <4>2, ApartFromPart DEF Region
    <3>4. QED
      BY <3>1, <3>2, <3>3
  <2>10. AllInArea'
    <3>1. InArea(old)
      BY <2>1 DEF AllInArea
    <3>2. InArea(new)
      BY <1>2, <1>3, <3>1 DEF InArea, TypeOK, Region, new
    <3>3. \A r \in Rgids : InArea(symrgtbl'[r])
      BY <2>1, <2>5, <3>2 DEF AllInArea
    <3>4. \A j \in Free' : InArea(vm_freerg_list'[j])
      <4> TAKE j \in Free'
      <4>1. InArea(vm_freerg_list[o(j)])
        BY <2>1, <2>2 DEF AllInArea
      <4>2. CASE o(j) = k
        BY <1>2, <1>3, <2>2, <3>1, <4>2 DEF InArea, Region
      <4>3. CASE o(j) # k
        <5>1. vm_freerg_list'[j] = vm_freerg_list[o(j)]
          BY <1>1, <1>2, <4>3, CarveElements DEF Free, o
        <5>2. QED
          BY <4>1, <5>1
      <4>4. QED
        BY <4>2, <4>3
    <3>5. QED
      BY <1>1, <3>3, <3>4 DEF AllInArea, InArea
  <2>11. QED
    BY <2>7, <2>8, <2>9, <2>10
<1>7. QED
  BY <1>5, <1>6 DEF IInv

(* A region above all others, if the area has grown to hold it.              *)
LEMMA AllocAtBrkPreserves ==
  ASSUME IInv, NEW rgid \in Rgids, NEW size \in Sizes, AllocAtBrk(rgid, size)
  PROVE  IInv'
<1> DEFINE new == [rg_start |-> sbrk, rg_end |-> sbrk + size]
<1>1. TypeOK /\ size \in Nat /\ sbrk \in Nat
  BY DEF IInv, TypeOK
<1>2. new \in Region
  BY <1>1 DEF Region
<1>3. symrgtbl' = [symrgtbl EXCEPT ![rgid] = new] /\ UNCHANGED vm_freerg_list
  BY DEF AllocAtBrk, Extend, SetRegion
<1>4. TypeOK'
  <2>1. symrgtbl' \in [Rgids -> Region]
    BY <1>1, <1>2, <1>3 DEF TypeOK
  <2>2. sbrk' \in Nat /\ overruns' \in 0 .. MaxOverruns
    BY <1>1 DEF AllocAtBrk, Extend, inc_vma_limit, TypeOK
  <2>3. QED
    BY <1>1, <1>3, <2>1, <2>2 DEF TypeOK
<1>5. RegionsSound'
  <2> SUFFICES ASSUME overruns' = 0
               PROVE  (LiveApart /\ FreeApart /\ LiveFree /\ AllInArea)'
    BY DEF RegionsSound
  (* No extension has failed, so this one has not either.                    *)
  <2>1. overruns = 0 /\ sbrk + size <= sbrk'
    BY <1>1 DEF AllocAtBrk, Extend, inc_vma_limit, TypeOK
  <2>2. LiveApart /\ FreeApart /\ LiveFree /\ AllInArea
    BY <2>1 DEF IInv, RegionsSound
  <2>3. \A r \in Rgids : symrgtbl'[r] = IF r = rgid THEN new ELSE symrgtbl[r]
    BY <1>1, <1>3 DEF TypeOK
  <2>4. /\ \A r \in Rgids : symrgtbl[r] \in Region /\ InArea(symrgtbl[r])
        /\ \A j \in Free : vm_freerg_list[j] \in Region /\ InArea(vm_freerg_list[j])
    BY <1>1, <2>2 DEF TypeOK, AllInArea, Free
  <2>5. \A a \in Region : InArea(a) => Apart(a, new) /\ Apart(new, a)
    BY <1>1, <1>2, ApartFromNew DEF InArea
  <2> HIDE DEF new
  <2>6. LiveApart'
    BY <2>2, <2>3, <2>4, <2>5 DEF LiveApart
  <2>7. FreeApart'
    BY <1>3, <2>2 DEF FreeApart, Free
  <2>8. LiveFree'
    BY <1>3, <2>2, <2>3, <2>4, <2>5 DEF LiveFree, Free
  <2>9. AllInArea'
    <3>1. \A a \in Region : InArea(a) => a.rg_start <= a.rg_end /\ a.rg_end <= sbrk'
      BY <1>1, <1>4, <2>1 DEF InArea, TypeOK, Region
    <3>2. new.rg_start <= new.rg_end /\ new.rg_end <= sbrk'
      BY <1>1, <2>1 DEF new
    <3>3. \A r \in Rgids : /\ symrgtbl'[r].rg_start <= symrgtbl'[r].rg_end
                           /\ symrgtbl'[r].rg_end <= sbrk'
      BY <2>3, <2>4, <3>1, <3>2
    <3>4. QED
      BY <1>3, <2>4, <3>1, <3>3 DEF AllInArea, InArea, Free
  <2>10. QED
    BY <2>6, <2>7, <2>8, <2>9
<1>6. QED
  BY <1>4, <1>5 DEF IInv

(* Space that is taken for an index outside the symbol table: the free       *)
(* regions that are left are parts of those that were there, and the area    *)
(* only grows.                                                               *)
LEMMA LostAllocPreserves ==
  ASSUME IInv, NEW size \in Nat, LostAlloc(size)
  PROVE  IInv'
<1>1. /\ TypeOK /\ sbrk \in Nat /\ sbrk' \in Nat /\ sbrk <= sbrk'
      /\ overruns' \in 0 .. MaxOverruns /\ (overruns' = 0 => overruns = 0)
      /\ UNCHANGED symrgtbl
  BY DEF IInv, TypeOK, LostAlloc, Extend, TakeFree, inc_vma_limit
<1>2. PICK o \in [Free' -> Free] :
        /\ vm_freerg_list' \in Seq(Region) \ {<< >>}
        /\ \A i, j \in Free' : i # j => o[i] # o[j]
        /\ \A j \in Free' :
             /\ vm_freerg_list[o[j]].rg_start <= vm_freerg_list'[j].rg_start
             /\ vm_freerg_list'[j].rg_end = vm_freerg_list[o[j]].rg_end
             /\ \/ vm_freerg_list'[j].rg_start <= vm_freerg_list'[j].rg_end
                \/ vm_freerg_list'[j] = vm_freerg_list[o[j]]
  <2>1. CASE Extend(size)
    <3> DEFINE same == [j \in Free' |-> j]
    <3>1. vm_freerg_list' = vm_freerg_list /\ Free' = Free
      BY <2>1 DEF Extend, Free
    <3>2. /\ same \in [Free' -> Free] /\ \A j \in Free' : same[j] = j
          /\ \A j \in Free : vm_freerg_list[j] \in Region
      BY <1>1, <3>1 DEF TypeOK, Free
    <3>. HIDE DEF same
    <3>3. \A j \in Free : vm_freerg_list[j].rg_start \in Nat
      BY <3>2 DEF Region
    <3>4. vm_freerg_list' \in Seq(Region) \ {<< >>}
      BY <1>1, <3>1 DEF TypeOK
    <3>5. \A j \in Free' : /\ vm_freerg_list[same[j]].rg_start <= vm_freerg_list'[j].rg_start
                           /\ vm_freerg_list'[j].rg_end = vm_freerg_list[same[j]].rg_end
                           /\ \/ vm_freerg_list'[j].rg_start <= vm_freerg_list'[j].rg_end
                              \/ vm_freerg_list'[j] = vm_freerg_list[same[j]]
      BY <3>1, <3>2, <3>3
    <3>6. \A i, j \in Free' : i # j => same[i] # same[j]
      BY <3>2
    <3>7. same \in [Free' -> Free]
      BY <3>2
    <3>. WITNESS same \in [Free' -> Free]
    <3>. QED
      BY <3>4, <3>5, <3>6
  <2>2. CASE \E k \in Free : TakeFree(k, size)
    <3>1. PICK k \in Free : FirstFit(k, size) /\ vm_freerg_list' = Carve(k, size)
      BY <2>2 DEF TakeFree
    <3> DEFINE from == [j \in Free' |-> Origin(k, size, j)]
               old  == vm_freerg_list[k]
    <3>2. vm_freerg_list' \in Seq(Region) \ {<< >>}
      BY <1>1, <3>1, CarveElements
    <3>. HIDE DEF old
    <3>3. /\ from \in [Free' -> Free] /\ \A j \in Free' : from[j] = Origin(k, size, j)
          /\ \A j \in Free' :
               vm_freerg_list'[j] = IF from[j] = k THEN [old EXCEPT !.rg_start = @ + size]
                                                   ELSE vm_freerg_list[from[j]]
      <4>1. Free' = DOMAIN Carve(k, size)
        BY <3>1 DEF Free
      <4>2. \A j \in Free' :
              /\ Origin(k, size, j) \in Free
              /\ vm_freerg_list'[j] =
                   IF Origin(k, size, j) = k THEN [old EXCEPT !.rg_start = @ + size]
                                             ELSE vm_freerg_list[Origin(k, size, j)]
        BY <1>1, <3>1, <4>1, CarveElements DEF old
      <4>. QED
        BY <4>2
    <3>4. \A i, j \in Free' : i # j => from[i] # from[j]
      <4>1. Free' \subseteq Int /\ k \in Int /\ Len(vm_freerg_list) \in Int
        BY <1>1, <3>1, <3>2 DEF TypeOK, Free
      <4>. QED
        BY <3>3, <4>1 DEF Origin
    <3>. HIDE DEF from
    <3>5. \A j \in Free : /\ vm_freerg_list[j] \in Region
                          /\ vm_freerg_list[j].rg_start \in Nat
                          /\ vm_freerg_list[j].rg_end \in Nat
      <4>1. \A j \in Free : vm_freerg_list[j] \in Region
        BY <1>1 DEF TypeOK, Free
      <4>. QED
        BY <4>1 DEF Region
    <3>6. old.rg_start + size <= old.rg_end
      BY <3>1 DEF FirstFit, Fits, old
    <3>7. /\ [old EXCEPT !.rg_start = @ + size].rg_start = old.rg_start + size
          /\ [old EXCEPT !.rg_start = @ + size].rg_end = old.rg_end
      BY <3>1, <3>5 DEF Region, old
    <3>8. ASSUME NEW j \in Free'
          PROVE  /\ vm_freerg_list[from[j]].rg_start <= vm_freerg_list'[j].rg_start
                 /\ vm_freerg_list'[j].rg_end = vm_freerg_list[from[j]].rg_end
                 /\ \/ vm_freerg_list'[j].rg_start <= vm_freerg_list'[j].rg_end
                    \/ vm_freerg_list'[j] = vm_freerg_list[from[j]]
      <4>1. from[j] \in Free
        BY <3>3
      <4>2. CASE from[j] = k
        <5>1. vm_freerg_list'[j] = [old EXCEPT !.rg_start = @ + size]
          BY <3>3, <4>2
        <5>2. /\ vm_freerg_list'[j].rg_start = old.rg_start + size
              /\ vm_freerg_list'[j].rg_end = old.rg_end
          BY <3>7, <5>1
        <5>3. old.rg_start \in Nat /\ vm_freerg_list[from[j]] = old
          BY <3>1, <3>5, <4>2 DEF old
        <5>. QED
          BY <3>6, <5>2, <5>3
      <4>3. CASE from[j] # k
        BY <3>3, <3>5, <4>1, <4>3
      <4>. QED
        BY <4>2, <4>3
    <3>. QED
      BY <3>2, <3>3, <3>4, <3>8
  <2>. QED
    BY <2>1, <2>2 DEF LostAlloc
<1>3. TypeOK'
  BY <1>1, <1>2 DEF TypeOK
<1>4. RegionsSound'
  <2>. SUFFICES ASSUME overruns' = 0
                PROVE  (LiveApart /\ FreeApart /\ LiveFree /\ AllInArea)'
    BY DEF RegionsSound
  <2>1. LiveApart /\ FreeApart /\ LiveFree /\ AllInArea
    BY <1>1 DEF IInv, RegionsSound
  <2>2. /\ \A r \in Rgids : symrgtbl[r] \in Region
        /\ \A k \in Free : vm_freerg_list[k] \in Region
        /\ \A j \in Free' : vm_freerg_list'[j] \in Region
    BY <1>1, <1>3 DEF TypeOK, Free
  <2>3. ASSUME NEW a \in Region, NEW j \in Free', Apart(a, vm_freerg_list[o[j]])
        PROVE  Apart(a, vm_freerg_list'[j]) /\ Apart(vm_freerg_list'[j], a)
    <3> DEFINE b == vm_freerg_list[o[j]]
               c == vm_freerg_list'[j]
    <3>1. b \in Region /\ c \in Region
      BY <1>2, <2>2
    <3>2. b.rg_start <= c.rg_start /\ c.rg_end = b.rg_end
      BY <1>2
    <3>3. c.rg_end <= b.rg_end
      BY <3>1, <3>2 DEF Region
    <3>. QED
      BY <2>3, <3>1, <3>2, <3>3, ApartFromPart
  <2>4. LiveApart'
    BY <1>1, <2>1 DEF LiveApart, Apart
  <2>5. LiveFree'
    <3>1. \A r \in Rgids, j \in Free' : Apart(symrgtbl[r], vm_freerg_list'[j])
      BY <1>2, <2>1, <2>2, <2>3 DEF LiveFree
    <3>. QED
      BY <1>1, <3>1, Zenon DEF LiveFree, Apart
  <2>6. FreeApart'
    <3>1. \A i, j \in Free' : i # j => Apart(vm_freerg_list'[i], vm_freerg_list'[j])
      <4> SUFFICES ASSUME NEW i \in Free', NEW j \in Free', i # j
                   PROVE  Apart(vm_freerg_list'[i], vm_freerg_list'[j])
        OBVIOUS
      <4>1. o[i] \in Free /\ o[j] \in Free /\ o[i] # o[j]
        BY <1>2
      <4>2. Apart(vm_freerg_list[o[j]], vm_freerg_list[o[i]])
        BY <2>1, <4>1 DEF FreeApart
      <4>3. Apart(vm_freerg_list'[i], vm_freerg_list[o[j]])
        BY <2>2, <2>3, <4>1, <4>2
      <4>. QED
        BY <2>2, <2>3, <4>3
    <3>. QED
      BY <3>1 DEF FreeApart, Apart
  <2>7. AllInArea'
    <3>1. \A a \in Region : InArea(a) => a.rg_start <= a.rg_end /\ a.rg_end <= sbrk'
      BY <1>1 DEF InArea, Region
    <3>2. \A r \in Rgids : symrgtbl[r].rg_start <= symrgtbl[r].rg_end /\ symrgtbl[r].rg_end <= sbrk'
      BY <2>1, <2>2, <3>1 DEF AllInArea
    <3>3. \A j \in Free' : /\ vm_freerg_list'[j].rg_start <= vm_freerg_list'[j].rg_end
                           /\ vm_freerg_list'[j].rg_end <= sbrk'
      BY <1>2, <2>1, <2>2, <3>1 DEF AllInArea
    <3>. QED
      BY <1>1, <3>2, <3>3 DEF AllInArea, InArea
  <2>. QED
    BY <2>1, <2>4, <2>5, <2>6, <2>7
<1>. QED
  BY <1>3, <1>4 DEF IInv

(* A region that goes back to the list.                                      *)
LEMMA FreePreserves ==
  ASSUME IInv, NEW rgid \in Rgids, libfree(rgid)
  PROVE  IInv'
<1> DEFINE rg == symrgtbl[rgid]
<1>1. TypeOK /\ rg \in Region /\ Unused \in Region
  BY DEF IInv, TypeOK, Unused, Empty, Region
<1>2. /\ symrgtbl' = [symrgtbl EXCEPT ![rgid] = Unused]
      /\ UNCHANGED <<sbrk, overruns>>
      /\ vm_freerg_list' = IF rg.rg_start < rg.rg_end
                             THEN <<rg>> \o vm_freerg_list ELSE vm_freerg_list
  BY DEF libfree
<1>3. \A r \in Rgids : symrgtbl'[r] = IF r = rgid THEN Unused ELSE symrgtbl[r]
  BY <1>1, <1>2 DEF TypeOK
(* A region of the new list was in the old one, or is the one freed.         *)
<1> DEFINE n == IF rg.rg_start < rg.rg_end THEN 1 ELSE 0
<1>4. /\ vm_freerg_list' \in Seq(Region) \ {<< >>}
      /\ \A j \in Free' : \/ n = 1 /\ j = 1 /\ vm_freerg_list'[j] = rg
                          \/ /\ j - n \in Free /\ j \in Int
                             /\ vm_freerg_list'[j] = vm_freerg_list[j - n]
  <2>1. /\ vm_freerg_list \in Seq(Region) \ {<< >>}
        /\ Len(vm_freerg_list) \in Nat /\ Free = 1 .. Len(vm_freerg_list)
    BY <1>1 DEF TypeOK, Free
  <2>2. CASE ~(rg.rg_start < rg.rg_end)
    BY <1>2, <2>1, <2>2 DEF Free
  <2>3. CASE rg.rg_start < rg.rg_end
    <3>1. <<rg>> \in Seq(Region) /\ Len(<<rg>>) = 1 /\ <<rg>>[1] = rg
      BY <1>1
    <3> HIDE DEF rg
    <3>2. /\ vm_freerg_list' \in Seq(Region)
          /\ Len(vm_freerg_list') = 1 + Len(vm_freerg_list)
          /\ \A j \in 1 .. 1 + Len(vm_freerg_list) :
               vm_freerg_list'[j] = IF j <= 1 THEN <<rg>>[j]
                                              ELSE vm_freerg_list[j - 1]
      BY <1>2, <2>1, <2>3, <3>1, ConcatProperties
    <3>3. QED
      BY <2>1, <2>3, <3>1, <3>2 DEF Free
  <2>4. QED
    BY <2>2, <2>3
<1>5. TypeOK'
  BY <1>1, <1>2, <1>4 DEF TypeOK
<1>6. RegionsSound'
  <2> SUFFICES ASSUME overruns' = 0
               PROVE  (LiveApart /\ FreeApart /\ LiveFree /\ AllInArea)'
    BY DEF RegionsSound
  <2>1. LiveApart /\ FreeApart /\ LiveFree /\ AllInArea
    BY <1>2 DEF IInv, RegionsSound
  <2>2. \A a : Apart(Unused, a) /\ Apart(a, Unused)
    BY DEF Apart, Unused, Empty
  <2>3. \A a, b : Apart(a, b) => Apart(b, a)
    BY DEF Apart
  <2> HIDE DEF n, rg
  <2>4. LiveApart'
    BY <1>3, <2>1, <2>2 DEF LiveApart
  <2>5. FreeApart'
    <3> SUFFICES ASSUME NEW i \in Free', NEW j \in Free', i # j
                 PROVE  Apart(vm_freerg_list'[i], vm_freerg_list'[j])
      BY DEF FreeApart, Apart
    <3>1. \A m \in Free : Apart(rg, vm_freerg_list[m])
      BY <2>1 DEF LiveFree, rg
    <3>2. n \in Int /\ 0 \notin Free
      BY <1>1 DEF n, TypeOK, Free
    <3>3. CASE n = 1 /\ i = 1
      BY <1>4, <2>3, <3>1, <3>2, <3>3
    <3>4. CASE n = 1 /\ j = 1
      BY <1>4, <2>3, <3>1, <3>2, <3>4
    <3>5. CASE ~(n = 1 /\ i = 1) /\ ~(n = 1 /\ j = 1)
      <4>1. i - n \in Free /\ j - n \in Free /\ i - n # j - n
        BY <1>4, <3>2, <3>5
      <4>2. QED
        BY <1>4, <2>1, <3>5, <4>1 DEF FreeApart
    <3>6. QED
      BY <3>3, <3>4, <3>5
  <2>6. LiveFree'
    <3> SUFFICES ASSUME NEW r \in Rgids, NEW j \in Free'
                 PROVE  Apart(symrgtbl'[r], vm_freerg_list'[j])
      BY DEF LiveFree, Apart
    <3>1. CASE r = rgid
      BY <1>3, <2>2, <3>1
    <3>2. CASE r # rgid
      <4>1. Apart(symrgtbl[r], rg)
        BY <2>1, <3>2 DEF LiveApart, rg
      <4>2. \A m \in Free : Apart(symrgtbl[r], vm_freerg_list[m])
        BY <2>1 DEF LiveFree
      <4>3. QED
        BY <1>3, <1>4, <3>2, <4>1, <4>2
    <3>3. QED
      BY <3>1, <3>2
  <2>7. AllInArea'
    <3>1. InArea(rg) /\ InArea(Unused)
      BY <1>1, <2>1 DEF AllInArea, InArea, Unused, Empty, TypeOK, rg
    <3>2. \A r \in Rgids : InArea(symrgtbl'[r])
      BY <1>3, <2>1, <3>1 DEF AllInArea
    <3>3. \A j \in Free' : InArea(vm_freerg_list'[j])
      BY <1>4, <2>1, <3>1 DEF AllInArea
    <3>4. QED
      BY <1>2, <3>2, <3>3 DEF AllInArea, InArea
  <2>8. QED
    BY <2>4, <2>5, <2>6, <2>7
<1>7. QED
  BY <1>5, <1>6 DEF IInv

-----------------------------------------------------------------------------
(* IInv is an invariant: it holds at first and every operation preserves it. *)
THEOREM Invariant == Spec => []IInv
<1>1. IInv /\ [Next]_vars => IInv'
  <2> SUFFICES ASSUME IInv, [Next]_vars PROVE IInv'
    OBVIOUS
  <2>1. ASSUME NEW rgid \in Rgids, NEW size \in Sizes, liballoc(rgid, size)
        PROVE  IInv'
    BY <2>1, AllocFreePreserves, AllocAtBrkPreserves DEF liballoc
  <2>2. ASSUME NEW rgid \in Rgids, libfree(rgid)
        PROVE  IInv'
    BY <2>2, FreePreserves
  <2>3. CASE UNCHANGED vars
    BY <2>3 DEF vars, IInv, TypeOK, RegionsSound, LiveApart, FreeApart,
       LiveFree,
                AllInArea, InArea, Apart, Free
  <2>4. QED
    BY <2>1, <2>2, <2>3 DEF Next
<1>2. QED
  BY InitInvariant, <1>1, PTL DEF Spec

(* The variables of Regions keep their types, and the free list is never     *)
(* empty, so that the first return of get_free_vmrg_area is not taken.       *)
THEOREM TypeCorrect == Spec => []TypeOK
BY Invariant, PTL DEF IInv

(* __alloc and __free keep the regions in use and the free regions disjoint  *)
(* and inside the area, as long as no extension of the area has failed.      *)
THEOREM RegionsStaySound == Spec => []RegionsSound
BY Invariant, PTL DEF IInv

-----------------------------------------------------------------------------
(* No space is lost                                                          *)

(* An address that the tables know is in a region in use or in a free one.   *)
LEMMA KnownAddress ==
  \A a : a \in Known <=> \/ \E r \in Rgids : a \in Addresses(symrgtbl[r])
                         \/ \E k \in Free : a \in Addresses(vm_freerg_list[k])
BY DEF Known

(* The same of the next state.                                               *)
LEMMA KnownNext ==
  \A a : a \in Known' <=> \/ \E r \in Rgids : a \in Addresses(symrgtbl'[r])
                          \/ \E k \in Free' : a \in Addresses(vm_freerg_list'[k])
BY DEF Known, Addresses

(* An unused entry of the symbol table has no address.                       *)
LEMMA UnusedIsEmpty == Addresses(Unused) = {}
BY DEF Addresses, Unused, Empty

(* Carving takes no region off the list but one that is used up.             *)
LEMMA CarveCovers ==
  ASSUME TypeOK, NEW k \in Free, NEW size \in Nat, NEW m \in Free,
         m # k \/ vm_freerg_list[k].rg_start + size # vm_freerg_list[k].rg_end
  PROVE  \E j \in DOMAIN Carve(k, size) :
           Carve(k, size)[j] = IF m = k THEN [vm_freerg_list[k] EXCEPT !.rg_start = @ + size]
                                        ELSE vm_freerg_list[m]
<1>1. /\ vm_freerg_list \in Seq(Region) /\ Len(vm_freerg_list) \in Nat
      /\ k \in 1 .. Len(vm_freerg_list) /\ m \in 1 .. Len(vm_freerg_list)
  BY DEF TypeOK, Free
<1>2. CASE /\ vm_freerg_list[k].rg_start + size = vm_freerg_list[k].rg_end
           /\ k < Len(vm_freerg_list)
  <2>1. Carve(k, size) = RemoveAt(vm_freerg_list, k)
    BY <1>2 DEF Carve
  <2>2. /\ DOMAIN Carve(k, size) = 1 .. Len(vm_freerg_list) - 1
        /\ \A j \in 1 .. Len(vm_freerg_list) - 1 :
             Carve(k, size)[j] = IF j < k THEN vm_freerg_list[j]
                                          ELSE vm_freerg_list[j + 1]
    <3>1. /\ Carve(k, size) \in Seq(Region)
          /\ Len(Carve(k, size)) = Len(vm_freerg_list) - 1
          /\ \A j \in 1 .. Len(vm_freerg_list) - 1 :
               Carve(k, size)[j] = IF j < k THEN vm_freerg_list[j]
                                            ELSE vm_freerg_list[j + 1]
      BY <1>1, <2>1, RemoveAtElements
    <3>. QED
      BY <3>1
  <2>3. CASE m < k
    <3>1. m \in 1 .. Len(vm_freerg_list) - 1 /\ m # k
      BY <1>1, <2>3
    <3>. QED
      BY <2>2, <2>3, <3>1
  <2>4. CASE ~(m < k)
    <3>1. /\ m - 1 \in 1 .. Len(vm_freerg_list) - 1 /\ ~(m - 1 < k)
          /\ (m - 1) + 1 = m /\ m # k
      BY <1>1, <1>2, <2>4
    <3>2. Carve(k, size)[m - 1] = vm_freerg_list[m]
      BY <2>2, <3>1
    <3>. QED
      BY <2>2, <3>1, <3>2
  <2>. QED
    BY <2>3, <2>4
<1>3. CASE ~(/\ vm_freerg_list[k].rg_start + size = vm_freerg_list[k].rg_end
             /\ k < Len(vm_freerg_list))
  <2>1. Carve(k, size) = [vm_freerg_list EXCEPT ![k].rg_start = @ + size]
    BY <1>3 DEF Carve
  <2>2. /\ m \in DOMAIN Carve(k, size)
        /\ Carve(k, size)[m] =
             IF m = k THEN [vm_freerg_list[k] EXCEPT !.rg_start = @ + size]
                      ELSE vm_freerg_list[m]
    BY <1>1, <2>1
  <2>. QED
    BY <2>2
<1>. QED
  BY <1>2, <1>3

(* An allocation from the list loses nothing: what the region held is in the *)
(* new region or in what is left.                                            *)
LEMMA AllocFreeLosesNone ==
  ASSUME TypeOK, NEW rgid \in Rgids, NEW size \in Sizes, AllocFree(rgid, size),
         ~Used(rgid), NEW a \in Known
  PROVE  a \in Known'
<1>1. PICK k \in Free : /\ FirstFit(k, size)
                        /\ SetRegion(rgid, vm_freerg_list[k].rg_start, size)
                        /\ vm_freerg_list' = Carve(k, size)
  BY DEF AllocFree, TakeFree
<1> DEFINE rg == vm_freerg_list[k]
           new == [rg_start |-> rg.rg_start, rg_end |-> rg.rg_start + size]
           rest == [rg EXCEPT !.rg_start = @ + size]
<1>2. size \in Nat /\ rg \in Region /\ symrgtbl \in [Rgids -> Region]
  BY DEF TypeOK, Free
<1>3. /\ symrgtbl'[rgid] = new
      /\ \A r \in Rgids \ {rgid} : symrgtbl'[r] = symrgtbl[r]
  BY <1>1, <1>2 DEF SetRegion
<1>4. CASE \E r \in Rgids : a \in Addresses(symrgtbl[r])
  <2>1. PICK r \in Rgids : a \in Addresses(symrgtbl[r])
    BY <1>4
  <2>2. r # rgid
    BY <2>1, UnusedIsEmpty DEF Used
  <2>. QED
    BY <1>3, <2>1, <2>2, KnownNext
<1>5. CASE \E m \in Free : a \in Addresses(vm_freerg_list[m])
  <2>1. PICK m \in Free : a \in Addresses(vm_freerg_list[m])
    BY <1>5
  <2>2. CASE m # k
    <3>1. \E j \in Free' : vm_freerg_list'[j] = vm_freerg_list[m]
      BY <1>1, <1>2, <2>2, CarveCovers DEF Free
    <3>. QED
      BY <2>1, <3>1, KnownNext
  <2>3. CASE m = k /\ a < rg.rg_start + size
    <3>1. a \in Addresses(new)
      BY <2>1, <2>3 DEF Addresses
    <3>. QED
      BY <1>3, <3>1, KnownNext
  <2>4. CASE m = k /\ ~(a < rg.rg_start + size)
    <3>1. a \in Int /\ rg.rg_start <= a /\ a < rg.rg_end
      BY <2>1, <2>4 DEF Addresses
    <3>2. rg.rg_start \in Nat /\ rg.rg_end \in Nat
      BY <1>2 DEF Region
    <3>3. rg.rg_start + size <= a /\ rg.rg_start + size # rg.rg_end
      BY <1>2, <2>4, <3>1, <3>2
    <3>4. \E j \in Free' : vm_freerg_list'[j] = rest
      BY <1>1, <1>2, <3>3, CarveCovers DEF Free
    <3>5. rest.rg_start = rg.rg_start + size /\ rest.rg_end = rg.rg_end
      BY <1>2 DEF Region
    <3>6. a \in Addresses(rest)
      BY <2>1, <2>4, <3>1, <3>3, <3>5 DEF Addresses
    <3>. QED
      BY <3>4, <3>6, KnownNext
  <2>. QED
    BY <2>2, <2>3, <2>4
<1>. QED
  BY <1>4, <1>5, KnownAddress

(* Neither does one at sbrk, or giving a region back.                        *)
LEMMA OthersLoseNone ==
  ASSUME TypeOK, NEW rgid \in Rgids, NEW a \in Known,
         \/ \E size \in Sizes : AllocAtBrk(rgid, size) /\ ~Used(rgid)
         \/ libfree(rgid)
  PROVE  a \in Known'
<1>1. symrgtbl \in [Rgids -> Region] /\ vm_freerg_list \in Seq(Region)
  BY DEF TypeOK
<1>2. ASSUME NEW size \in Sizes, AllocAtBrk(rgid, size), ~Used(rgid) PROVE a \in Known'
  <2>1. /\ vm_freerg_list' = vm_freerg_list
        /\ \A r \in Rgids \ {rgid} : symrgtbl'[r] = symrgtbl[r]
    BY <1>1, <1>2 DEF AllocAtBrk, Extend, SetRegion
  <2>2. a \notin Addresses(symrgtbl[rgid])
    BY <1>2, UnusedIsEmpty DEF Used
  <2>3. Free' = Free
    BY <2>1 DEF Free
  <2>. QED
    BY <2>1, <2>2, <2>3, KnownAddress, KnownNext
<1>3. ASSUME libfree(rgid) PROVE a \in Known'
  <2> DEFINE rg == symrgtbl[rgid]
  <2>1. \A r \in Rgids \ {rgid} : symrgtbl'[r] = symrgtbl[r]
    BY <1>1, <1>3 DEF libfree
  <2>2. rg \in Region
    BY <1>1
  <2>3. CASE rg.rg_start < rg.rg_end
    <3>1. vm_freerg_list' = <<rg>> \o vm_freerg_list
      BY <1>3, <2>3 DEF libfree
    <3>2. 1 \in Free' /\ vm_freerg_list'[1] = rg
      BY <1>1, <2>2, <3>1 DEF Free
    <3>3. \A k \in Free : k + 1 \in Free' /\ vm_freerg_list'[k + 1] = vm_freerg_list[k]
      BY <1>1, <2>2, <3>1 DEF Free
    <3>4. CASE \E r \in Rgids : a \in Addresses(symrgtbl[r])
      BY <2>1, <3>2, <3>4, KnownNext
    <3>5. CASE \E k \in Free : a \in Addresses(vm_freerg_list[k])
      BY <3>3, <3>5, KnownNext
    <3>. QED
      BY <3>4, <3>5, KnownAddress
  <2>4. CASE ~(rg.rg_start < rg.rg_end)
    <3>1. vm_freerg_list' = vm_freerg_list
      BY <1>3, <2>4 DEF libfree
    <3>2. a \notin Addresses(rg)
      BY <2>2, <2>4 DEF Addresses, Region
    <3>3. Free' = Free
      BY <3>1 DEF Free
    <3>. QED
      BY <2>1, <3>1, <3>2, <3>3, KnownAddress, KnownNext
  <2>. QED
    BY <2>3, <2>4
<1>. QED
  BY <1>2, <1>3

(* No address leaves the tables of libmem.c but by an allocation to a region *)
(* ID that is in use (docs.md:616).                                          *)
THEOREM SpaceIsKept == Spec => NoSpaceLost
<1>1. TypeOK /\ [Next]_vars => [~Reallocates => Known \subseteq Known']_vars
  <2>. SUFFICES ASSUME TypeOK, Next, ~Reallocates, NEW a \in Known
                PROVE  a \in Known'
    BY DEF vars
  <2>1. ASSUME NEW rgid \in Rgids, NEW size \in Sizes, liballoc(rgid, size)
        PROVE  a \in Known'
    <3>1. ~Used(rgid)
      BY <2>1 DEF Reallocates
    <3>. QED
      BY <2>1, <3>1, AllocFreeLosesNone, OthersLoseNone DEF liballoc
  <2>2. ASSUME NEW rgid \in Rgids, libfree(rgid) PROVE a \in Known'
    BY <2>2, OthersLoseNone
  <2>. QED
    BY <2>1, <2>2 DEF Next
<1>. QED
  BY TypeCorrect, <1>1, PTL DEF Spec, NoSpaceLost

-----------------------------------------------------------------------------
(* Free regions are used before the area grows                               *)

(* A set of naturals has a least element.                                    *)
LEMMA LeastElement ==
  ASSUME NEW S, S \subseteq Nat, S # {}
  PROVE  \E m \in S : \A k \in S : m <= k
<1> DEFINE R == OpToRel(<, Nat)
<1>1. \A x, y \in Nat : x < y => <<x, y>> \in R
  BY DEF OpToRel
<1>2. IsWellFoundedOn(R, Nat)
  BY NatLessThanWellFounded
<1> HIDE DEF R
<1>3. PICK m \in S : \A k \in S : ~(<<k, m>> \in R)
  BY <1>2, WFMin
<1>4. \A k \in S : k \in Nat /\ m \in Nat /\ ~(k < m)
  BY <1>1, <1>3
<1>. QED
  BY <1>4

(* The walk of get_free_vmrg_area finds a region if there is one that fits.  *)
LEMMA FirstFitFinds ==
  ASSUME TypeOK, NEW size, NEW k \in Free, Fits(vm_freerg_list[k], size)
  PROVE  \E j \in Free : FirstFit(j, size)
<1> DEFINE S == {j \in Free : Fits(vm_freerg_list[j], size)}
<1>1. Free = 1 .. Len(vm_freerg_list) /\ Len(vm_freerg_list) \in Nat
  BY DEF TypeOK, Free
<1>2. S \subseteq Nat /\ k \in S
  BY <1>1
<1>3. PICK j \in S : \A i \in S : j <= i
  BY <1>2, LeastElement
<1>4. \A i \in 1 .. j - 1 : i \in Free /\ ~(j <= i)
  BY <1>1, <1>3
<1>5. FirstFit(j, size)
  BY <1>3, <1>4 DEF FirstFit
<1>. QED
  BY <1>3, <1>5

(* sbrk moves, or is passed by a region, only when no free region holds the  *)
(* size that is asked for.                                                   *)
THEOREM SpaceIsReused == Spec => ReuseBeforeGrowth
<1> DEFINE Reuses ==
      \A r \in Rgids :
        (sbrk' # sbrk \/ overruns' # overruns) /\ symrgtbl'[r] # symrgtbl[r]
          => LET size == symrgtbl'[r].rg_end - symrgtbl'[r].rg_start
             IN  \A k \in Free : ~Fits(vm_freerg_list[k], size)
<1>1. TypeOK /\ [Next]_vars => [Reuses]_vars
  <2>. SUFFICES ASSUME TypeOK, Next, NEW r \in Rgids, NEW k \in Free,
                       sbrk' # sbrk \/ overruns' # overruns, symrgtbl'[r] # symrgtbl[r]
                PROVE  ~Fits(vm_freerg_list[k], symrgtbl'[r].rg_end - symrgtbl'[r].rg_start)
    BY DEF vars
  <2>1. PICK rgid \in Rgids, size \in Sizes : AllocAtBrk(rgid, size)
    BY DEF Next, liballoc, AllocFree, TakeFree, libfree
  <2>2. symrgtbl \in [Rgids -> Region] /\ sbrk \in Nat /\ size \in Nat
    BY DEF TypeOK
  <2>3. symrgtbl'[r] = [rg_start |-> sbrk, rg_end |-> sbrk + size]
    BY <2>1, <2>2 DEF AllocAtBrk, SetRegion
  <2>4. symrgtbl'[r].rg_end - symrgtbl'[r].rg_start = size
    BY <2>2, <2>3
  <2>5. \A j \in Free : ~FirstFit(j, size)
    BY <2>1 DEF AllocAtBrk, Extend
  <2>. QED
    BY <2>4, <2>5, FirstFitFinds
<1>. QED
  BY TypeCorrect, <1>1, PTL DEF Spec, ReuseBeforeGrowth
=============================================================================
