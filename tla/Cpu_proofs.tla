------------------------------ MODULE Cpu_proofs ------------------------------
(***************************************************************************)
(* Proofs about Cpu, for any number of processes, any program files, any   *)
(* set of region IDs and sizes and any limit of the area.  The inductive   *)
(* invariant, IInv, says that the code of a loaded process is what its     *)
(* file stands for and that pc counts what the process has executed        *)
(* (ProgramInv), that the regions are sound and as large as the programs   *)
(* have asked for (RegionInv), and where the last access went (AccessInv). *)
(* What is known of the regions themselves comes from Regions_proofs.      *)
(***************************************************************************)
EXTENDS Cpu, SequenceTheorems, WellFoundedInduction, TLAPS

-----------------------------------------------------------------------------
(* What the loader makes of a file                                           *)

Instr    == [op : Opcodes, args : [1 .. 4 -> Nat \cup {Uninit}]]
Executed == [op : Opcodes, args : Seq(Nat \cup {Uninit})]

(* What run passes on of an instruction.                                     *)
Call(ins) == [op |-> ins.op, args |-> SubSeq(ins.args, 1, Operands(ins.op))]

(* The instruction at k stands in line k, or repeats the last line, with its *)
(* operands or without.                                                      *)
Upto(file, k) == IF k <= Len(file.lines) THEN file.lines[k] ELSE file.lines[Len(file.lines)]

IsLine(file, k, call) ==
  \/ call = Program!Line(Upto(file, k).op, Upto(file, k).args)
  \/ k > Len(file.lines) /\ call = Program!Line(Upto(file, k).op, << >>)

IsCode(file, n, code) == /\ code \in Seq(Instr) /\ Len(code) = n
                         /\ \A k \in 1 .. n : IsLine(file, k, Call(code[k]))

(* The loader after i instructions of the file, unless it has refused one.   *)
Reading == [line : Nat, left : Seq(Nat), op : STRING \cup {""}, buf : Seq(Nat),
            code : Seq(Instr), bad : BOOLEAN]

ReadSoFar(file, i, at) ==
  /\ at \in Reading
  /\ ~at.bad => /\ at.line = i + 1 /\ IsCode(file, i, at.code)
                /\ i > 0 => /\ at.op = Upto(file, i).op
                            /\ at.op \in RestOfLine => at.buf = Upto(file, i).args

(* A file has lines, so that there is one to stand for every instruction.    *)
LEMMA Lines ==
  ASSUME NEW file \in Files, NEW k \in Nat \ {0}
  PROVE  /\ Len(file.lines) \in Nat \ {0} /\ Upto(file, k).op \in STRING
         /\ Upto(file, k).args \in Seq(Nat)
<1>1. file.lines \in Seq([op : STRING, args : Seq(Nat)]) /\ file.lines # << >>
  BY FilesAssumption
<1>2. Len(file.lines) \in Nat \ {0}
  BY <1>1
<1>3. Upto(file, k) \in [op : STRING, args : Seq(Nat)]
  <2> DEFINE j == IF k <= Len(file.lines) THEN k ELSE Len(file.lines)
  <2>1. j \in 1 .. Len(file.lines)
    BY <1>2
  <2>2. file.lines[j] \in [op : STRING, args : Seq(Nat)]
    BY <1>1, <2>1, ElementOfSeq
  <2>3. Upto(file, k) = file.lines[j]
    BY DEF Upto
  <2>. QED
    BY <2>2, <2>3
<1>. QED
  BY <1>2, <1>3

(* run passes on at most the four operands of inst_t, and all of them for    *)
(* the operations whose operands come from the rest of the line.             *)
LEMMA OperandsOf ==
  ASSUME NEW op
  PROVE  Operands(op) \in 0 .. 4 /\ (op \in RestOfLine => op \in Opcodes /\ Operands(op) = 4)
BY DEF Operands, Opcodes, Arity, RestOfLine

(* A prefix of a sequence, as a function.                                    *)
LEMMA Prefix ==
  ASSUME NEW S, NEW f \in Seq(S), NEW n \in 0 .. Len(f)
  PROVE  SubSeq(f, 1, n) = [j \in 1 .. n |-> f[j]]
OBVIOUS

(* The four operand slots of an instruction are a sequence.                  *)
LEMMA FourSeq ==
  ASSUME NEW S, NEW f \in [1 .. 4 -> S]
  PROVE  f \in Seq(S) /\ Len(f) = 4
<1>1. f = [j \in 1 .. 4 |-> f[j]] /\ \A j \in 1 .. 4 : f[j] \in S
  OBVIOUS
<1>. QED
  BY <1>1

(* Operand slots hold numbers or what malloc left in them.                   *)
LEMMA PaddedType ==
  ASSUME NEW args \in Seq(Nat), NEW n \in 0 .. 4
  PROVE  Padded(args, n) \in [1 .. 4 -> Nat \cup {Uninit}]
BY DEF Padded

(* What run passes on of padded operands.                                    *)
LEMMA PaddedCall ==
  ASSUME NEW op \in Opcodes, NEW args \in Seq(Nat),
         NEW n, n = Operands(op)
  PROVE  /\ [op |-> op, args |-> Padded(args, n)] \in Instr
         /\ Call([op |-> op, args |-> Padded(args, n)]) = Program!Line(op, args)
<1> DEFINE f == Padded(args, n)
<1>1. n \in 0 .. 4
  BY OperandsOf
<1>2. f \in [1 .. 4 -> Nat \cup {Uninit}]
  BY <1>1, PaddedType
<1>3. f \in Seq(Nat \cup {Uninit}) /\ Len(f) = 4
  BY <1>2, FourSeq
<1>4. \A j \in 1 .. n : f[j] = IF j <= Len(args) THEN args[j] ELSE Uninit
  BY <1>1 DEF Padded
<1>. HIDE DEF f
<1>5. SubSeq(f, 1, n) = [j \in 1 .. n |-> f[j]]
  BY <1>1, <1>3, Prefix
<1>6. SubSeq(f, 1, n) = [j \in 1 .. n |-> IF j <= Len(args) THEN args[j] ELSE Uninit]
  BY <1>4, <1>5
<1>. QED
  BY <1>2, <1>6 DEF f, Instr, Call, Program!Line

(* Code grows by an instruction that stands in the next line.                *)
LEMMA AppendCode ==
  ASSUME NEW file, NEW i \in Nat, NEW code, IsCode(file, i, code),
         NEW ins \in Instr, IsLine(file, i + 1, Call(ins))
  PROVE  IsCode(file, i + 1, Append(code, ins))
<1>1. code \in Seq(Instr) /\ Len(code) = i
  BY DEF IsCode
<1>2. /\ Append(code, ins) \in Seq(Instr) /\ Len(Append(code, ins)) = i + 1
      /\ Append(code, ins)[i + 1] = ins
      /\ \A k \in 1 .. i : Append(code, ins)[k] = code[k]
  BY <1>1, AppendProperties
<1>3. \A k \in 1 .. i + 1 : k = i + 1 \/ k \in 1 .. i
  OBVIOUS
<1>. QED
  BY <1>2, <1>3 DEF IsCode

(* Before its loop, load has read nothing.                                   *)
LEMMA StartSoFar == ASSUME NEW file PROVE ReadSoFar(file, 0, Start)
<1>1. << >> \in Seq(Instr) /\ << >> \in Seq(Nat) /\ Len(<< >>) = 0
  OBVIOUS
<1>2. IsCode(file, 0, << >>)
  BY <1>1 DEF IsCode
<1>. QED
  <2>1. Start \in Reading
    BY <1>1 DEF Reading, Start
  <2>2. Start.line = 0 + 1 /\ Start.code = << >>
    BY DEF Start
  <2>. QED
    BY <1>2, <2>1, <2>2 DEF ReadSoFar

(* One turn of the loop of load.                                             *)
LEMMA ReadOne ==
  ASSUME NEW file \in Files, NEW i \in Nat, NEW at, ReadSoFar(file, i, at)
  PROVE  ReadSoFar(file, i + 1, ReadInstruction(file, at))
<1> DEFINE eof   == at.line > Len(file.lines)
           op    == IF eof THEN at.op ELSE file.lines[at.line].op
           words == IF eof THEN << >> ELSE file.lines[at.line].args
           buf   == IF op \in RestOfLine /\ ~eof THEN words ELSE at.buf
           left  == IF op \in RestOfLine THEN << >>
                    ELSE SubSeq(words, Operands(op) + 1, Len(words))
           ins   == [op |-> op, args |-> IF op \in RestOfLine THEN Padded(buf, 4)
                                         ELSE Padded(words, Operands(op))]
           next  == [line |-> at.line + 1, op |-> op, buf |-> buf, bad |-> FALSE,
                     left |-> left, code |-> Append(at.code, ins)]
<1>1. ReadInstruction(file, at) =
        IF at.bad \/ Refused(at, op) THEN [at EXCEPT !.bad = TRUE] ELSE next
  BY DEF ReadInstruction
<1>2. at \in Reading
  BY DEF ReadSoFar
<1>3. CASE at.bad \/ Refused(at, op)
  <2>1. ReadInstruction(file, at) = [at EXCEPT !.bad = TRUE]
    BY <1>1, <1>3
  <2>2. [at EXCEPT !.bad = TRUE] \in Reading /\ [at EXCEPT !.bad = TRUE].bad
    BY <1>2 DEF Reading
  <2>. QED
    BY <2>1, <2>2 DEF ReadSoFar
<1>4. CASE ~(at.bad \/ Refused(at, op))
  <2>1. /\ at.line = i + 1 /\ IsCode(file, i, at.code) /\ op \in Opcodes
        /\ i > 0 => /\ at.op = Upto(file, i).op
                    /\ at.op \in RestOfLine => at.buf = Upto(file, i).args
    BY <1>4 DEF ReadSoFar, Refused
  <2>2. /\ Len(file.lines) \in Nat \ {0} /\ Upto(file, i + 1).op \in STRING
        /\ Upto(file, i + 1).args \in Seq(Nat)
    BY Lines
  <2>3. op = Upto(file, i + 1).op
    <3>1. eof => i > 0 /\ Upto(file, i) = Upto(file, i + 1)
      BY <2>1, <2>2 DEF Upto
    <3>2. ~eof => Upto(file, i + 1) = file.lines[at.line]
      BY <2>1, <2>2 DEF Upto
    <3>. QED
      BY <2>1, <3>1, <3>2
  <2>4. words = IF i + 1 > Len(file.lines) THEN << >> ELSE Upto(file, i + 1).args
    BY <2>1, <2>2 DEF Upto
  <2>5. op \in RestOfLine => buf = Upto(file, i + 1).args
    <3>1. eof => i > 0 /\ Upto(file, i) = Upto(file, i + 1)
      BY <2>1, <2>2 DEF Upto
    <3>2. ~eof => Upto(file, i + 1) = file.lines[at.line]
      BY <2>1, <2>2 DEF Upto
    <3>. QED
      BY <2>1, <3>1, <3>2
  <2>6. buf \in Seq(Nat) /\ words \in Seq(Nat) /\ left \in Seq(Nat)
    <3>1. words \in Seq(Nat)
      <4>. HIDE DEF words
      <4>1. << >> \in Seq(Nat)
        OBVIOUS
      <4>. QED
        BY <2>2, <2>4, <4>1
    <3>2. buf \in Seq(Nat)
      <4>1. at.buf \in Seq(Nat)
        BY <1>2 DEF Reading
      <4>. HIDE DEF words, op
      <4>. QED
        BY <3>1, <4>1
    <3>3. left \in Seq(Nat)
      <4>. HIDE DEF words, op
      <4>1. Len(words) \in Int /\ Operands(op) + 1 \in Int /\ Operands(op) + 1 >= 1
        BY <3>1, OperandsOf
      <4>2. \A j \in Operands(op) + 1 .. Len(words) : words[j] \in Nat
        BY <3>1, <4>1
      <4>3. SubSeq(words, Operands(op) + 1, Len(words)) \in Seq(Nat)
        BY <4>1, <4>2, SubSeqProperties
      <4>. QED
        BY <4>3
    <3>. QED
      BY <3>1, <3>2, <3>3
  <2>. HIDE DEF eof, op, words, buf, left
  <2>7. ins \in Instr /\ IsLine(file, i + 1, Call(ins))
    <3>1. CASE op \in RestOfLine
      <4>1. ins = [op |-> op, args |-> Padded(buf, 4)]
        BY <3>1
      <4>2. Operands(op) = 4
        BY <3>1, OperandsOf
      <4>3. ins \in Instr /\ Call(ins) = Program!Line(op, buf)
        BY <2>1, <2>6, <4>1, <4>2, PaddedCall
      <4>. QED
        BY <2>3, <2>5, <3>1, <4>3 DEF IsLine
    <3>2. CASE op \notin RestOfLine
      <4>1. ins = [op |-> op, args |-> Padded(words, Operands(op))]
        BY <3>2
      <4>2. ins \in Instr /\ Call(ins) = Program!Line(op, words)
        BY <2>1, <2>6, <4>1, PaddedCall
      <4>. QED
        BY <2>3, <2>4, <4>2 DEF IsLine
    <3>. QED
      BY <3>1, <3>2
  <2>8. IsCode(file, i + 1, Append(at.code, ins)) /\ Append(at.code, ins) \in Seq(Instr)
    <3>. HIDE DEF ins
    <3>. QED
      BY <2>1, <2>7, AppendCode DEF IsCode
  <2>. HIDE DEF ins
  <2>9. next \in Reading /\ ~next.bad
    <3>1. at.line + 1 \in Nat
      BY <2>1
    <3>2. op \in STRING \cup {""}
      BY <2>2, <2>3, Zenon
    <3>. HIDE DEF IsCode
    <3>. QED
      BY <2>6, <2>8, <3>1, <3>2 DEF Reading
  <2>10. /\ next.line = (i + 1) + 1 /\ next.code = Append(at.code, ins)
         /\ next.op = op /\ next.buf = buf
    BY <2>1
  <2>. HIDE DEF next
  <2>11. ReadSoFar(file, i + 1, next)
    BY <2>3, <2>5, <2>8, <2>9, <2>10 DEF ReadSoFar
  <2>. QED
    BY <1>1, <1>4, <2>11
<1>. QED
  BY <1>3, <1>4

(* Induction, as it is used below: a set of naturals has a least element.    *)
LEMMA LeastElement ==
  ASSUME NEW S, S \subseteq Nat, S # {}
  PROVE  \E m \in S : \A k \in S : m <= k
<1> DEFINE R == OpToRel(<, Nat)
<1>1. \A x, y \in Nat : x < y => <<x, y>> \in R
  BY DEF OpToRel
<1>2. IsWellFoundedOn(R, Nat)
  BY NatLessThanWellFounded
<1> HIDE DEF R
<1>3. PICK m \in S : \A k \in S : ~(<<k, m>> \in R)
  BY <1>2, WFMin
<1>4. \A k \in S : k \in Nat /\ m \in Nat /\ ~(k < m)
  BY <1>1, <1>3
<1>. QED
  BY <1>4


(* load: the recursion of Loaded is well-founded, and ReadOne is its step.   *)
LEMMA LoadedCode ==
  ASSUME NEW file \in Files
  PROVE  /\ Loaded(file).bad \in BOOLEAN
         /\ ~Loaded(file).bad => IsCode(file, file.size, Loaded(file).code)
<1> DEFINE From(g, i) == IF i = 0 THEN Start ELSE ReadInstruction(file, g[i - 1])
           IsUpto(g, n) == g = [i \in 0 .. n |-> From(g, i)]
           at == CHOOSE g : IsUpto(g, file.size)
<1>1. file.size \in Nat
  BY FilesAssumption
<1>2. \A n \in Nat : \E g : IsUpto(g, n)
  <2> DEFINE S == {n \in Nat : ~\E g : IsUpto(g, n)}
  <2>. SUFFICES ASSUME S # {} PROVE FALSE
    OBVIOUS
  <2>1. PICK n \in S : \A k \in S : n <= k
    <3>. S \subseteq Nat
      OBVIOUS
    <3>. HIDE DEF S
    <3>. QED
      BY LeastElement
  <2>2. n # 0
    <3> DEFINE g == [i \in 0 .. 0 |-> Start]
    <3>1. \A i \in 0 .. 0 : From(g, i) = Start
      OBVIOUS
    <3>2. IsUpto(g, 0)
      BY <3>1
    <3>3. 0 \notin S
      BY <3>2
    <3>. QED
      BY <2>1, <3>3
  <2>3. n - 1 \in Nat /\ n - 1 \notin S
    <3>. S \subseteq Nat
      OBVIOUS
    <3>. HIDE DEF S
    <3>. QED
      BY <2>1, <2>2
  <2>4. PICK g : IsUpto(g, n - 1)
    BY <2>3
  <2> DEFINE h == [i \in 0 .. n |-> IF i < n THEN g[i] ELSE From(g, n)]
  <2>5. IsUpto(h, n)
    <3>. SUFFICES ASSUME NEW i \in 0 .. n PROVE h[i] = From(h, i)
      OBVIOUS
    <3>1. i # 0 => i - 1 \in 0 .. n - 1 /\ h[i - 1] = g[i - 1]
      BY <2>1
    <3>2. CASE i < n
      <4>1. i \in 0 .. n - 1
        BY <2>1, <3>2
      <4>2. g[i] = From(g, i)
        BY <2>4, <4>1
      <4>. QED
        BY <3>1, <3>2, <4>2
    <3>3. CASE ~(i < n)
      BY <2>1, <2>2, <3>1, <3>3
    <3>. QED
      BY <3>2, <3>3
  <2>. QED
    BY <2>1, <2>5
<1>3. IsUpto(at, file.size)
  <2>. HIDE DEF IsUpto
  <2>. QED
    BY <1>1, <1>2
<1>4. Loaded(file) = at[file.size]
  BY DEF Loaded
<1>. HIDE DEF at
<1>5. \A i \in 0 .. file.size : ReadSoFar(file, i, at[i])
  <2> DEFINE S == {i \in 0 .. file.size : ~ReadSoFar(file, i, at[i])}
  <2>. SUFFICES ASSUME S # {} PROVE FALSE
    OBVIOUS
  <2>1. PICK m \in S : \A k \in S : m <= k
    <3>. S \subseteq Nat
      BY <1>1
    <3>. HIDE DEF S
    <3>. QED
      BY LeastElement
  <2>2. CASE m = 0
    <3>1. at[0] = Start
      BY <1>1, <1>3
    <3>. QED
      BY <2>1, <2>2, <3>1, StartSoFar
  <2>3. CASE m # 0
    <3>1. m - 1 \in 0 .. file.size /\ m - 1 \in Nat /\ m - 1 \notin S /\ (m - 1) + 1 = m
      BY <1>1, <2>1, <2>3
    <3>2. ReadSoFar(file, m - 1, at[m - 1])
      BY <3>1
    <3>3. at[m] = ReadInstruction(file, at[m - 1])
      BY <1>1, <1>3, <2>1, <2>3
    <3>4. ReadSoFar(file, m, at[m])
      BY <3>1, <3>2, <3>3, ReadOne
    <3>. QED
      BY <2>1, <3>4
  <2>. QED
    BY <2>2, <2>3
<1>6. ReadSoFar(file, file.size, at[file.size])
  BY <1>1, <1>5
<1>. QED
  BY <1>4, <1>6 DEF ReadSoFar, Reading

-----------------------------------------------------------------------------
(* The regions of Regions                                                    *)

RP == INSTANCE Regions_proofs

(* The theorems about Regions are theorems about the instance of it here.    *)
LEMMA SameInv == RP!IInv <=> Mm!TypeOK /\ Mm!RegionsSound
<1>1. RP!TypeOK <=> Mm!TypeOK
  BY DEF RP!TypeOK, Mm!TypeOK, RP!Region, Mm!Region
<1>2. RP!RegionsSound <=> Mm!RegionsSound
  BY DEF RP!RegionsSound, RP!LiveApart, RP!FreeApart, RP!LiveFree, RP!AllInArea, RP!InArea,
     RP!Apart, RP!Free, Mm!RegionsSound, Mm!LiveApart, Mm!FreeApart, Mm!LiveFree,
     Mm!AllInArea, Mm!InArea, Mm!Apart, Mm!Free
<1>. QED
  BY <1>1, <1>2 DEF RP!IInv

(* The same of the next state.                                               *)
LEMMA SameInvNext == RP!IInv' <=> Mm!TypeOK' /\ Mm!RegionsSound'
BY SameInv, PTL

(* What libfree keeps, as Regions_proofs shows (libmem.c:135-170).           *)
LEMMA FreeKeeps ==
  ASSUME Mm!TypeOK, Mm!RegionsSound, NEW reg \in Rgids, Mm!libfree(reg)
  PROVE  /\ Mm!TypeOK' /\ Mm!RegionsSound'
         /\ symrgtbl' = [symrgtbl EXCEPT ![reg] = [rg_start |-> 0, rg_end |-> 0]]
<1>1. RP!libfree(reg)
  BY DEF RP!libfree, Mm!libfree, RP!Used, Mm!Used, RP!Unused, Mm!Unused, RP!Empty, Mm!Empty
<1>2. RP!IInv'
  BY RegionsAssumption, SameInv, <1>1, RP!FreePreserves
<1>3. symrgtbl' = [symrgtbl EXCEPT ![reg] = [rg_start |-> 0, rg_end |-> 0]]
  BY DEF Mm!libfree, Mm!Unused, Mm!Empty
<1>. QED
  BY <1>2, <1>3, SameInvNext

(* What liballoc keeps, as Regions_proofs shows (libmem.c:71-126).           *)
LEMMA AllocKeeps ==
  ASSUME Mm!TypeOK, Mm!RegionsSound, NEW reg \in Rgids, NEW size \in Sizes,
         Mm!liballoc(reg, size)
  PROVE  /\ Mm!TypeOK' /\ Mm!RegionsSound'
         /\ \E start \in Nat :
              symrgtbl' = [symrgtbl EXCEPT ![reg] = [rg_start |-> start, rg_end |-> start + size]]
<1>1. RP!AllocFree(reg, size) \/ RP!AllocAtBrk(reg, size)
  BY DEF Mm!liballoc, RP!AllocFree, Mm!AllocFree, RP!AllocAtBrk, Mm!AllocAtBrk,
     RP!TakeFree, Mm!TakeFree, RP!Extend, Mm!Extend, RP!FirstFit, Mm!FirstFit, RP!Fits, Mm!Fits,
     RP!Free, Mm!Free, RP!SetRegion, Mm!SetRegion, RP!inc_vma_limit, Mm!inc_vma_limit,
     RP!Carve, Mm!Carve, RP!RemoveAt, Mm!RemoveAt
<1>2. RP!IInv'
  BY RegionsAssumption, SameInv, <1>1, RP!AllocFreePreserves, RP!AllocAtBrkPreserves
<1>3. \E start \in Nat : Mm!SetRegion(reg, start, size)
  <2>1. CASE Mm!AllocFree(reg, size)
    <3>1. PICK k \in Mm!Free : Mm!SetRegion(reg, vm_freerg_list[k].rg_start, size)
      BY <2>1 DEF Mm!AllocFree
    <3>2. vm_freerg_list[k] \in Mm!Region
      BY DEF Mm!TypeOK, Mm!Free
    <3>3. vm_freerg_list[k].rg_start \in Nat
      BY <3>2 DEF Mm!Region
    <3>. QED
      BY <3>1, <3>3
  <2>2. CASE Mm!AllocAtBrk(reg, size)
    BY <2>2 DEF Mm!AllocAtBrk, Mm!TypeOK
  <2>. QED
    BY <2>1, <2>2 DEF Mm!liballoc
<1>. QED
  BY <1>2, <1>3, SameInvNext DEF Mm!SetRegion

(* The same of an index outside the symbol table (libmem.c:79-82, 115).      *)
LEMMA LostAllocKeeps ==
  ASSUME Mm!TypeOK, Mm!RegionsSound, NEW size \in Sizes, Mm!LostAlloc(size)
  PROVE  Mm!TypeOK' /\ Mm!RegionsSound' /\ UNCHANGED symrgtbl
<1>1. RP!LostAlloc(size)
  BY DEF Mm!LostAlloc, RP!LostAlloc, RP!TakeFree, Mm!TakeFree, RP!Extend, Mm!Extend,
     RP!FirstFit, Mm!FirstFit, RP!Fits, Mm!Fits, RP!Free, Mm!Free,
     RP!inc_vma_limit, Mm!inc_vma_limit, RP!Carve, Mm!Carve, RP!RemoveAt, Mm!RemoveAt
<1>2. RP!IInv'
  BY RegionsAssumption, SameInv, <1>1, RP!LostAllocPreserves
<1>. QED
  BY <1>2, SameInvNext DEF Mm!LostAlloc

-----------------------------------------------------------------------------
(* The inductive invariant                                                   *)

TypeInv == /\ program \in [Procs -> Files] /\ avail_pid \in 1 .. NumProcs + 1
           /\ exited \in BOOLEAN
           /\ text \in [Procs -> Seq(Instr)] /\ pc \in [Procs -> Nat]
           /\ log \in [Procs -> Seq(Executed)]

(* A loaded process has the code of its file, and has executed what lies     *)
(* before its pc.                                                            *)
ProgramInv ==
  \A p \in Procs :
    /\ IF p < avail_pid THEN IsCode(program[p], program[p].size, text[p]) ELSE text[p] = << >>
    /\ pc[p] <= Len(text[p]) /\ Len(log[p]) = pc[p]

(* The regions are sound, and as large as the programs have asked for.       *)
RegionInv == /\ Mm!TypeOK /\ Mm!RegionsSound
             /\ want \in [Rgids -> Nat] /\ RegionsMatchPrograms

(* The access of the last step is at its offset from its region.             *)
AccessInv == \/ access = None
             \/ /\ access.reg \in Rgids /\ access.offset \in Nat
                /\ access.address = symrgtbl[access.reg].rg_start + access.offset

IInv == TypeInv /\ ProgramInv /\ RegionInv /\ AccessInv

(* IInv holds before anything is loaded.                                     *)
LEMMA InitIInv == Init => IInv
<1>. SUFFICES ASSUME Init PROVE IInv
  OBVIOUS
<1>1. TypeInv
  <2>1. << >> \in Seq(Instr) /\ << >> \in Seq(Executed)
    OBVIOUS
  <2>2. 1 \in 1 .. NumProcs + 1
    BY ProcsAssumption
  <2>. QED
    BY <2>1, <2>2 DEF Init, TypeInv
<1>2. ProgramInv
  BY DEF Init, ProgramInv, Procs
<1>3. RegionInv
  <2>1. RP!IInv
    <3>1. RP!Init
      BY DEF Init, Mm!Init, RP!Init, Mm!Empty, RP!Empty, Mm!Unused, RP!Unused
    <3>. QED
      BY <3>1, RegionsAssumption, RP!InitInvariant
  <2>. QED
    BY <2>1, SameInv DEF Init, Mm!Init, Mm!Unused, Mm!Empty, RegionInv, RegionsMatchPrograms
<1>. QED
  BY <1>1, <1>2, <1>3 DEF Init, IInv, AccessInv

(* A step that leaves the loader and the programs alone.                     *)
LEMMA InstructionRuns ==
  ASSUME IInv, NEW p \in Procs, NEW ops, Run(p, ops)
  PROVE  /\ TypeInv /\ Ins(p) \in Instr /\ p < avail_pid /\ ~exited
         /\ exited' \in BOOLEAN => TypeInv'
         /\ ProgramInv'
<1>1. TypeInv /\ ProgramInv
  BY DEF IInv
<1>2. /\ pc' = [pc EXCEPT ![p] = @ + 1] /\ log' = [log EXCEPT ![p] = Append(@, Call(Ins(p)))]
      /\ UNCHANGED loadVars /\ p < avail_pid /\ ~exited /\ pc[p] < Len(text[p])
  BY DEF Run, Running, Call
<1>3. pc[p] \in Nat /\ text[p] \in Seq(Instr) /\ log[p] \in Seq(Executed)
  BY <1>1 DEF TypeInv
<1>4. pc[p] + 1 \in 1 .. Len(text[p])
  BY <1>2, <1>3
<1>5. Ins(p) \in Instr
  BY <1>3, <1>4, ElementOfSeq DEF Ins
<1>6. Call(Ins(p)) \in Executed
  <2>1. Ins(p).op \in Opcodes /\ Ins(p).args \in [1 .. 4 -> Nat \cup {Uninit}]
    BY <1>5 DEF Instr
  <2>2. Ins(p).args \in Seq(Nat \cup {Uninit}) /\ Len(Ins(p).args) = 4
    BY <2>1, FourSeq
  <2>3. SubSeq(Ins(p).args, 1, Operands(Ins(p).op)) \in Seq(Nat \cup {Uninit})
    <3>1. Operands(Ins(p).op) \in 0 .. 4
      BY OperandsOf
    <3>. QED
      BY <2>2, <3>1
  <2>. QED
    BY <2>1, <2>3 DEF Call, Executed
<1>7. Append(log[p], Call(Ins(p))) \in Seq(Executed) /\ Len(Append(log[p], Call(Ins(p)))) = Len(log[p]) + 1
  BY <1>3, <1>6, AppendProperties
<1>8. exited' \in BOOLEAN => TypeInv'
  BY <1>1, <1>2, <1>3, <1>7 DEF TypeInv, loadVars
<1>9. ProgramInv'
  <2>. SUFFICES ASSUME NEW q \in Procs
       PROVE  /\ IF q < avail_pid THEN IsCode(program[q], program[q].size, text[q])
                 ELSE text[q] = << >>
              /\ pc'[q] <= Len(text[q]) /\ Len(log'[q]) = pc'[q]
    BY <1>2 DEF ProgramInv, loadVars
  <2>1. /\ IF q < avail_pid THEN IsCode(program[q], program[q].size, text[q])
           ELSE text[q] = << >>
        /\ pc[q] <= Len(text[q]) /\ Len(log[q]) = pc[q]
    BY <1>1 DEF ProgramInv
  <2>2. CASE q = p
    <3>1. pc'[q] = pc[p] + 1 /\ log'[q] = Append(log[p], Call(Ins(p)))
      BY <1>1, <1>2, <2>2 DEF TypeInv
    <3>. QED
      BY <1>4, <1>7, <2>1, <2>2, <3>1
  <2>3. CASE q # p
    BY <1>1, <1>2, <2>1, <2>3 DEF TypeInv
  <2>. QED
    BY <2>2, <2>3
<1>. QED
  BY <1>1, <1>2, <1>5, <1>8, <1>9

(* load: the next process gets the code of its file; a file that is refused  *)
(* ends the simulator.                                                       *)
LEMMA LoadStep == IInv /\ load => IInv'
<1>. SUFFICES ASSUME IInv, load PROVE IInv'
  OBVIOUS
<1> DEFINE read == Loaded(program[avail_pid])
<1>1. TypeInv /\ ProgramInv /\ RegionInv
  BY DEF IInv
<1>2. /\ avail_pid \in Procs /\ program[avail_pid] \in Files
      /\ access' = None /\ UNCHANGED <<program, pc, regs, log, want, mmVars>>
  BY <1>1 DEF load, TypeInv
<1>3. IF read.bad THEN exited' = TRUE /\ UNCHANGED <<avail_pid, text>>
      ELSE /\ text' = [text EXCEPT ![avail_pid] = read.code]
           /\ avail_pid' = avail_pid + 1 /\ UNCHANGED exited
  BY DEF load
<1>4. /\ read.bad \in BOOLEAN
      /\ ~read.bad => IsCode(program[avail_pid], program[avail_pid].size, read.code)
  BY <1>2, LoadedCode
<1>. HIDE DEF read
<1>5. RegionInv' /\ AccessInv'
  <2>1. RegionInv'
    BY <1>1, <1>2 DEF RegionInv, mmVars, Mm!TypeOK, Mm!RegionsSound, Mm!LiveApart, Mm!FreeApart,
       Mm!LiveFree, Mm!AllInArea, Mm!InArea, Mm!Apart, Mm!Free, RegionsMatchPrograms
  <2>. QED
    BY <1>2, <2>1 DEF AccessInv
<1>6. CASE read.bad
  BY <1>1, <1>2, <1>3, <1>5, <1>6 DEF IInv, TypeInv, ProgramInv
<1>7. CASE ~read.bad
  <2>1. avail_pid \in 1 .. NumProcs /\ avail_pid' \in 1 .. NumProcs + 1
    BY <1>2, <1>3, <1>7, ProcsAssumption DEF Procs
  <2>2. read.code \in Seq(Instr)
    BY <1>4, <1>7 DEF IsCode
  <2>3. TypeInv'
    BY <1>1, <1>2, <1>3, <1>7, <2>1, <2>2 DEF TypeInv
  <2>4. ProgramInv'
    <3>. SUFFICES ASSUME NEW q \in Procs
         PROVE  /\ IF q < avail_pid' THEN IsCode(program[q], program[q].size, text'[q])
                   ELSE text'[q] = << >>
                /\ pc[q] <= Len(text'[q]) /\ Len(log[q]) = pc[q]
      BY <1>2 DEF ProgramInv
    <3>1. /\ IF q < avail_pid THEN IsCode(program[q], program[q].size, text[q])
             ELSE text[q] = << >>
          /\ pc[q] <= Len(text[q]) /\ Len(log[q]) = pc[q]
      BY <1>1 DEF ProgramInv
    <3>2. CASE q = avail_pid
      <4>1. text'[q] = read.code /\ q < avail_pid' /\ ~(q < avail_pid)
        BY <1>1, <1>3, <1>7, <2>1, <3>2 DEF TypeInv
      <4>2. pc[q] = 0
        <5>1. text[q] = << >> /\ pc[q] <= Len(text[q])
          BY <3>1, <4>1
        <5>2. pc[q] \in Nat
          BY <1>1 DEF TypeInv
        <5>3. pc[q] <= 0
          <6>1. Len(<< >>) = 0
            OBVIOUS
          <6>. QED
            BY <5>1, <6>1
        <5>. QED
          BY <5>2, <5>3
      <4>3. 0 <= Len(text'[q])
        BY <2>2, <4>1
      <4>. QED
        BY <1>4, <1>7, <3>1, <3>2, <4>1, <4>2, <4>3
    <3>3. CASE q # avail_pid
      <4>1. text'[q] = text[q]
        BY <1>1, <1>3, <1>7, <3>3 DEF TypeInv
      <4>2. q < avail_pid' <=> q < avail_pid
        <5>1. q \in Int /\ avail_pid \in Int /\ avail_pid' = avail_pid + 1
          BY <1>3, <1>7, <2>1 DEF Procs
        <5>. QED
          BY <3>3, <5>1
      <4>. QED
        BY <3>1, <4>1, <4>2
    <3>. QED
      BY <3>2, <3>3
  <2>. QED
    BY <1>5, <2>3, <2>4 DEF IInv
<1>. QED
  BY <1>4, <1>6, <1>7

(* A step that leaves the memory alone keeps RegionInv.                      *)
LEMMA RegionsKept ==
  ASSUME RegionInv, UNCHANGED <<want, mmVars>>
  PROVE  RegionInv'
BY DEF RegionInv, mmVars, Mm!TypeOK, Mm!RegionsSound, Mm!LiveApart, Mm!FreeApart,
   Mm!LiveFree, Mm!AllInArea, Mm!InArea, Mm!Apart, Mm!Free, RegionsMatchPrograms

(* Whatever an operand turns out to be, it is a number.                      *)
LEMMA OperandType ==
  ASSUME NEW p \in Procs, Ins(p) \in Instr, NEW i \in 1 .. 4
  PROVE  Operand(p, i) \subseteq Nat
<1>1. Ins(p).args[i] \in Nat \cup {Uninit}
  BY DEF Instr
<1>. QED
  BY <1>1, ValuesAssumption DEF Operand

(* ALLOC: liballoc keeps the regions sound and gives the ID the size that    *)
(* was asked for.                                                            *)
LEMMA AllocStep == ASSUME IInv, NEW p \in Procs, Alloc(p) PROVE IInv'
<1>1. TypeInv' /\ ProgramInv' /\ RegionInv /\ access' = None
  BY InstructionRuns DEF Alloc, IInv, TypeInv
<1>2. PICK reg \in Rgids, size \in Sizes : Mm!liballoc(reg, size) /\ want' = [want EXCEPT ![reg] = size]
  BY DEF Alloc
<1>3. /\ Mm!TypeOK' /\ Mm!RegionsSound'
      /\ \E start \in Nat :
           symrgtbl' = [symrgtbl EXCEPT ![reg] = [rg_start |-> start, rg_end |-> start + size]]
  BY <1>1, <1>2, AllocKeeps DEF RegionInv
<1>4. PICK start \in Nat :
        symrgtbl' = [symrgtbl EXCEPT ![reg] = [rg_start |-> start, rg_end |-> start + size]]
  BY <1>3
<1>5. size \in Nat /\ (start + size) - start = size
  BY RegionsAssumption
<1>6. symrgtbl \in [Rgids -> Mm!Region] /\ want \in [Rgids -> Nat] /\ RegionsMatchPrograms
  BY <1>1 DEF RegionInv, Mm!TypeOK
<1>7. RegionsMatchPrograms' /\ want' \in [Rgids -> Nat]
  BY <1>2, <1>4, <1>5, <1>6 DEF RegionsMatchPrograms
<1>. QED
  BY <1>1, <1>3, <1>7 DEF IInv, RegionInv, AccessInv

(* ALLOC to an index outside the symbol table: no entry changes.             *)
LEMMA AllocOutsideStep == ASSUME IInv, NEW p \in Procs, AllocOutside(p) PROVE IInv'
<1>1. TypeInv' /\ ProgramInv' /\ RegionInv /\ access' = None /\ UNCHANGED want
  BY InstructionRuns DEF AllocOutside, IInv
<1>2. PICK size \in Sizes : Mm!LostAlloc(size)
  BY DEF AllocOutside
<1>3. Mm!TypeOK' /\ Mm!RegionsSound' /\ UNCHANGED symrgtbl
  BY <1>1, <1>2, LostAllocKeeps DEF RegionInv
<1>. QED
  BY <1>1, <1>3 DEF IInv, RegionInv, RegionsMatchPrograms, AccessInv

(* FREE: the same of libfree; the ID has no space left.                      *)
LEMMA FreeStep == ASSUME IInv, NEW p \in Procs, Free(p) PROVE IInv'
<1>1. /\ ProgramInv' /\ RegionInv /\ access' = None /\ (exited' \in BOOLEAN => TypeInv')
  BY InstructionRuns DEF Free, IInv
<1>2. PICK reg :
        /\ IF reg \in Rgids /\ Mm!Used(reg)
             THEN Mm!libfree(reg) /\ want' = [want EXCEPT ![reg] = 0]
             ELSE UNCHANGED <<want, mmVars>>
        /\ exited' \in IF reg = JustBehind THEN BOOLEAN ELSE {FALSE}
  BY DEF Free
<1>3. TypeInv'
  BY <1>1, <1>2
<1>4. RegionInv'
  <2>1. CASE reg \in Rgids /\ Mm!Used(reg)
    <3>1. /\ Mm!TypeOK' /\ Mm!RegionsSound'
          /\ symrgtbl' = [symrgtbl EXCEPT ![reg] = [rg_start |-> 0, rg_end |-> 0]]
      BY <1>1, <1>2, <2>1, FreeKeeps DEF RegionInv
    <3>2. symrgtbl \in [Rgids -> Mm!Region] /\ want \in [Rgids -> Nat] /\ RegionsMatchPrograms
      BY <1>1 DEF RegionInv, Mm!TypeOK
    <3>3. RegionsMatchPrograms' /\ want' \in [Rgids -> Nat]
      BY <1>2, <2>1, <3>1, <3>2 DEF RegionsMatchPrograms
    <3>. QED
      BY <3>1, <3>3 DEF RegionInv
  <2>2. CASE ~(reg \in Rgids /\ Mm!Used(reg))
    BY <1>1, <1>2, <2>2, RegionsKept
  <2>. QED
    BY <2>1, <2>2
<1>. QED
  BY <1>1, <1>3, <1>4 DEF IInv, AccessInv

(* READ and WRITE change no region, and go to their offset from its start.   *)
LEMMA AccessStep == ASSUME IInv, NEW p \in Procs, Read(p) \/ Write(p) PROVE IInv'
<1>1. PICK ops : Run(p, ops)
  BY DEF Read, Write
<1>2. UNCHANGED <<exited, want, mmVars>>
  BY DEF Read, Write
<1>3. TypeInv' /\ ProgramInv' /\ RegionInv' /\ Ins(p) \in Instr
  BY <1>1, <1>2, InstructionRuns, RegionsKept DEF IInv, TypeInv
<1>4. PICK reg \in Rgids, offset \in Nat : Accesses(reg, offset)
  <2>1. Operand(p, 2) \subseteq Nat /\ Operand(p, 3) \subseteq Nat
    BY <1>3, OperandType
  <2>. QED
    BY <2>1 DEF Read, Write
<1>5. AccessInv'
  BY <1>2, <1>4 DEF Accesses, AccessInv, mmVars
<1>. QED
  BY <1>3, <1>5 DEF IInv

(* The instructions that touch no memory of the model, and those that touch  *)
(* what lies outside the symbol table.                                       *)
LEMMA OtherStep ==
  ASSUME IInv, NEW p \in Procs,
         Calc(p) \/ ReadOutside(p) \/ WriteOutside(p) \/ KernelCall(p) \/ Syscall(p)
  PROVE  IInv'
<1>1. PICK ops : Run(p, ops)
  BY DEF Calc, ReadOutside, WriteOutside, KernelCall, Syscall
<1>2. UNCHANGED <<want, mmVars>> /\ access' = None
  BY DEF Calc, ReadOutside, WriteOutside, KernelCall, Syscall
<1>3. exited' \in BOOLEAN
  BY DEF Calc, ReadOutside, WriteOutside, KernelCall, Syscall, _syscall, __sys_memmap, IInv, TypeInv
<1>4. TypeInv' /\ ProgramInv' /\ RegionInv'
  BY <1>1, <1>2, <1>3, InstructionRuns, RegionsKept DEF IInv
<1>. QED
  BY <1>2, <1>4 DEF IInv, AccessInv

(* Init and every step establish IInv.                                       *)
LEMMA Inductive == Spec => []IInv
<1>1. IInv /\ UNCHANGED vars => IInv'
  <2>. SUFFICES ASSUME IInv, UNCHANGED vars PROVE IInv'
    OBVIOUS
  <2>1. RegionInv'
    BY RegionsKept DEF IInv, vars
  <2>. QED
    BY <2>1 DEF IInv, vars, loadVars, mmVars, TypeInv, ProgramInv, AccessInv
<1>2. IInv /\ [Next]_vars => IInv'
  BY <1>1, LoadStep, AllocStep, AllocOutsideStep, FreeStep, AccessStep, OtherStep
  DEF Next, Instruction, Terminated
<1>. QED
  BY InitIInv, <1>2, PTL DEF Spec

-----------------------------------------------------------------------------
(* What is shown                                                             *)

(* TypeOK holds in every reachable state: the code of each loaded process is *)
(* a sequence of instructions of four operand slots, and pc points into it   *)
(* or at its end (cpu.c:66-71).                                              *)
THEOREM TypeCorrect == Spec => []TypeOK
<1>1. IInv => TypeOK
  <2>. SUFFICES ASSUME IInv PROVE TypeOK
    OBVIOUS
  <2>1. TypeInv /\ ProgramInv /\ Mm!TypeOK
    BY DEF IInv, RegionInv
  <2>2. ASSUME NEW p \in Procs PROVE pc[p] \in 0 .. Len(text[p])
    BY <2>1 DEF TypeInv, ProgramInv
  <2>3. ASSUME NEW p \in Procs, NEW k \in DOMAIN text[p]
        PROVE  text[p][k].op \in Opcodes /\ DOMAIN text[p][k].args = 1 .. 4
    <3>1. text[p] \in Seq(Instr)
      BY <2>1 DEF TypeInv
    <3>2. text[p][k] \in Instr
      BY <3>1
    <3>. QED
      BY <3>2 DEF Instr
  <2>. QED
    BY <2>1, <2>2, <2>3 DEF TypeOK, TypeInv
<1>. QED
  BY Inductive, <1>1, PTL

(* A region has the size that was last asked for under its ID, by whichever  *)
(* process, or none if it has been freed since (libmem.c:71, 135).           *)
THEOREM RegionsAreAsAsked == Spec => []RegionsMatchPrograms
<1>1. IInv => RegionsMatchPrograms
  BY DEF IInv, RegionInv
<1>. QED
  BY Inductive, <1>1, PTL

(* A READ or WRITE at an offset below the allocated size reaches an address  *)
(* of its own region, inside the area, that belongs to no other region and   *)
(* is not free (libmem.c:340, 388), while the area has grown whenever it had *)
(* to.                                                                       *)
THEOREM AccessesReachTheirRegion == Spec => []AccessesStayInside
<1>1. IInv => AccessesStayInside
  <2>. SUFFICES ASSUME IInv, access # None, overruns = 0, access.offset < want[access.reg]
       PROVE  /\ Holds(symrgtbl[access.reg], access.address) /\ access.address < sbrk
              /\ \A r \in Rgids \ {access.reg} : ~Holds(symrgtbl[r], access.address)
              /\ \A k \in DOMAIN vm_freerg_list : ~Holds(vm_freerg_list[k], access.address)
    BY DEF AccessesStayInside
  <2> DEFINE rg == symrgtbl[access.reg]
             a  == access.address
  <2>1. /\ access.reg \in Rgids /\ access.offset \in Nat /\ a = rg.rg_start + access.offset
        /\ rg.rg_end - rg.rg_start = want[access.reg]
    BY DEF IInv, AccessInv, RegionInv, RegionsMatchPrograms
  <2>2. /\ \A r \in Rgids : symrgtbl[r].rg_start \in Nat /\ symrgtbl[r].rg_end \in Nat
        /\ sbrk \in Nat
    BY DEF IInv, RegionInv, Mm!TypeOK, Mm!Region
  <2>3. \A k \in DOMAIN vm_freerg_list :
          vm_freerg_list[k].rg_start \in Nat /\ vm_freerg_list[k].rg_end \in Nat
    <3>1. \A k \in DOMAIN vm_freerg_list : vm_freerg_list[k] \in Mm!Region
      BY DEF IInv, RegionInv, Mm!TypeOK
    <3>. QED
      BY <3>1 DEF Mm!Region
  <2>4. Mm!LiveApart /\ Mm!LiveFree /\ Mm!AllInArea
    BY DEF IInv, RegionInv, Mm!RegionsSound
  <2>. HIDE DEF rg, a
  <2>5. rg.rg_start \in Nat /\ rg.rg_end \in Nat /\ rg.rg_start <= a /\ a < rg.rg_end /\ a \in Nat
    <3>1. rg.rg_start \in Nat /\ rg.rg_end \in Nat
      BY <2>1, <2>2 DEF rg
    <3>2. access.offset < rg.rg_end - rg.rg_start
      BY <2>1
    <3>. QED
      BY <2>1, <3>1, <3>2
  <2>6. rg.rg_end <= sbrk
    BY <2>1, <2>4 DEF Mm!AllInArea, Mm!InArea, rg
  <2>7. ASSUME NEW r \in Rgids \ {access.reg} PROVE ~Holds(symrgtbl[r], a)
    <3>1. Mm!Apart(symrgtbl[r], rg)
      BY <2>1, <2>4, <2>7 DEF Mm!LiveApart, rg
    <3>. QED
      BY <2>2, <2>5, <3>1 DEF Mm!Apart, Holds
  <2>8. ASSUME NEW k \in DOMAIN vm_freerg_list PROVE ~Holds(vm_freerg_list[k], a)
    <3>1. Mm!Apart(rg, vm_freerg_list[k])
      BY <2>1, <2>4 DEF Mm!LiveFree, Mm!Free, rg
    <3>. QED
      BY <2>3, <2>5, <3>1 DEF Mm!Apart, Holds
  <2>9. Holds(rg, a) /\ a < sbrk
    BY <2>2, <2>5, <2>6 DEF Holds
  <2>. QED
    BY <2>7, <2>8, <2>9 DEF rg, a
<1>. QED
  BY Inductive, <1>1, PTL

-----------------------------------------------------------------------------
(* Refinement                                                                *)

(* A step of run executes the next line of the file, or what lies beyond the *)
(* last one.                                                                 *)
LEMMA RunsALine ==
  ASSUME IInv, NEW p \in Procs, NEW ops, Run(p, ops)
  PROVE  Program!Next
<1> DEFINE k    == Len(log[p]) + 1
           file == program[p]
           call == Call(Ins(p))
<1>1. TypeInv /\ ProgramInv
  BY DEF IInv
<1>2. /\ log' = [log EXCEPT ![p] = Append(@, call)] /\ UNCHANGED program
      /\ p < avail_pid /\ pc[p] < Len(text[p])
  BY DEF Run, Running, Call, loadVars
<1>3. /\ file \in Files /\ Len(log[p]) = pc[p] /\ pc[p] \in Nat
      /\ IsCode(file, file.size, text[p])
  BY <1>1, <1>2 DEF TypeInv, ProgramInv
<1>4. Len(text[p]) = file.size /\ file.size \in Nat /\ k \in 1 .. file.size
  BY <1>2, <1>3, FilesAssumption DEF IsCode
<1>5. Ins(p) = text[p][k]
  BY <1>3 DEF Ins
<1>6. IsLine(file, k, call)
  BY <1>3, <1>4, <1>5 DEF IsCode
<1>7. Program!Executes(p, call)
  BY <1>2, <1>4 DEF Program!Executes
<1>8. Len(file.lines) \in Nat \ {0} /\ k \in Nat
  BY <1>3, <1>4, Lines
<1>. HIDE DEF call, file
<1>9. CASE k <= Len(file.lines)
  <2>1. call = Program!Line(file.lines[k].op, file.lines[k].args)
    BY <1>6, <1>8, <1>9 DEF IsLine, Upto
  <2>2. Program!NextLine(p)
    BY <1>7, <1>9, <2>1 DEF Program!NextLine, file
  <2>. QED
    BY <2>2 DEF Program!Next
<1>10. CASE ~(k <= Len(file.lines))
  <2> DEFINE last == file.lines[Len(file.lines)]
  <2>1. call = Program!Line(last.op, last.args) \/ call = Program!Line(last.op, << >>)
    BY <1>6, <1>10 DEF IsLine, Upto
  <2>2. Len(log[p]) >= Len(file.lines)
    BY <1>3, <1>8, <1>10
  <2>3. Program!Beyond(p)
    BY <1>7, <2>1, <2>2 DEF Program!Beyond, Program!Last, file
  <2>. QED
    BY <2>3 DEF Program!Next
<1>. QED
  BY <1>9, <1>10

(* Each process executes the lines of its own file in order, each once and   *)
(* with its operands, for all files and in every interleaving of load and    *)
(* run (loader.c:50-122, cpu.c:61-129): Cpu implements Programs.             *)
THEOREM ProcessesRunTheirFiles == Spec => ImplementsPrograms
<1>1. Init => Program!Init
  BY DEF Init, Program!Init
<1>2. IInv /\ [Next]_vars => [Program!Next]_Program!vars
  <2>. SUFFICES ASSUME IInv, [Next]_vars PROVE Program!Next \/ UNCHANGED <<program, log>>
    BY DEF Program!vars
  <2>1. ASSUME NEW p \in Procs, Instruction(p) PROVE Program!Next
    <3>1. PICK ops : Run(p, ops)
      BY <2>1 DEF Instruction, Calc, Alloc, AllocOutside, Free, Read, Write, ReadOutside,
         WriteOutside, KernelCall, Syscall
    <3>. QED
      BY <3>1, RunsALine
  <2>2. CASE load
    BY <2>2 DEF load
  <2>3. CASE UNCHANGED vars
    BY <2>3 DEF vars, loadVars
  <2>. QED
    BY <2>1, <2>2, <2>3 DEF Next, Terminated
<1>. QED
  BY <1>1, <1>2, Inductive, PTL DEF Spec, ImplementsPrograms, Program!Spec
=============================================================================
