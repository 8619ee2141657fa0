---------------------------------- MODULE Cpu ----------------------------------
(***************************************************************************)
(* Processes and their instructions: load of loader.c, run of cpu.c, the   *)
(* system calls of libstd.c, syscall.c and sys_mem.c and the kernel memory *)
(* calls of libmem.c, over the memory regions of Regions.                  *)
(*                                                                         *)
(* One thread loads, several execute: an instruction is one step, since    *)
(* the regions change only while mmvm_lock is held (what accesses do to    *)
(* pages without it is in Paging).  Any loaded process may run next.       *)
(* Region IDs are indices of symrgtbl and come from the program files.     *)
(* The checks let the index just behind the table pass, and some accesses  *)
(* are not checked: then the C code reads or overwrites memory of unknown  *)
(* use.  The model ends there (exited), or nothing of it shows.            *)
(***************************************************************************)
EXTENDS Integers, Sequences, FiniteSets, SequencesExt

CONSTANTS NumProcs,     \* processes that are loaded, in the order of their pids
          Files,        \* the files there may be
          Uninit,       \* what malloc leaves in an instruction and in a register
          Values,       \* bound: the values that this may turn out to be
          PAGING_MAX_SYMTBL_SZ,                   \* the entries of symrgtbl
          Sizes, AreaLimit, MaxOverruns           \* as in Regions

ASSUME ProcsAssumption == NumProcs \in Nat \ {0}
ASSUME FilesAssumption ==
  \A f \in Files : /\ f.size \in Nat /\ f.lines # << >>
                   /\ f.lines \in Seq([op : STRING, args : Seq(Nat)])
ASSUME ValuesAssumption  == Values \subseteq Nat
ASSUME RegionsAssumption == /\ PAGING_MAX_SYMTBL_SZ \in Nat /\ Sizes \subseteq Nat
                            /\ AreaLimit \in Nat /\ MaxOverruns \in Nat

VARIABLES program,      \* the file of each process
          avail_pid, text, pc, regs,
          exited,       \* the simulator has ended, with exit(1) or by a
                        \* crash, or has overwritten memory of unknown use
          log,          \* history: the calls each process has made
          want,         \* history: the size a region was last allocated with
          access,       \* history: the access of the last step, or None
          sbrk, vm_freerg_list, symrgtbl, overruns

mmVars   == <<sbrk, vm_freerg_list, symrgtbl, overruns>>
loadVars == <<program, avail_pid, text>>
vars     == <<loadVars, pc, regs, exited, log, want, access, mmVars>>

Rgids == 0 .. PAGING_MAX_SYMTBL_SZ - 1
Mm    == INSTANCE Regions
Procs == 1 .. NumProcs
None  == [reg |-> Uninit]

Arity == [calc |-> 0, alloc |-> 2, kmalloc |-> 2, kmem_cache_alloc |-> 2,
          free |-> 1, kmem_cache_create |-> 3, read |-> 3, write |-> 3,
          copy_from_user |-> 4, copy_to_user |-> 4, syscall |-> 4]
Opcodes      == DOMAIN Arity
Operands(op) == IF op \in Opcodes THEN Arity[op] ELSE 0
RestOfLine   == {"copy_from_user", "copy_to_user", "syscall"}
KernelCalls  == {"kmalloc", "kmem_cache_create", "kmem_cache_alloc",
                 "copy_from_user", "copy_to_user"}

-----------------------------------------------------------------------------
(* The loader                                                                *)

(* The operands of an instruction; those that were not read stay as malloc   *)
(* has left them.                                                            *)
Padded(args, n) == [i \in 1 .. 4 |-> IF i <= n /\ i <= Len(args) THEN args[i]
                                     ELSE Uninit]

(* Where the loader is in the file: the next line, the numbers not yet read  *)
(* of the one before it, the buffers opcode and buf, what it has made of it. *)
Start == [line |-> 1, left |-> << >>, op |-> "", buf |-> << >>,
          code |-> << >>, bad |-> FALSE]

(* Variant: only a number is refused.                                        *)
Refused_NumberOnly(at, op) == at.left # << >>

(* get_opcode calls exit(1) for an unknown name; a number that is left over  *)
(* from the line before is read as a name.                                   *)
Refused(at, op) == at.left # << >> \/ op \notin Opcodes

(* One turn of the loop of load.  At the end of the file fscanf and fgets    *)
(* leave opcode and buf as they were.                                        *)
ReadInstruction(file, at) ==
  LET eof   == at.line > Len(file.lines)
      op    == IF eof THEN at.op ELSE file.lines[at.line].op
      words == IF eof THEN << >> ELSE file.lines[at.line].args
      buf   == IF op \in RestOfLine /\ ~eof THEN words ELSE at.buf
  IN  IF at.bad \/ Refused(at, op)
        THEN [at EXCEPT !.bad = TRUE]
        ELSE [line |-> at.line + 1, op |-> op, buf |-> buf, bad |-> FALSE,
              left |-> IF op \in RestOfLine THEN << >>
                       ELSE SubSeq(words, Operands(op) + 1, Len(words)),
              code |-> Append(at.code, [op |-> op,
                         args |-> IF op \in RestOfLine THEN Padded(buf, 4)
                                  ELSE Padded(words, Operands(op))])]

Loaded(file) == LET at[i \in 0 .. file.size] ==
                      IF i = 0 THEN Start ELSE ReadInstruction(file, at[i - 1])
                IN  at[file.size]

Init == /\ program \in [Procs -> Files]
        /\ avail_pid = 1
        /\ text = [p \in Procs |-> << >>]
        /\ pc = [p \in Procs |-> 0]
        /\ regs = [p \in Procs |-> [r \in Rgids |-> Uninit]]
        /\ exited = FALSE
        /\ log = [p \in Procs |-> << >>]
        /\ want = [r \in Rgids |-> 0]
        /\ access = None
        /\ Mm!Init

(* ld_routine calls load for one file after the other.                       *)
load ==
  LET read == Loaded(program[avail_pid])
  IN  /\ ~exited /\ avail_pid \in Procs
      /\ IF read.bad THEN exited' = TRUE /\ UNCHANGED <<avail_pid, text>>
         ELSE /\ text' = [text EXCEPT ![avail_pid] = read.code]
              /\ avail_pid' = avail_pid + 1
              /\ UNCHANGED exited
      /\ access' = None
      /\ UNCHANGED <<program, pc, regs, log, want, mmVars>>

-----------------------------------------------------------------------------
(* Instructions                                                              *)

Running(p) == ~exited /\ p < avail_pid /\ pc[p] < Len(text[p])
Ins(p)     == text[p][pc[p] + 1]

(* Variant: pc stays where it is.                                            *)
Run_PcStays(p, ops) ==
  /\ Running(p) /\ Ins(p).op \in ops
  /\ log' = [log EXCEPT ![p] = Append(@,
       [op |-> Ins(p).op, args |-> SubSeq(Ins(p).args, 1, Operands(Ins(p).op))])]
  /\ UNCHANGED <<loadVars, regs, pc>>

(* run: the instruction at pc, one of ops, is passed on with its operands.   *)
Run(p, ops) ==
  /\ Running(p) /\ Ins(p).op \in ops
  /\ pc' = [pc EXCEPT ![p] = @ + 1]
  /\ log' = [log EXCEPT ![p] = Append(@,
       [op |-> Ins(p).op, args |-> SubSeq(Ins(p).args, 1, Operands(Ins(p).op))])]
  /\ UNCHANGED <<loadVars, regs>>

(* The value of an operand; what was not read may be anything.               *)
Operand(p, i) == IF Ins(p).args[i] = Uninit THEN Values ELSE {Ins(p).args[i]}

Calc(p) == /\ Run(p, {"calc"})
           /\ access' = None
           /\ UNCHANGED <<exited, want, mmVars>>

Alloc(p) ==
  /\ Run(p, {"alloc"})
  /\ \E size \in Operand(p, 1) \cap Sizes, reg \in Operand(p, 2) \cap Rgids :
       /\ Mm!liballoc(reg, size)
       /\ want' = [want EXCEPT ![reg] = size]
  /\ access' = None
  /\ UNCHANGED exited

(* liballoc checks no index: behind the table, it is memory of unknown use   *)
(* that is set to the region, and the space is taken all the same.           *)
AllocOutside(p) ==
  /\ Run(p, {"alloc"})
  /\ Operand(p, 2) \ Rgids # {}
  /\ \E size \in Operand(p, 1) \cap Sizes : Mm!LostAlloc(size)
  /\ exited' \in BOOLEAN
  /\ access' = None
  /\ UNCHANGED want

(* The one index that the checks of __free and get_symrg_byid let through,   *)
(* though the table ends before it.                                          *)
JustBehind == PAGING_MAX_SYMTBL_SZ

(* libfree refuses a region ID that is not in use or out of range.  At the   *)
(* index behind the table it reads what is there, and clears and enlists it  *)
(* as a region unless it happens to be zero.                                 *)
Free(p) ==
  /\ Run(p, {"free"})
  /\ \E reg \in Operand(p, 1) :
       /\ IF reg \in Rgids /\ Mm!Used(reg)
            THEN Mm!libfree(reg) /\ want' = [want EXCEPT ![reg] = 0]
            ELSE UNCHANGED <<want, mmVars>>
       /\ exited' \in IF reg = JustBehind THEN BOOLEAN ELSE {FALSE}
  /\ access' = None

(* Variant: the register's number is taken for its value.                    *)
Accesses_Number(reg, offset) ==
  access' = [reg |-> reg, offset |-> offset, address |-> reg + offset]

(* The address libread and libwrite ask for.                                 *)
Accesses(reg, offset) ==
  access' = [reg |-> reg, offset |-> offset,
             address |-> symrgtbl[reg].rg_start + offset]

(* run passes libread the address of its own copy of the instruction: the    *)
(* byte is gone when run returns, and no register changes.                   *)
Read(p) == /\ Run(p, {"read"})
           /\ \E reg \in Operand(p, 1) \cap Rgids, offset \in Operand(p, 2) :
                Accesses(reg, offset)
           /\ UNCHANGED <<exited, want, mmVars>>

Write(p) == /\ Run(p, {"write"})
            /\ \E reg \in Operand(p, 2) \cap Rgids, offset \in Operand(p, 3) :
                 Accesses(reg, offset)
            /\ UNCHANGED <<exited, want, mmVars>>

(* An index outside the table: behind it, get_symrg_byid takes what is there *)
(* for a region; further out its result is NULL, which only __write tests.   *)
ReadOutside(p) ==
  /\ Run(p, {"read"})
  /\ \E reg \in Operand(p, 1) \ Rgids :
       exited' \in IF reg = JustBehind THEN BOOLEAN ELSE {TRUE}
  /\ access' = None
  /\ UNCHANGED <<want, mmVars>>

WriteOutside(p) ==
  /\ Run(p, {"write"})
  /\ \E reg \in Operand(p, 2) \ Rgids :
       exited' \in IF reg = JustBehind THEN BOOLEAN ELSE {FALSE}
  /\ access' = None
  /\ UNCHANGED <<want, mmVars>>

(* libkmem_malloc, libkmem_cache_pool_create, libkmem_cache_alloc,           *)
(* libkmem_copy_from_user and libkmem_copy_to_user only return.              *)
KernelCall(p) == /\ Run(p, KernelCalls)
                 /\ access' = None
                 /\ UNCHANGED <<exited, want, mmVars>>

Unchecked == 3 .. 5     \* SYSMEM_SWP_OP, SYSMEM_IO_READ, SYSMEM_IO_WRITE

(* __sys_memmap works on a krnl_t that it allocates and does not fill in,    *)
(* not on the one of the process.  vmap_pgd_memset and inc_vma_limit do not  *)
(* look at it; the other operations follow the pointers there.               *)
__sys_memmap(memop) == exited' \in IF memop \in Unchecked THEN BOOLEAN ELSE {FALSE}

(* listsyscall prints, and a number that is not in the table does nothing.   *)
_syscall(nr, a1) == IF nr = 17 THEN __sys_memmap(a1) ELSE UNCHANGED exited

(* libsyscall packs the operands.                                            *)
Syscall(p) ==
  /\ Run(p, {"syscall"})
  /\ \E nr \in Operand(p, 1), a1 \in Operand(p, 2) : _syscall(nr, a1)
  /\ access' = None
  /\ UNCHANGED <<want, mmVars>>

(* run returns 1 to a process at its end, which cpu_routine takes off; the   *)
(* simulator is done when all are.                                           *)
Done == exited \/ (avail_pid > NumProcs /\ \A p \in Procs : ~Running(p))

Terminated == Done /\ UNCHANGED vars

Instruction(p) ==
  \/ Calc(p) \/ Alloc(p) \/ Free(p) \/ Read(p) \/ Write(p)
  \/ AllocOutside(p) \/ ReadOutside(p) \/ WriteOutside(p)
  \/ KernelCall(p) \/ Syscall(p)

Next == load \/ (\E p \in Procs : Instruction(p)) \/ Terminated

Spec == Init /\ [][Next]_vars
-----------------------------------------------------------------------------
(* Properties                                                                *)

TypeOK ==
  /\ program \in [Procs -> Files] /\ avail_pid \in 1 .. NumProcs + 1
  /\ exited \in BOOLEAN
  /\ \A p \in Procs :
       /\ pc[p] \in 0 .. Len(text[p])
       /\ \A k \in DOMAIN text[p] : /\ text[p][k].op \in Opcodes
                                    /\ DOMAIN text[p][k].args = 1 .. 4
  /\ Mm!TypeOK

(* Whatever the interleaving of loading and of the processes, each process   *)
(* executes the lines of its own file in their order, each once and with the *)
(* operands of that line: "The content of each process is actually a copy of *)
(* a program stored on disk" (docs.md:174).                                  *)
Program == INSTANCE Programs

ImplementsPrograms == Program!Spec

(* A region is as large as the last program that allocated it, of whichever  *)
(* process, has asked for, and has been given up exactly if a program has    *)
(* freed it since (libmem.c:71, 135).                                        *)
RegionsMatchPrograms ==
  \A r \in Rgids : symrgtbl[r].rg_end - symrgtbl[r].rg_start = want[r]

Holds(rg, a) == rg.rg_start <= a /\ a < rg.rg_end

(* An access at an offset below the allocated size reaches its own region,   *)
(* inside the area, and nothing that is another region or free (libmem.c:340 *)
(* and 388 add the offset to rg_start), as long as the area has grown        *)
(* whenever it had to.                                                       *)
AccessesStayInside ==
  access # None /\ overruns = 0 /\ access.offset < want[access.reg] =>
    /\ Holds(symrgtbl[access.reg], access.address) /\ access.address < sbrk
    /\ \A r \in Rgids \ {access.reg} : ~Holds(symrgtbl[r], access.address)
    /\ \A k \in DOMAIN vm_freerg_list : ~Holds(vm_freerg_list[k], access.address)

(* "The instruction reads one byte memory [...] and saves it to destination" *)
(* (docs.md:144): after a READ the register holds a byte.                    *)
ReadFillsRegister ==
  [][\A p \in Procs : log'[p] # log[p] =>
       LET call == Last(log'[p])
       IN  call.op = "read" => regs'[p][call.args[3]] # Uninit]_vars
===============================================================================
