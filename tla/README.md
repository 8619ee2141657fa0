# TLA+ models of the operating system simulator

The program in `src/` simulates a small operating system: CPU threads and a
loader thread advance in lock step through discrete time slots, processes are
taken from a scheduler, and their instructions allocate and access paged
memory. This directory holds TLA+ models of it, their TLC configurations, and
TLAPS proofs.

    tlc -workers 2 -config Timer.cfg MCTimer            # one of the runs
    tlapm Timer_proofs.tla                             # the proofs

`PROJECT.json` lists the runs, which source lines each definition stands for,
the hazards of the code and the properties aimed at them.

## 1. The system

The build options of `include/os-cfg.h` are part of what is modelled:
`MLQ_SCHED`, `MM_PAGING` and `MM64` are on, so `mm.c`, `mem.c` and `paging.c`
are not part of the program.

| component | state | operations | correct when |
|---|---|---|---|
| timer (`timer.c`) | `_time`, list of devices, per device `done`, `fsh`, two mutexes and two condition variables | `attach_event`, `start_timer`, `next_slot`, `detach_event`, `stop_timer`, thread `timer_routine` | no slot begins before every device has finished the last one; no wakeup is lost; the timer ends after, and only after, all devices have left; nothing is freed while in use |
| threads (`os.c`) | `proc` and `time_left` of each CPU, the loader's `i`, the global `done` | `cpu_routine`, `ld_routine`, `main` | no process is lost, run twice or left behind; a quantum is full and bounded; CPUs stop when the work is done |
| scheduler (`sched.c`, `queue.c`) | `mlq_ready_queue`, `slot`, `queue_lock` | `get_proc`, `put_proc`, `add_proc`, `enqueue`, `dequeue` | what is put in comes out once; calls return |
| dispatch (`cpu.c`), loader (`loader.c`) | `pc`, registers and code of a PCB | `run`, `load` | one instruction per call, none behind the end |
| memory library (`libmem.c`) | free region list, symbol table, `fifo_pgn` | `__alloc`, `__free`, `__read`, `__write`, `pg_getpage`, `find_victim_page` | live regions are disjoint and inside the area; a page is in RAM when it is accessed (it is not: run `get_page`); frames are neither lost nor shared |
| areas and page tables (`mm-vm.c`, `mm64.c`) | `vm_area_struct`, `pgd`, frame lists | `inc_vma_limit`, `vm_map_ram`, `alloc_pages_range`, `pte_set_*`, `init_mm` | a page table entry says where the page is; the area grows by what was asked |
| physical memory (`mm-memphy.c`) | free frame list, cursor, `storage` | `MEMPHY_get_freefp`, `MEMPHY_put_freefp`, `MEMPHY_read`, `MEMPHY_write` | a frame has one owner or is free |
| system calls (`syscall.c`, `sys_mem.c`, `libstd.c`) | none of their own | `syscall`, `__sys_memmap` | a call reaches the handler of its number and its error reaches the caller |

How they interact. `main` attaches one device per CPU and one for the loader,
creates the timer thread, then the loader and the CPU threads. All of them meet
only through (a) the slot barrier of `timer.c`, (b) the scheduler under its
`queue_lock`, (c) the global `done`, which is read without a lock, and (d) the
one `krnl_t os`, which every process's `krnl` points to: the loader replaces
`os.mm` at each load, and instructions on the CPUs reach memory through it.

What is hard in it: the handshake of `timer.c` sets a flag under one mutex and
clears it under another and reads the clock under none; the CPUs decide to stop
from three reads (`get_proc`, `done`, `proc`) that are not atomic together; the
scheduler's lock is taken by every thread inside a barrier that waits for all
of them; and the memory operations are partly locked, ignore the results of the
calls they make, and share the memory of the last process loaded.

## 2. Modules

| module | models | builds on |
|---|---|---|
| `TimeSlots` | what `timer.c` promises: a slot ends when every device has finished it | |
| `Timer` | `timer.c`, with its mutexes and condition variables | implements `TimeSlots` |
| `Os` | the bodies of `cpu_routine` and `ld_routine` between their calls of the scheduler | `TimeSlots` |
| `OsPool` | `Os` with any scheduler that keeps what `sched.h` promises | `Os` |
| `OsStub` | `Os` with `sched.c` and `queue.c` as committed | `Os` |
| `Regions` | the regions of a memory area: `liballoc`, `libfree` and what they call | |
| `Programs` | what a process does: the lines of its program file, in order | |
| `Cpu` | `load` of `loader.c`, `run` of `cpu.c`, the system calls | `Regions`; implements `Programs` |
| `PageQueue` | page replacement as a queue: first in, first out, one at a time | |
| `Paging` | the page faults of `__read` and `__write`, node by node, with and without the lock | implements `PageQueue` |
| `Pte` | the bits of page table entries and addresses | |
| `Memphy` | a physical memory device: free frames and bytes | |
| `PageTable` | the entries of a process with the RAM and swap they point into: `pg_getpage`, `pg_getval`, `pg_setval`, `free_pcb_memph` | `Pte`, `Memphy` |
| `Timer_proofs`, `Regions_proofs`, `Cpu_proofs`, `Paging_proofs`, `PageTable_proofs`, `Os_proofs`, `OsPool_proofs`, `OsStub_proofs` | theorems | `PageTable_proofs` also those about `Pte` and `Memphy` |
| `MCTimer`, `MCOs`, `MCOsStub`, `MCRegions`, `MCCpu`, `MCPaging`, `MCPageTable` | values and symmetry for TLC | |

The layers compose by refinement: `Timer` implements `TimeSlots`, so `Os` is
built on `TimeSlots` and the interleavings inside `timer.c` need not be
multiplied with those of `os.c`. `Cpu` executes the memory instructions on the
actions of `Regions` itself (`INSTANCE Regions`), and `PageTable` puts the
entries of `Pte` together with two devices of `Memphy`.

Definitions named `X_Something`, placed just before `X` and commented
"Variant", are `X` with one plausible mistake. They are not used by the
specifications; `PROJECT.json` pairs each property with a variant that breaks
it, which shows that the property can tell the code from a wrong one.

### TimeSlots

`phase[d]` is what a device does in the slot: `working`, `waiting` (it has
called `next_slot`) or `gone` (it has detached). `Tick` is allowed when none is
working; it begins the next slot for those that wait. `LastTick` ends the clock
when all are gone. The specification assumes that a slot that is over ends
(`WF(Tick)`) and nothing about the devices.

### Timer

One action per critical section, which is the grain at which other threads can
interfere: `pthread_mutex_lock` begins an action or is one of its own,
`pthread_cond_wait` is three (test and wait, be woken, take the mutex again and
test again). `mainpc`, `tpc` and `pc[d]` are where main, the timer thread and each device are.

* `attach_event`, `start_timer`, `CreateThread`, `stop_timer`, `JoinTimer`,
  `FreeDevice` are `main`'s use of the module, in the order of `main`.
* `TimerLoop` to `Clear` is `timer_routine`: for each device of the list, wait
  until it is done or has left (first loop, under `event_lock`); increment
  `_time` under no lock; clear and signal each flag under `timer_lock`; stop
  when all have left.
* `next_slot`, `LockEvent`, `SetDone`, `SignalEvent`, `LockTimer`, `CheckDone`
  are a device's call of `next_slot`, and `detach_event`, `SetFsh` of
  `detach_event`.
* `SpuriousWakeup` wakes any waiting thread without a signal, as POSIX allows.

### Os, OsPool, OsStub

`pc` is where a thread is in its routine. A step of a CPU runs from one call of
the scheduler, or one statement other threads can see, to the next:
`CpuIdle`, `CpuFinished`, `CpuExpired` and `CpuKeeps` are the four ways through
the first conditional of the loop, `CpuGets` the return of `get_proc`,
`CpuStops`, `CpuSkips` and `CpuDispatches` the second, `CpuRuns` is
`run(proc); time_left--`. The loader has `LdLoad`, `LdWait` (the loop up to the
start time), `LdMallocMm` and `LdInitMm` (the two statements that replace
`os.mm`), the call of `add_proc`, `LdNextSlot` and `LdDone`.

`sched.c` leaves the bodies of `enqueue`, `dequeue` and the search of
`get_mlq_proc` as TODO. So there are two compositions. `OsStub` is the program
as committed: `get_mlq_proc` takes `queue_lock` and returns with it held,
`put_mlq_proc` and `add_mlq_proc` take and release it, and nothing is queued.
`OsPool` puts in its place any scheduler that does what `sched.h` says:
`get_proc` returns a process that was put in, any of them, and NULL only when
there is none. What `OsPool` shows holds of `os.c` with every such scheduler,
and so with the MLQ policy of `docs.md`, whichever way it is written.

### Regions

`liballoc` and `libfree` (with `__alloc`, `__free` and `get_free_vmrg_area`)
hold `mmvm_lock` from their first to their last statement, so each call is one
step. Instructions of all processes reach the same `krnl->mm`, so there is one
free list and one symbol table, and a region ID belongs to nobody.

* `AllocFree` is `__alloc` when the free list has a region that fits:
  `FirstFit` is the walk through the list, `Carve` what it does to the list,
  `SetRegion` the entry of the symbol table. `Carve` unlinks a region that is
  used up; the code gets the same list by copying the next node over it and
  freeing that one, and leaves an empty region behind at the end of the list.
* `AllocAtBrk` is `__alloc` otherwise: the system call that is to extend the
  area, whose result is not looked at, then a region at the old `sbrk`.
* `libfree` clears the entry and puts the region at the head of the list.

Two functions are left open in the source. `init_mm` builds the area and its
list but does not attach them to the `mm`; `Init` is what it has built.
`inc_vma_limit` is a TODO that returns 0, and `__sys_memmap` calls it for a
`krnl_t` that it has just allocated. The definition of that name is not these
lines but what `__alloc` expects of the call, marked external in
`PROJECT.json`: the area grows by the size or more, up to `AreaLimit`, or stays,
which `overruns` counts. With `AreaLimit = 0` no call has an effect, which is
the code as committed: every region that is not carved from the free list then
lies at the same unmoved `sbrk`, over the others and beyond the usable area of
`docs.md:397`. That is why `RegionsSound` speaks of `overruns = 0`.

`LostAlloc` is `__alloc` for an index outside the symbol table: the space is
taken, and no entry names it. `Regions` itself has only the indices of the
table; `Cpu` uses the action for what a program file may ask for.

### Cpu and Programs

`Loaded` is the parsing loop of `load`, one `ReadInstruction` for each of the
`size` instructions that the file announces. A program file is a sequence of
lines, an operation and its operands. What the C library does with an irregular
file is part of it: operands that are missing stay as `malloc` left them
(`Uninit`); a number that is left over is read as the next operation, which
ends the simulator, as does an unknown name; past the end of the file `fscanf`
and `fgets` leave `opcode` and `buf` as they were, and the last line counts
again, without its operands or, where they come from `buf`, with them.

`Run` is what every instruction has in common: fetch at `pc`, increment `pc`,
pass the operands on. `Calc`, `Alloc`, `Free`, `Read`, `Write`, `KernelCall` and
`Syscall` are the cases of the `switch`. An instruction is one step: all that
changes regions is done under `mmvm_lock`, and any loaded process may execute
next, as some CPU may run it.

Nothing checks the index of an `ALLOC`, and the checks of the other
instructions let the index `PAGING_MAX_SYMTBL_SZ` pass (`libmem.c:57`, 139),
just behind the table. `AllocOutside` takes the space all the same and writes
the region behind the table; `Free` clears what is there (`JustBehind`);
`ReadOutside` and `WriteOutside` take it for a region, and with an index further
out `__write` returns -1 and `__read` follows a null pointer. What the C program
does when it touches memory of unknown use is open: the simulator ends
(`exited`), or goes on and nothing of it shows.

`Syscall` goes through `libsyscall` and the table to `__sys_memmap`, which
ignores the process that called and works on a `krnl_t` of its own. So the call
reaches no region of the program, and the operations that follow a pointer there
may end the simulator (`Unchecked`).

`log`, `want` and `access` are history: the calls made, the size last asked for
under each region ID, the address of the last access. `Programs` sees only
`program` and `log`.

### Paging and PageQueue

Each statement that touches a shared list is an action: `Find`, `Walk`,
`Advance`, `Take`, `Unlink`, `FreePg` of `find_victim_page`; `GetFp`, `FpNext`,
`FreeFp` of `MEMPHY_get_freefp`; `Enlist` and `SetHead` of `enlist_pgn_node`.
`Lock` and `Return` are the lock of `__write`; `__read` has none. `pte_get_entry`
is as committed, a stub that returns 0, so that every access is a page fault.
`Crash` is a step that finds a null pointer or a node that has been freed; it
sets `fault`, and the run ends. `malloc` returns any node that is not in use, so
a node may be reused as soon as it is freed.

### Pte, Memphy and PageTable

A word is the set of its one bits, which makes the macros of `mm.h` plain set
operations and lets them be proved about for all words. `Memphy` is a device as
a record; a list of frames is a sequence, and a byte never written is the 0 of
`init_memphy`.

In `PageTable`, `free_pcb_memph`, `pte_set_fpn`, `pte_set_swap`,
`__swap_cp_page` and the device functions are the code's, and so is the control
of an access:

* `pg_getpage` looks at the present bit and nothing else (`Online`). An entry of
  `pte_set_swap` has that bit, so a swapped page is online, and `pg_setval` and
  `pg_getval` use whatever `PAGING_FPN` reads out of the entry: for a swapped
  page the low bits of its swap type and offset. The byte may be another page's
  or another process's, or lie outside the device, where anything may happen
  (`Store`, `Load`).
* Otherwise `find_victim_page` takes the page at the end of the list and
  `MEMPHY_get_freefp` a swap frame. `NoPage` has the three ways this fails: an
  empty list, the null pointer with one page in it, and no swap frame, when the
  victim is off the list already.

What is open in the source is what moves data: `libmem.c:250-262` lists in
comments the copy and the two updates of the page table, `libmem.c:289-291` and
`315-319` the access to the byte, and `alloc_pages_range` and `vmap_page_range`
have the frames of new pages. `Replace`, `Load`, `Store` and `MapPage` make
these calls where the comments have them, and are marked external in
`PROJECT.json`. Nothing is added: there is no way back from swap, although
`libmem.c:250` mentions one, because the branch it stands in is never entered
for a swapped page. Entries are written where `free_pcb_memph` reads them, in
`pgd[pgn]`; under `MM64` the walk that is to find the entry is a TODO, and the
entries are dropped. So `PageTable` says what the parts that exist come to once
the open ones are filled in as the comments ask.

`free_pcb_memph`, which nothing calls yet, has the same test. It is to "collect
all memphy of pcb" (`libmem.c:606`), but it gives swap frame 0 back for every
page never mapped, and a swapped page to the RAM. What it does achieve is
`NoRamFrameLeaks`.

## 3. Runs

| run | instance | what it shows |
|---|---|---|
| `timer` | 3 devices, any number of calls each | `SlotBarrier`: the clock moves only while every device is blocked with its flag up or gone. `NoRaceOnDone`: the writes of `done` in `next_slot` and in `timer_routine`, under different mutexes, never coincide. `NoLostWakeup`: no thread sleeps on a condition that already holds unless a signal for it is on its way. `TimerOutlivesDevices`, `NoUseAfterFree`. `ImplementsTimeSlots`, liveness included. `NextSlotReturns`: if no device stays away from the barrier for ever, every call returns. `SimulationEnds` |
| `os_pool` | 2 CPUs, 3 processes, 38 inputs (`ManyInputs`), quantum 2 | `ProcessConserved`, `NoStrandedProcess`, `QuantumBound`, `FullQuantum`, `AllProcessesFinish`. `OneInstructionPerSlot` counts, per process and slot, what `run` executes (`ran`, a history that the clock resets). `BusyCpuStops`: a CPU that holds a process when the loader is done does stop, unlike one that is idle then |
| `os_stub` | the committed scheduler, 1 CPU, 3 processes | `ClockStalls`: with one CPU the clock moves once; with more, where it never moves, this is theorem `SimulationHalts` |
| `regions` | 3 region IDs, sizes 0 to 2, 4 addresses, one failed extension | `RegionsSound`: while extensions succeed, regions in use and free regions are disjoint and inside the area. `NoSpaceLost`: no step but a reallocation of an ID in use loses an address. `ReuseBeforeGrowth`: the area is extended only if no free region is large enough |
| `cpu` | 2 processes, every pair of 10 program files, 6 addresses, 2 region IDs | `ImplementsPrograms`: each process executes its own lines in order, each once, with their operands, in every interleaving of loading and execution. `RegionsMatchPrograms`: a region has the size last asked for, or none if it was freed since. `AccessesStayInside`: an access below that size hits its own region and no other one, as long as the area has grown whenever it had to |
| `paging` | 2 threads, 3 locked accesses each, up to 3 pages, 3 swap frames | `ImplementsPageQueue`: replacement is first in, first out, one at a time, also when it fails for want of a swap frame. `CrashOnlyOnLastPage`: the only crash is the null pointer with one page in the list. `SwapFramesOnce`, `NoNodeLeaks`, `AccessReturns` |
| `page_table` | 4 pages of 2 bytes; 2 frames of RAM and 2 of swap, or 2 free frames of RAM (31 and 32) and 1 of swap (256) beside those of other processes | `EachFrameOneOwner`: a frame is free, another process's, or in one entry. `VictimsAreResident`: what `find_victim_page` can choose is in RAM, and on the list once. `SwapKeepsContent`: a page has in swap what it had in RAM and keeps it. `ResidentsKeepContent`, `OthersUntouched`: a page that stays in RAM changes only by a write to it, a frame of another process never in swap, and either in RAM also by a write that goes astray through the entry of a swapped page. `NoRamFrameLeaks`: after `free_pcb_memph` all RAM frames can be handed out again |

Five runs show where the code and what is said of it differ.

* `os_doc_example`: the example of `docs.md:352`, one CPU and a program of one
  instruction, is to end with "CPU 0 stopped". A CPU that is idle goes to
  `next_slot` from the first conditional (`os.c:63-66`) and never reaches the
  test of `done` (`os.c:83`). It stops only if it becomes free after `done` was
  set; otherwise `EveryCpuStops` fails and `main` never returns.
* `os_shared_memory`: `docs.md:607` gives each process its own space. All share
  `os.mm`, which the loader replaces at every load (`OwnMemory`).
* `paging_reads`: `docs.md:695` asks for locks on what several processes share.
  `__read` takes none, and two reads are handed the same swap frame
  (`SwapFramesOnce`).
* `get_page`: "Get the page to MEMRAM, swap from MEMSWAP if needed"
  (`libmem.c:310`), and `docs.md:617` wants a page that is in swap brought back.
  `pg_getpage` takes it for present (`libmem.c:227`), and the byte is written to
  the frame that its swap offset spells (`GetsPageInRam`).
* `cpu_read`: `docs.md:144` lets `read` save the byte in the destination
  register. `run` passes the address of a local copy of the instruction
  (`cpu.c:111`), and no register ever changes (`ReadFillsRegister`).

### Bounds, and why they are enough

* `MaxTime`: the counter `_time` stays at the bound (`Bump`), the system goes
  on. The timer never reads it; the loader compares it with start times, which
  are below the bound.
* Devices: the timer treats its list uniformly. Three devices have a first, a
  middle and a last one, each in every phase while another is served; the
  safety theorems hold for any number.
* Processes (`os_pool`): a program has 0, 2 or 3 instructions and the quantum is
  2: it is empty, ends exactly with its quantum, or is preempted and ends in its
  second, as at least one does. Three processes are added one slot after the
  other (as they are too when all start at 0), or start out of the order in
  which they are listed, on two CPUs: one has to wait, and idle CPUs and a
  loader still at work both happen. The input is a variable chosen from
  `Inputs` at the start, so that a run covers every combination.
* `Regions`: four addresses and sizes 0 to 2 give lists of up to four regions,
  fits that are exact, too small, too large and empty, and regions that are
  used up at the head, in the middle and at the end of the list. Three IDs
  allow a region between two others to be given back, and one to be
  reallocated. One failed extension shows that the bookkeeping of the list
  survives it; `RegionsSound` is stated for behaviours without. The theorems
  hold for any number of each.
* `Cpu`: the files hold every operation that has a case of its own, one that is
  too short, too long, incomplete or faulty in each of the ways `load`
  distinguishes, and two that use the same region IDs against each other.
  `Values` is what garbage may turn out to be: an ID in the table and the one just behind it,
  and the numbers of both system calls' interesting cases (17, and memory
  operations 1 and 2). `AreaLimit` 6 holds all that two files can allocate.
* `Paging`: six accesses on up to three pages and three swap frames empty the
  swap device, then shorten the list to one page, which is the crash; four
  nodes let `malloc` choose.
* `PageTable`: four pages on two frames of RAM make both devices run full, with
  pages in RAM, in swap and unmapped at once, and failed replacements. In the
  first configuration the entry of a page in swap frame 0 spells frame 0 of the
  process itself, and one in swap frame 1 spells frame 32, which the device does
  not have. In the second one the frames that are left have the numbers 31 and
  32 of RAM, where a number outgrows the five bits of the swap type, and 256 of
  swap, which reaches the bits that `pte_set_fpn` leaves alone and spells frame
  0 of another process. A page has two bytes, a first and a last one, and a
  write to page `p` stores `p + 1`, which tells the pages apart.
* Symmetry of the region IDs is used because every property treats them alike;
  two of them are box-action properties, which symmetry leaves intact. No other
  run uses symmetry.
* `CHECK_DEADLOCK FALSE`: `os_stub`, which does stop; `page_table` and
  `get_page`, which end with the process.

### Fairness

* `Timer`: the operating system runs every thread (`WF` of main, `SF` of the
  timer and of each device inside the library). It is strong where a thread
  waits for a mutex: spurious wakeups of other threads can take it again and
  again, and a mutex that is free infinitely often is eventually granted. A
  spurious wakeup is never forced. A device is not assumed to call anything;
  that each comes to the barrier again and again is a hypothesis of
  `NextSlotReturns`.
* `TimeSlots`: `WF(Tick)` alone, and that much `Timer` implements.
* `OsPool`: `WF` of each thread: its body has no loop without a call that
  blocks. `queue_lock` is inside one action and always released.
* `Paging`: `WF` of each thread. The mutex need not be fair, since each thread
  makes a bounded number of accesses; without the bound a thread could be
  overtaken for ever, and `AccessReturns` claims nothing about that.

## 4. Proofs

`Timer_proofs` holds for every finite set of devices and every bound. The
inductive invariant `IInv` is the conjunction of

* `TypeOK`, the types;
* `LockInv`: a mutex is held by exactly the thread whose program counter is
  inside its critical section;
* `FlagInv`: a device's `done` and `fsh` follow from where it is in `next_slot`
  or `detach_event`. It relates the flag, set under one mutex, to the mutex it
  is cleared under, and is what the absence of a race rests on;
* `MainInv`: what has been created, and freed, at each statement of `main`;
* `ListInv`: from `start_timer` on the list holds every device, each once;
* `RoundInv`: the devices before the timer's cursor in the first loop, and those
  from it on in the second, are settled: blocked with the flag up, or gone.
  Without it nothing would say that a device the timer has passed still waits
  when the clock moves;
* `CountInv`: the counters `fsh` and `event` agree exactly if every device
  counted so far has detached, which turns the equality the timer tests into
  "all have left".

Each action is shown to preserve each part it can disturb. `TypeCorrect`,
`DoneIsRaceFree`, `WakeupsAreNotLost`, `TimerIsLast`, `ContainersOutliveUse`
and `ClockWaitsForAll` state that the safety properties of the run `timer` hold
of `Spec`. `TimerImplementsSlots` states that every behaviour of
`Timer` is one of the safety part of `TimeSlots`, under the mapping of program
counters to phases that the run `timer` checks with its liveness.

The assumptions are those named in `Timer`: the devices are a finite, non-empty
set (`main` always attaches the loader) and the bound is a natural number.

`Regions_proofs` holds for every set of region IDs, all sizes, every limit of
the area and any number of failed extensions; the named assumptions say that
these are natural numbers. The inductive invariant is `TypeOK /\ RegionsSound`.
`RegionsSound` relates the two tables, so that a region that `Carve` takes from
the list is apart from every entry of the symbol table, and both to `sbrk`, so
that a region taken there is apart from everything. `TypeOK` says that the list
is never empty, which is what keeps `Carve` from unlinking the last node.
`CarveElements` says which regions `Carve` leaves in the list, `ApartFromPart`
that a part of a region is apart from what the whole is apart from, and
`ApartFromNew` the same of space at `sbrk`. Then one lemma for each way a call
can go gives `TypeCorrect` and `RegionsStaySound`.

`SpaceIsKept` and `SpaceIsReused` are the two action properties of the run:
`CarveCovers` says that `Carve` takes no region off the list that still has an
address, and `FirstFitFinds` that the walk ends at a region if any one fits.

`Cpu_proofs` holds for any number of processes, any set of program files, any
garbage values and sizes; the named assumptions say that a file has at least one
line and that numbers are natural numbers. The inductive invariant is the
conjunction of

* `TypeInv`, the types of everything `load` and `run` touch, garbage included;
* `ProgramInv`: the code of a loaded process is what `load` makes of its file,
  line by line, `pc` is not behind its end, and as many instructions as `pc` says
  have been executed;
* `RegionInv`: the invariant of `Regions_proofs` and `RegionsMatchPrograms`;
* `AccessInv`: the access of the last step, if it made one, lies at its offset
  from the start of its region.

`Cpu_proofs` takes the lemmas of `Regions_proofs` over (`INSTANCE`): an `ALLOC`
or `FREE` keeps the regions sound because `liballoc` and `libfree` do, and one
outside the table (`LostAlloc`) because it only takes space away. `LoadedCode`
unfolds the loop of `load`. `TypeCorrect`, `RegionsAreAsAsked` and
`AccessesReachTheirRegion` (as long as `overruns` is 0) follow, and
`ProcessesRunTheirFiles` shows that `Cpu` implements `Programs`.

`Paging_proofs` holds for any number of threads, accesses, pages, nodes and swap
frames, and any list at the start; the assumptions are that the numbers are
natural numbers, that there is a page, that the list at the start fits the
nodes, and that null is no node. `TypeCorrect` is about all accesses. The other
theorems assume `Locked`: the accesses are those of `__write`, which takes
`mmvm_lock`. Without it they are false, as the run `paging_reads` shows. The
inductive invariant adds to the types

* `LockInv`: a thread is between its region test and its return exactly as the
  owner of the lock, for an access that was asked for;
* `ListInv`: the nodes form a list without a repetition from `fifo_pgn` to null,
  which the thread inside walks from its head with `prev` one node behind, and
  the allocated nodes outside of it are the one that has been unlinked and not
  freed, or allocated and not linked. This describes the list in the middle of a
  replacement, where `prev` and the head no longer say what they say at rest;
* `SwapInv`: the swap frames are granted from 0 upwards, those from the head of
  their list on have not been, and the node of the last one may still be in the
  hands of the thread inside, which frees it;
* `FaultInv`: a crash was the null `prev` of `find_victim_page`.

`OnlyLastPageCrashes`, `SwapFramesHandedOutOnce` and `NodesAreNotLeaked` follow,
and `ReplacementIsFifo` shows that every step is one of `PageQueue` or is not
seen by it: a replacement takes effect where the victim is unlinked and where
the new node becomes the head.

`PageTable_proofs` is first about the functions of `Pte`, for all words and all
numbers that fit their fields. `SetThenGet` (what `SETVAL` stores, `GETVAL`
reads, and other bits stay) and `GetDetermines` (a field determines its bits)
carry the rest: `PresentEntry` and `SwappedEntry` say what can be read back from
each kind of entry, `KindsDiffer` that the swapped bit always tells the two
apart. That is what the properties of `PageTable` rest on, and what a test of the
present bit alone, as in `pg_getpage` and `free_pcb_memph`, cannot do.
`StaleSwapOffset` states that a page that was swapped and is present again keeps
the upper 13 bits of its swap offset, where `docs.md:598-599` has zeros and the
user's number. `PageAndOffset` and `DirectoriesCoverAddress` state that
splitting an address loses nothing, and `WalkOfPageNumbers` that the page
numbers of `libmem.c`, made for pages of 256 bytes, survive the shift by 12 of
`mm64.c`, using two of the five directories.

It is then about `PageTable`, for any number and size of pages and any two
devices of 2 frames or more, any number of them taken. There are two
invariants. `TInv` is kept whatever the sizes of the devices:

* `Typed`, the types; every byte that was written lies in its device;
* `SwpListed`: the free swap frames are frames of the device that no other
  process holds;
* the list `fifo_pgn` has no page twice, and only pages whose entries are present
  and not swapped. This is what a stray access cannot disturb: a swapped page
  counts as online, so it is not enlisted a second time.

`TypeCorrect` and `VictimsStayResident` follow from it. `IInv` adds

* `Owned`, for RAM and for swap: the frames that no other process holds are on
  the free list, once, or in the entry of one page, and there are as many of
  both together as there are frames. It relates the list to the bits of all
  entries, which makes it hold on from step to step: `TakeFrame` and
  `PassFrame` are the ways a frame changes hands, and a replacement is both, on
  two devices;
* `NoRamFrameLeaks`, after `free_pcb_memph`, whose loop `FreedFrames` follows.

It is kept where frame numbers fit into entries: `FramesFit` says that a device
has at most `MaxRam` and `MaxSwp` frames, 13 and 21 bits. `os.c` does not check
that, so it is a hypothesis of the theorems that need it, not an assumption of
the module; with more frames a number is cut off and they are false.
`NumberOfBits` says that a number below these is read back from its bits.
`FramesHaveOneOwner` and `RamIsGivenBack` are the invariants of the run,
`SwappedContentIsKept`, `ResidentContentIsKept` and `OthersAreUntouched` its
action properties: `CopyPage` and `WriteByte` say which bytes change, and
`FramesApart` that they are of no third page because `Owned` keeps the frames
apart. The last two except a write to a swapped page, since the code does:
`GetsPageInRam` is false, as the run `get_page` shows.

`Os_proofs` has what every step of `os.c` preserves whichever scheduler it is
composed with (`OsInvStep`), and is used by the two modules about compositions.

`OsPool_proofs` holds for any number of CPUs, processes, any input and quantum.
Its inductive invariant is the conjunction of

* `PlaceInv`: a process that has been added is ready, owned by one CPU or freed.
  It is `ProcessConserved` with what makes it inductive: a CPU that calls
  `get_proc` as idle owns nothing that the result could overwrite;
* `QuantumInv`: no quantum is left wherever `get_proc` is called;
* `RanInv`: a process that has executed an instruction in the current slot is
  still owned by the CPU that ran it, which is through with the slot, so that
  `put_proc` cannot pass it on in the same slot;
* `StopInv`: once the loader has waited a slot after its last `add_proc`, not
  every CPU is about to stop while a process is ready. This is the argument why
  the test of `done` after `get_proc` is not too early.

`QuantaAreBounded` assumes that `time_slot` is positive; with 0 the code counts
down for ever.

`OsStub_proofs` holds for one CPU or more. `HaltInv` states that as long as the
clock stands at 0 a CPU that is through its slot holds `queue_lock`, so that two
cannot be; after the first slot of a single CPU the lock is held and the CPU
never gets further than `get_proc`.

The provers have no induction over data. Where a proof needs it, over a list, a
file or the bits of a number, it takes the least element of the set of
counterexamples (`LeastElement`, from the library's theorem that `<` is
well-founded), or shows that a set that contains the first and with each number
the next contains all (`Upwards`). Recursive functions are unfolded once it is
shown that they exist (`Recursion`).

Only model-checked: liveness (the prover has no `ENABLED`), that is
`NextSlotReturns`, `SimulationEnds` and the liveness part of
`ImplementsTimeSlots` of `Timer`, `AllProcessesFinish` and `BusyCpuStops` of
`OsPool`, and `AccessReturns` of `Paging`. Every invariant and action property
of a passing run is proved, those of `paging` for accesses under the lock, as
in the run.

## 5. Not modelled

* `read_config` of `os.c`: it turns a file into the inputs the models start
  from (`Inputs`). The characters of program files: lines are what they parse to.
  `opcode` of `loader.c:67` holds nine characters and several operations have
  longer names; `Cpu` reads them as if it were large enough.
* `mm.c` (32-bit pages), `mem.c` and `paging.c` (an older simulator): not part
  of the program under the options of `os-cfg.h`.
* The MLQ policy of `docs.md`: there is no code for it. `OsPool` covers any.
* The slab caches, the page directory walk, `vmap_pgd_memset` and
  `vm_map_ram` / `vmap_page_range`: their bodies are TODOs. Where a model needs
  what they are to do, it is external and said above.
* Sequential memory devices: `os.c` makes none.
* Printing and dumps.
* Widths of sizes: `get_free_vmrg_area` takes a size as `int`, `__alloc` keeps
  `sbrk` in an `int`. `Regions` counts in unbounded integers. The fields of
  entries and addresses have their widths.

## 6. Plan

All components that have code under the options of `os-cfg.h` are modelled as
far as their bodies go, and what the passing runs check is proved as far as the
prover reaches. What is left:

1. `Regions` with the width of `int` that sizes have in `get_free_vmrg_area` and
   `__alloc`, and devices whose size does not fit `maxsz`: hazards that no
   property covers yet.
2. When the open bodies are written: the page directory walk and
   `vmap_page_range` in place of the external actions of `PageTable`, and the
   MLQ policy as a refinement of `OsPool`.
