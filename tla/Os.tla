---------------------------------- MODULE Os ----------------------------------
(***************************************************************************)
(* os.c: the CPU threads (cpu_routine) and the loader thread (ld_routine), *)
(* on top of the slot barrier of TimeSlots.  The scheduler they share is   *)
(* left to the modules that extend this one: OsStub composes it with       *)
(* sched.c as it is, OsPool with a scheduler that keeps what sched.h says. *)
(* Here are the parts of the two thread bodies between the calls of        *)
(* get_proc, put_proc and add_proc, and what a call does to its caller.    *)
(***************************************************************************)
EXTENDS TimeSlots, FiniteSets

CONSTANTS Cpus, Loader,    \* the device threads
          NumProcs,        \* num_processes; process i is the i-th one loaded
          Inputs,          \* what the input files may say of the processes
          TimeSlot         \* time_slot, the quantum

Procs == 1 .. NumProcs
NULL  == 0                 \* no process

ASSUME DeviceAssumption  == Loader \notin Cpus /\ Devices = Cpus \cup {Loader}
ASSUME ConfigAssumption  == /\ NumProcs \in Nat /\ TimeSlot \in Nat
                            /\ Inputs \subseteq
                                 [start_time : [Procs -> 0 .. MaxTime],
                                  size       : [Procs -> Nat]]

VARIABLES pc,          \* where each thread is in its routine
          proc,        \* cpu_routine's proc, one per CPU
          time_left,   \* cpu_routine's time_left, one per CPU
          i,           \* ld_routine's i, counted from 1
          done,        \* the global flag done
          ppc,         \* proc->pc of each process
          pcb,         \* the life of each PCB
          mm, mm_ready, \* whose memory os.mm is, and whether init_mm has run
          input        \* the input of this run

memVars == <<mm, mm_ready, input>>
osVars  == <<pc, proc, time_left, i, done, ppc, pcb, memVars>>

StartTime == input.start_time    \* ld_processes.start_time
CodeSize  == input.size          \* proc->code->size

CpuPcs    == {"top", "getIdle", "getNext", "put", "recheck", "run", "slot",
              "detach", "exited"}
LoaderPcs == {"load", "wait", "mallocMm", "initMm", "add", "slot",
              "detach", "exited"}

OsTypeOK ==
  /\ SlotTypeOK
  /\ pc \in [Devices -> CpuPcs \cup LoaderPcs]
  /\ \A c \in Cpus : pc[c] \in CpuPcs
  /\ pc[Loader] \in LoaderPcs
  /\ proc \in [Cpus -> Procs \cup {NULL}]
  /\ time_left \in [Cpus -> Int]
  /\ i \in 1 .. NumProcs + 1
  /\ done \in BOOLEAN
  /\ ppc \in [Procs -> Nat] /\ \A p \in Procs : ppc[p] <= CodeSize[p]
  /\ pcb \in [Procs -> {"none", "live", "freed"}]
  /\ mm \in Procs \cup {NULL} /\ mm_ready \in BOOLEAN
  /\ input \in Inputs

OsInit == /\ SlotInit
          /\ pc = [t \in Devices |-> IF t = Loader THEN "load" ELSE "top"]
          /\ proc = [c \in Cpus |-> NULL]
          /\ time_left = [c \in Cpus |-> 0]
          /\ i = 1
          /\ done = FALSE
          /\ ppc = [p \in Procs |-> 0]
          /\ pcb = [p \in Procs |-> "none"]
          /\ mm = NULL /\ mm_ready = FALSE
          /\ input \in Inputs

Goto(t, label) == pc' = [pc EXCEPT ![t] = label]

(* t executes at label: it is not blocked in next_slot.                      *)
At(t, label) == phase[t] = "working" /\ pc[t] = label

(* next_slot: t gives up the slot and goes on at label in the next one.      *)
next_slot(t, label) == Finish(t) /\ Goto(t, label)

-----------------------------------------------------------------------------
(* cpu_routine                                                               *)

Finished(p) == ppc[p] = CodeSize[p]

(* No process: get_proc is called.                                           *)
CpuIdle(c) ==
  /\ At(c, "top") /\ proc[c] = NULL
  /\ Goto(c, "getIdle")
  /\ UNCHANGED <<slotVars, proc, time_left, i, done, ppc, pcb, memVars>>

(* Variant: time_left is not reset.                                          *)
CpuFinished_KeepsQuantum(c) ==
  /\ At(c, "top") /\ proc[c] # NULL /\ Finished(proc[c])
  /\ pcb' = [pcb EXCEPT ![proc[c]] = "freed"]
  /\ Goto(c, "getNext")
  /\ UNCHANGED <<slotVars, proc, time_left, i, done, ppc, memVars>>

(* The process has finished: free(proc), get_proc is called, time_left = 0.  *)
(* proc dangles until get_proc returns.                                      *)
CpuFinished(c) ==
  /\ At(c, "top") /\ proc[c] # NULL /\ Finished(proc[c])
  /\ pcb' = [pcb EXCEPT ![proc[c]] = "freed"]
  /\ time_left' = [time_left EXCEPT ![c] = 0]
  /\ Goto(c, "getNext")
  /\ UNCHANGED <<slotVars, proc, i, done, ppc, memVars>>

(* Variant: put_proc is not called.                                          *)
CpuExpired_NoPut(c) ==
  /\ At(c, "top") /\ proc[c] # NULL /\ ~Finished(proc[c]) /\ time_left[c] = 0
  /\ Goto(c, "getNext")
  /\ UNCHANGED <<slotVars, proc, time_left, i, done, ppc, pcb, memVars>>

(* The quantum is used up: put_proc is called, then get_proc.                *)
CpuExpired(c) ==
  /\ At(c, "top") /\ proc[c] # NULL /\ ~Finished(proc[c]) /\ time_left[c] = 0
  /\ Goto(c, "put")
  /\ UNCHANGED <<slotVars, proc, time_left, i, done, ppc, pcb, memVars>>

CpuKeeps(c) ==
  /\ At(c, "top") /\ proc[c] # NULL /\ ~Finished(proc[c]) /\ time_left[c] # 0
  /\ Goto(c, "recheck")
  /\ UNCHANGED <<slotVars, proc, time_left, i, done, ppc, pcb, memVars>>

(* Variant: the slot is also skipped when a process has just ended.          *)
CpuGets_SkipsAlways(c, p) ==
  /\ At(c, "getIdle") \/ At(c, "getNext")
  /\ proc' = [proc EXCEPT ![c] = p]
  /\ Goto(c, IF p = NULL THEN "slot" ELSE "recheck")
  /\ UNCHANGED <<slotVars, time_left, i, done, ppc, pcb, memVars>>

(* get_proc returns p, or NULL.  A CPU that was idle and gets NULL skips the *)
(* slot at once (continue); in every other case the status is checked again. *)
CpuGets(c, p) ==
  /\ At(c, "getIdle") \/ At(c, "getNext")
  /\ proc' = [proc EXCEPT ![c] = p]
  /\ Goto(c, IF pc[c] = "getIdle" /\ p = NULL THEN "slot" ELSE "recheck")
  /\ UNCHANGED <<slotVars, time_left, i, done, ppc, pcb, memVars>>

(* Variant: a CPU stops whenever it has no process.                          *)
CpuStops_NoDone(c) ==
  /\ At(c, "recheck") /\ proc[c] = NULL
  /\ Goto(c, "detach")
  /\ UNCHANGED <<slotVars, proc, time_left, i, done, ppc, pcb, memVars>>

CpuStops(c) ==
  /\ At(c, "recheck") /\ proc[c] = NULL /\ done
  /\ Goto(c, "detach")
  /\ UNCHANGED <<slotVars, proc, time_left, i, done, ppc, pcb, memVars>>

CpuSkips(c) ==
  /\ At(c, "recheck") /\ proc[c] = NULL /\ ~done
  /\ Goto(c, "slot")
  /\ UNCHANGED <<slotVars, proc, time_left, i, done, ppc, pcb, memVars>>

(* Variant: no new quantum at a dispatch.                                    *)
CpuDispatches_NoQuantum(c) ==
  /\ At(c, "recheck") /\ proc[c] # NULL
  /\ Goto(c, "run")
  /\ UNCHANGED <<slotVars, proc, time_left, i, done, ppc, pcb, memVars>>

(* Dispatch with a new quantum if there is none left.                        *)
CpuDispatches(c) ==
  /\ At(c, "recheck") /\ proc[c] # NULL
  /\ time_left' = [time_left EXCEPT ![c] = IF @ = 0 THEN TimeSlot ELSE @]
  /\ Goto(c, "run")
  /\ UNCHANGED <<slotVars, proc, i, done, ppc, pcb, memVars>>

(* Variant: the slot goes on after an instruction.                           *)
CpuRuns_NoNextSlot(c) ==
  /\ At(c, "run")
  /\ ppc' = [ppc EXCEPT ![proc[c]] = IF @ < CodeSize[proc[c]] THEN @ + 1 ELSE @]
  /\ time_left' = [time_left EXCEPT ![c] = @ - 1]
  /\ Goto(c, "top")
  /\ UNCHANGED <<slotVars, proc, i, done, pcb, memVars>>

(* Variant: the program counter is advanced twice.                           *)
CpuRuns_SkipsOne(c) ==
  /\ At(c, "run")
  /\ ppc' = [ppc EXCEPT ![proc[c]] = IF @ < CodeSize[proc[c]] THEN @ + 2 ELSE @]
  /\ time_left' = [time_left EXCEPT ![c] = @ - 1]
  /\ Goto(c, "slot")
  /\ UNCHANGED <<slotVars, proc, i, done, pcb, memVars>>

(* run(proc) executes one instruction, if there is one left; time_left--.    *)
CpuRuns(c) ==
  /\ At(c, "run")
  /\ ppc' = [ppc EXCEPT ![proc[c]] = IF @ < CodeSize[proc[c]] THEN @ + 1 ELSE @]
  /\ time_left' = [time_left EXCEPT ![c] = @ - 1]
  /\ Goto(c, "slot")
  /\ UNCHANGED <<slotVars, proc, i, done, pcb, memVars>>

CpuNextSlot(c) ==
  /\ At(c, "slot") /\ next_slot(c, "top")
  /\ UNCHANGED <<proc, time_left, i, done, ppc, pcb, memVars>>

(* detach_event, and the thread exits.                                       *)
Detach(t) ==
  /\ At(t, "detach") /\ Leave(t)
  /\ Goto(t, "exited")
  /\ UNCHANGED <<proc, time_left, i, done, ppc, pcb, memVars>>

-----------------------------------------------------------------------------
(* ld_routine                                                                *)

(* load(): a new PCB; its krnl is &os, the one all processes share.          *)
LdLoad ==
  /\ At(Loader, "load") /\ i <= NumProcs
  /\ pcb' = [pcb EXCEPT ![i] = "live"]
  /\ Goto(Loader, "wait")
  /\ UNCHANGED <<slotVars, proc, time_left, i, done, ppc, memVars>>

(* while (current_time() < start_time[i]) next_slot(...)                     *)
LdWait ==
  /\ At(Loader, "wait")
  /\ IF time < StartTime[i] THEN next_slot(Loader, "wait")
                            ELSE Goto(Loader, "mallocMm") /\ UNCHANGED slotVars
  /\ UNCHANGED <<proc, time_left, i, done, ppc, pcb, memVars>>

(* krnl->mm = malloc(...): os.mm is a new block, not yet initialised.        *)
LdMallocMm ==
  /\ At(Loader, "mallocMm")
  /\ mm' = i /\ mm_ready' = FALSE
  /\ Goto(Loader, "initMm")
  /\ UNCHANGED <<slotVars, proc, time_left, i, done, ppc, pcb, input>>

LdInitMm ==
  /\ At(Loader, "initMm")
  /\ mm_ready' = TRUE
  /\ Goto(Loader, "add")
  /\ UNCHANGED <<slotVars, proc, time_left, i, done, ppc, pcb, mm, input>>

(* Variant: the loader does not wait for the next slot after add_proc.       *)
LdNextSlot_NoWait ==
  /\ At(Loader, "slot") /\ Goto(Loader, "load")
  /\ i' = i + 1
  /\ UNCHANGED <<slotVars, proc, time_left, done, ppc, pcb, memVars>>

(* i++ and next_slot, after add_proc has returned.                           *)
LdNextSlot ==
  /\ At(Loader, "slot") /\ next_slot(Loader, "load")
  /\ i' = i + 1
  /\ UNCHANGED <<proc, time_left, done, ppc, pcb, memVars>>

LdDone ==
  /\ At(Loader, "load") /\ i > NumProcs
  /\ done' = TRUE
  /\ Goto(Loader, "detach")
  /\ UNCHANGED <<slotVars, proc, time_left, i, ppc, pcb, memVars>>

-----------------------------------------------------------------------------
(* put_proc, called by a CPU, and add_proc, called by the loader, have the   *)
(* same body; both hand one process to the scheduler and return.             *)
HandsOver(t) == At(t, "put") \/ At(t, "add")

HandedOver(t) == IF t = Loader THEN i ELSE proc[t]

EnqueueReturns(t) ==
  /\ HandsOver(t)
  /\ Goto(t, IF t = Loader THEN "slot" ELSE "getNext")
  /\ UNCHANGED <<slotVars, proc, time_left, i, done, ppc, pcb, memVars>>

CpuLocal(c) ==
  \/ CpuIdle(c) \/ CpuFinished(c) \/ CpuExpired(c) \/ CpuKeeps(c)
  \/ CpuStops(c) \/ CpuSkips(c) \/ CpuDispatches(c) \/ CpuRuns(c)
  \/ CpuNextSlot(c) \/ Detach(c)

LdLocal == \/ LdLoad \/ LdWait \/ LdMallocMm \/ LdInitMm \/ LdNextSlot
           \/ LdDone \/ Detach(Loader)

(* The timer: a new slot, or its end when every thread has detached.         *)
Clock == (Tick \/ LastTick) /\ UNCHANGED osVars
=============================================================================
