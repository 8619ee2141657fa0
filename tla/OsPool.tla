-------------------------------- MODULE OsPool --------------------------------
(***************************************************************************)
(* os.c with a scheduler that does what sched.h says of its three          *)
(* functions: get_proc takes the next process from the ready queue,        *)
(* put_proc puts one back, add_proc adds a new one.  sched.c leaves their  *)
(* bodies open, so the choice of get_proc is open here too: any process    *)
(* that is ready may be the next, NULL is returned when none is.  What     *)
(* holds here holds of os.c with every such scheduler, MLQ included.       *)
(***************************************************************************)
EXTENDS Os

VARIABLES ready,     \* the processes the scheduler holds
          ran        \* history: instructions of each executed in this slot

vars == <<slotVars, osVars, ready, ran>>

TypeOK == OsTypeOK /\ ready \subseteq Procs /\ ran \in [Procs -> Nat]

Init == OsInit /\ ready = {} /\ ran = [p \in Procs |-> 0]

get_proc(c) == \/ ready = {} /\ CpuGets(c, NULL) /\ UNCHANGED ready
               \/ \E p \in ready : CpuGets(c, p) /\ ready' = ready \ {p}

(* put_proc and add_proc *)
put_proc(t) == EnqueueReturns(t) /\ ready' = ready \cup {HandedOver(t)}

CpuStep(c) == /\ get_proc(c) \/ put_proc(c) \/ (CpuLocal(c) /\ UNCHANGED ready)
              /\ ran' = [p \in Procs |-> ran[p] + (ppc'[p] - ppc[p])]
LdStep     == /\ put_proc(Loader) \/ (LdLocal /\ UNCHANGED ready)
              /\ UNCHANGED ran
ClockStep  == Clock /\ UNCHANGED ready /\ ran' = [p \in Procs |-> 0]

(* The threads have exited and main has stopped the timer.                   *)
Terminated == ~running /\ UNCHANGED vars

Next == \/ \E c \in Cpus : CpuStep(c)
        \/ LdStep
        \/ ClockStep
        \/ Terminated

(* The operating system runs every thread, and TimeSlots (implemented by     *)
(* Timer) a new slot after a finished one.                                   *)
Spec == /\ Init /\ [][Next]_vars
        /\ \A c \in Cpus : WF_vars(CpuStep(c))
        /\ WF_vars(LdStep)
        /\ WF_vars(Tick /\ ClockStep)

-----------------------------------------------------------------------------
(* Properties                                                                *)

(* c owns its process: it has it from get_proc and has not handed it over.   *)
Owns(c, p) == proc[c] = p /\ pc[c] # "getNext"

Added(p) == p < i \/ (p = i /\ pc[Loader] = "slot")

(* A process that has been added is in one place at any time: in the ready   *)
(* queue, on one CPU, or finished and freed.  None is lost between           *)
(* put_proc and get_proc, run by two CPUs, or used after free.               *)
ProcessConserved ==
  \A p \in Procs :
    LET owners == {c \in Cpus : Owns(c, p)}
    IN  IF Added(p)
          THEN \/ p \in ready /\ owners = {} /\ pcb[p] = "live"
               \/ p \notin ready /\ Cardinality(owners) = 1 /\ pcb[p] = "live"
               \/ p \notin ready /\ owners = {} /\ pcb[p] = "freed" /\ Finished(p)
          ELSE p \notin ready /\ owners = {} /\ pcb[p] # "freed"

GivesUp(c) == \/ pc[c] \in {"detach", "exited"}
              \/ pc[c] = "recheck" /\ proc[c] = NULL /\ done

(* A CPU that decides to stop, because it got no process and then saw done,  *)
(* leaves none behind: the test of done comes after get_proc, and the loader *)
(* sets done one slot after its last add_proc, so nothing can have been added*)
(* in between; and a process put back meanwhile has a CPU that goes on.      *)
NoStrandedProcess ==
  \A c \in Cpus : pc[c] \in {"detach", "exited"} =>
    /\ \A p \in Procs : Added(p)
    /\ ready # {} => \E e \in Cpus : ~GivesUp(e)

(* A process that comes to a CPU gets a full quantum, whatever the one       *)
(* before, preempted or finished, has left.                                  *)
FullQuantum ==
  [][\A c \in Cpus : proc'[c] \notin {NULL, proc[c]} => time_left[c] = 0]_vars

(* A CPU runs a process for at most time_slot slots on end: time_left, which *)
(* is signed and only compared with 0, never passes it.                      *)
QuantumBound == \A c \in Cpus : /\ time_left[c] \in 0 .. TimeSlot
                                /\ pc[c] = "run" => time_left[c] > 0

(* A process executes at most one instruction in a slot, also when it waited *)
(* before, and when put_proc and get_proc pass it to another CPU.            *)
OneInstructionPerSlot == \A p \in Procs : ran[p] <= 1

(* Every process is run to its end and its PCB freed; in particular no CPU   *)
(* stops too early and the loader is never kept from loading.                *)
AllProcessesFinish == <>(\A p \in Procs : pcb[p] = "freed")

(* A CPU that has a process when the loader is done stops at last: after its *)
(* process comes the test of done (os.c:83), whatever get_proc returns.      *)
BusyCpuStops == \A c \in Cpus : (done /\ proc[c] # NULL) ~> (pc[c] = "exited")

(* "No process to run, exit" (os.c:84).                                      *)
EveryCpuStops == \A c \in Cpus : <>(pc[c] = "exited")

(* A process runs on the memory that was set up for it.                      *)
OwnMemory == \A c \in Cpus : pc[c] = "run" => mm = proc[c] /\ mm_ready
=============================================================================
