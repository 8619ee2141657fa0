----------------------------- MODULE OsPool_proofs -----------------------------
(***************************************************************************)
(* No process is lost, doubled or stranded by os.c, over any scheduler     *)
(* that keeps what sched.h says, for any number of CPUs and processes.     *)
(***************************************************************************)
EXTENDS OsPool, Os_proofs, FiniteSetTheorems

(* A process that has been added is ready, on one CPU, or freed.             *)
PlaceInv ==
  /\ \A p \in ready : Added(p) /\ pcb[p] = "live"
  /\ \A p \in Procs, c \in Cpus :
       Owns(c, p) => Added(p) /\ pcb[p] = "live" /\ p \notin ready
  /\ \A p \in Procs, c, e \in Cpus : Owns(c, p) /\ Owns(e, p) => c = e
  /\ \A p \in Procs : pcb[p] = "freed" => Added(p) /\ Finished(p)
  /\ \A p \in Procs : Added(p) => \/ p \in ready \/ pcb[p] = "freed"
                                  \/ \E c \in Cpus : Owns(c, p)
  /\ \A c \in Cpus : pc[c] = "getIdle" => proc[c] = NULL
  /\ pc[Loader] \in {"wait", "mallocMm", "initMm", "add"} => pcb[i] = "live"

(* No quantum is left where get_proc is called; one is left where a process  *)
(* runs, unless a quantum is 0.                                              *)
QuantumInv ==
  \A c \in Cpus :
    /\ pc[c] \in {"getIdle", "getNext", "put"} \/ proc[c] = NULL => time_left[c] = 0
    /\ TimeSlot > 0 => /\ time_left[c] \in 0 .. TimeSlot
                       /\ pc[c] = "run" => time_left[c] > 0

(* p is on a CPU that is through with the current slot.                      *)
Ran(p) == \E c \in Cpus : Owns(c, p) /\ (pc[c] = "slot" \/ phase[c] = "waiting")

(* A process that has executed an instruction in the current slot is still on*)
(* the CPU that ran it, which is through with the slot: put_proc, get_proc   *)
(* and run are all behind it.                                                *)
RanInv == \A p \in Procs : ran[p] \in 0 .. 1 /\ (ran[p] = 1 => Ran(p))

(* Where a thread is when it waits for a slot or has gone, and when done is  *)
(* set; and when all processes may have been added, some CPU is not about to *)
(* stop or has still to look for a process while one is ready.               *)
Resting(c) == pc[c] \in {"detach", "exited"} \/ (pc[c] = "recheck" /\ proc[c] = NULL)

StopInv ==
  /\ \A c \in Cpus : /\ phase[c] = "waiting" => pc[c] = "top"
                     /\ phase[c] = "gone" => pc[c] = "exited"
                     /\ pc[c] \in {"detach", "exited"} => done
  /\ phase[Loader] = "waiting" => pc[Loader] \in {"load", "wait"}
  /\ done => pc[Loader] \in {"detach", "exited"} /\ i = NumProcs + 1
  /\ pc[Loader] \in {"load", "detach", "exited"} /\ phase[Loader] # "waiting"
       => ready = {} \/ Cpus = {} \/ \E e \in Cpus : ~Resting(e)

IInv == TypeOK /\ OsPcInv /\ PlaceInv /\ QuantumInv /\ RanInv /\ StopInv

-----------------------------------------------------------------------------
(* The null pointer is not a process.                                        *)
LEMMA NullIsNoProcess == NULL \notin Procs
BY DEF NULL, Procs

(* Every step keeps the types, and the program counters where they belong.   *)
LEMMA TypesStep == IInv /\ [Next]_vars => (TypeOK /\ OsPcInv)'
<1>. SUFFICES ASSUME IInv, [Next]_vars PROVE (TypeOK /\ OsPcInv)'
  OBVIOUS
<1>1. OsInv'
  <2>1. OsInv
    BY DEF IInv, TypeOK, OsInv
  <2>2. CASE UNCHANGED vars
    BY <2>1, <2>2, OsInvStep DEF vars
  <2>3. CASE \E c \in Cpus : get_proc(c)
    BY <2>1, <2>3, OsInvStep DEF get_proc, OsNext, IInv, TypeOK
  <2>4. CASE Next /\ ~\E c \in Cpus : get_proc(c)
    BY <2>1, <2>4, OsInvStep, DeviceAssumption
    DEF Next, CpuStep, LdStep, ClockStep, put_proc, Terminated, vars, OsNext
  <2>. QED
    BY <2>2, <2>3, <2>4
<1>2. (ready \subseteq Procs)'
  <2>1. \A t \in Devices : HandsOver(t) => HandedOver(t) \in Procs
    BY DeviceAssumption DEF IInv, TypeOK, OsTypeOK, OsPcInv, HandsOver, HandedOver, At, CpuPcs, LoaderPcs
  <2>. QED
    BY <2>1, DeviceAssumption
    DEF IInv, TypeOK, Next, CpuStep, LdStep, ClockStep, get_proc, put_proc, Terminated, vars, EnqueueReturns
<1>3. (ran \in [Procs -> Nat])'
  <2>1. ran \in [Procs -> Nat] /\ \A p \in Procs : ppc[p] \in Nat
    BY DEF IInv, TypeOK, OsTypeOK
  <2>2. CASE \E c \in Cpus : CpuStep(c)
    <3>1. \A p \in Procs : ppc'[p] \in Nat /\ ppc'[p] >= ppc[p]
      BY <2>1, <2>2, <1>1
      DEF CpuStep, get_proc, put_proc, CpuGets, EnqueueReturns, CpuLocal, CpuIdle, CpuFinished,
          CpuExpired, CpuKeeps, CpuStops, CpuSkips, CpuDispatches, CpuRuns, CpuNextSlot,
          Detach, OsInv, OsTypeOK, IInv, TypeOK
    <3>2. \A p \in Procs : ran[p] + (ppc'[p] - ppc[p]) \in Nat
      BY <2>1, <3>1
    <3>. QED
      BY <2>2, <3>2 DEF CpuStep
  <2>3. CASE ~\E c \in Cpus : CpuStep(c)
    BY <2>1, <2>3 DEF Next, LdStep, ClockStep, Terminated, vars
  <2>. QED
    BY <2>2, <2>3
<1>. QED
  BY <1>1, <1>2, <1>3 DEF TypeOK, OsInv

(* Every step keeps each process in one place.                               *)
LEMMA PlaceStep ==
  ASSUME IInv, [Next]_vars, (TypeOK /\ OsPcInv)' PROVE PlaceInv'
<1>. USE NullIsNoProcess, DeviceAssumption
<1>. USE DEF IInv, TypeOK, OsTypeOK, SlotTypeOK, OsPcInv, PlaceInv, Owns, Added, Finished,
             At, Goto, memVars, slotVars, CodeSize
<1>1. ASSUME NEW c \in Cpus, CpuIdle(c), UNCHANGED ready PROVE PlaceInv'
  BY <1>1 DEF CpuIdle
<1>2. ASSUME NEW c \in Cpus, CpuFinished(c), UNCHANGED ready PROVE PlaceInv'
  BY <1>2 DEF CpuFinished
<1>3. ASSUME NEW c \in Cpus, CpuExpired(c), UNCHANGED ready PROVE PlaceInv'
  BY <1>3 DEF CpuExpired
<1>4. ASSUME NEW c \in Cpus, CpuKeeps(c), UNCHANGED ready PROVE PlaceInv'
  BY <1>4 DEF CpuKeeps
<1>5. ASSUME NEW c \in Cpus, CpuStops(c), UNCHANGED ready PROVE PlaceInv'
  BY <1>5 DEF CpuStops
<1>6. ASSUME NEW c \in Cpus, CpuSkips(c), UNCHANGED ready PROVE PlaceInv'
  BY <1>6 DEF CpuSkips
<1>7. ASSUME NEW c \in Cpus, CpuDispatches(c), UNCHANGED ready PROVE PlaceInv'
  BY <1>7 DEF CpuDispatches
<1>8. ASSUME NEW c \in Cpus, CpuRuns(c), UNCHANGED ready PROVE PlaceInv'
  BY <1>8 DEF CpuRuns
<1>9. ASSUME NEW c \in Cpus, CpuNextSlot(c), UNCHANGED ready PROVE PlaceInv'
  BY <1>9 DEF CpuNextSlot, next_slot, Finish
<1>10. ASSUME NEW t \in Devices, Detach(t), UNCHANGED ready PROVE PlaceInv'
  BY <1>10 DEF Detach, Leave
<1>11. ASSUME LdLoad, UNCHANGED ready PROVE PlaceInv'
  BY <1>11 DEF LdLoad
<1>12. ASSUME LdWait, UNCHANGED ready PROVE PlaceInv'
  BY <1>12 DEF LdWait, next_slot, Finish
<1>13. ASSUME LdMallocMm, UNCHANGED ready PROVE PlaceInv'
  BY <1>13 DEF LdMallocMm
<1>14. ASSUME LdInitMm, UNCHANGED ready PROVE PlaceInv'
  BY <1>14 DEF LdInitMm
<1>15. ASSUME LdNextSlot, UNCHANGED ready PROVE PlaceInv'
  <2>1. \A p \in Procs : Added(p)' <=> Added(p)
    BY <1>15 DEF LdNextSlot, next_slot, Finish, Procs
  <2>2. \A p \in Procs, c \in Cpus : Owns(c, p)' <=> Owns(c, p)
    BY <1>15 DEF LdNextSlot, next_slot, Finish
  <2>. HIDE DEF Added, Owns
  <2>. QED
    BY <2>1, <2>2, <1>15 DEF LdNextSlot, next_slot, Finish
<1>16. ASSUME LdDone, UNCHANGED ready PROVE PlaceInv'
  BY <1>16 DEF LdDone
<1>17. ASSUME NEW c \in Cpus, get_proc(c) PROVE PlaceInv'
  BY <1>17 DEF get_proc, CpuGets
<1>18. ASSUME NEW t \in Devices, put_proc(t) PROVE PlaceInv'
  <2>1. CASE t = Loader
    <3>1. /\ pc[Loader] = "add" /\ pc' = [pc EXCEPT ![Loader] = "slot"]
          /\ ready' = ready \cup {i} /\ UNCHANGED <<proc, pcb, ppc, i, input>>
      BY <2>1, <1>18 DEF put_proc, EnqueueReturns, HandsOver, HandedOver, LoaderPcs
    <3>2. i \in Procs /\ pcb[i] = "live"
      BY <3>1
    <3>3. \A p \in Procs : Added(p)' <=> Added(p) \/ p = i
      BY <3>1, <3>2
    <3>4. \A p \in Procs, c \in Cpus : Owns(c, p)' <=> Owns(c, p)
      BY <3>1
    <3>5. ~Added(i)
      BY <3>1, <3>2 DEF Procs
    <3>. HIDE DEF Added, Owns
    <3>. QED
      BY <3>1, <3>2, <3>3, <3>4, <3>5
  <2>2. CASE t \in Cpus
    <3>1. /\ pc[t] = "put" /\ pc' = [pc EXCEPT ![t] = "getNext"]
          /\ ready' = ready \cup {proc[t]} /\ UNCHANGED <<proc, pcb, ppc, i, input>>
      BY <2>2, <1>18 DEF put_proc, EnqueueReturns, HandsOver, HandedOver, CpuPcs
    <3>2. proc[t] \in Procs /\ Owns(t, proc[t])
      BY <2>2, <3>1
    <3>3. \A p \in Procs : Added(p)' <=> Added(p)
      BY <2>2, <3>1
    <3>4. \A p \in Procs, c \in Cpus : Owns(c, p)' <=> Owns(c, p) /\ c # t
      BY <2>2, <3>1
    <3>5. \A p \in Procs : Owns(t, p) => p = proc[t]
      OBVIOUS
    <3>. HIDE DEF Added, Owns
    <3>. QED
      BY <2>2, <3>1, <3>2, <3>3, <3>4, <3>5
  <2>. QED
    BY <2>1, <2>2
<1>19. ASSUME Clock, UNCHANGED ready PROVE PlaceInv'
  BY <1>19 DEF Clock, Tick, LastTick, osVars
<1>20. CASE UNCHANGED vars
  BY <1>20 DEF vars, osVars
<1>. QED
  BY <1>1, <1>2, <1>3, <1>4, <1>5, <1>6, <1>7, <1>8, <1>9, <1>10, <1>11,
     <1>12, <1>13, <1>14, <1>15, <1>16, <1>17, <1>18, <1>19, <1>20, DeviceAssumption
  DEF Next, CpuStep, LdStep, ClockStep, CpuLocal, LdLocal, Terminated

(* Every step leaves no quantum where get_proc is called.                    *)
LEMMA QuantumStep ==
  ASSUME IInv, [Next]_vars, (TypeOK /\ OsPcInv)' PROVE QuantumInv'
<1>. USE NullIsNoProcess, DeviceAssumption, ConfigAssumption
<1>. USE DEF IInv, TypeOK, OsTypeOK, OsPcInv, PlaceInv, QuantumInv, At, Goto, memVars, slotVars
<1>1. ASSUME NEW c \in Cpus, CpuIdle(c), UNCHANGED ready PROVE QuantumInv'
  BY <1>1 DEF CpuIdle
<1>2. ASSUME NEW c \in Cpus, CpuFinished(c), UNCHANGED ready PROVE QuantumInv'
  BY <1>2 DEF CpuFinished
<1>3. ASSUME NEW c \in Cpus, CpuExpired(c), UNCHANGED ready PROVE QuantumInv'
  BY <1>3 DEF CpuExpired
<1>4. ASSUME NEW c \in Cpus, CpuKeeps(c), UNCHANGED ready PROVE QuantumInv'
  BY <1>4 DEF CpuKeeps
<1>5. ASSUME NEW c \in Cpus, CpuStops(c), UNCHANGED ready PROVE QuantumInv'
  BY <1>5 DEF CpuStops
<1>6. ASSUME NEW c \in Cpus, CpuSkips(c), UNCHANGED ready PROVE QuantumInv'
  BY <1>6 DEF CpuSkips
<1>7. ASSUME NEW c \in Cpus, CpuDispatches(c), UNCHANGED ready PROVE QuantumInv'
  BY <1>7 DEF CpuDispatches
<1>8. ASSUME NEW c \in Cpus, CpuRuns(c), UNCHANGED ready PROVE QuantumInv'
  BY <1>8 DEF CpuRuns
<1>9. ASSUME NEW c \in Cpus, CpuNextSlot(c), UNCHANGED ready PROVE QuantumInv'
  BY <1>9 DEF CpuNextSlot, next_slot, Finish
<1>10. ASSUME NEW t \in Devices, Detach(t), UNCHANGED ready PROVE QuantumInv'
  BY <1>10 DEF Detach, Leave
<1>11. ASSUME LdLoad, UNCHANGED ready PROVE QuantumInv'
  BY <1>11 DEF LdLoad
<1>12. ASSUME LdWait, UNCHANGED ready PROVE QuantumInv'
  BY <1>12 DEF LdWait, next_slot, Finish
<1>13. ASSUME LdMallocMm, UNCHANGED ready PROVE QuantumInv'
  BY <1>13 DEF LdMallocMm
<1>14. ASSUME LdInitMm, UNCHANGED ready PROVE QuantumInv'
  BY <1>14 DEF LdInitMm
<1>15. ASSUME LdNextSlot, UNCHANGED ready PROVE QuantumInv'
  BY <1>15 DEF LdNextSlot, next_slot, Finish
<1>16. ASSUME LdDone, UNCHANGED ready PROVE QuantumInv'
  BY <1>16 DEF LdDone
<1>17. ASSUME NEW c \in Cpus, get_proc(c) PROVE QuantumInv'
  BY <1>17 DEF get_proc, CpuGets
<1>18. ASSUME NEW t \in Devices, put_proc(t) PROVE QuantumInv'
  <2>1. /\ UNCHANGED <<proc, time_left>>
        /\ \A c \in Cpus : pc'[c] # pc[c] => pc[c] = "put" /\ pc'[c] = "getNext"
    BY <1>18 DEF put_proc, EnqueueReturns, HandsOver, CpuPcs
  <2>. QED
    BY <2>1
<1>19. ASSUME Clock, UNCHANGED ready PROVE QuantumInv'
  BY <1>19 DEF Clock, Tick, LastTick, osVars
<1>20. CASE UNCHANGED vars
  BY <1>20 DEF vars, osVars
<1>. QED
  BY <1>1, <1>2, <1>3, <1>4, <1>5, <1>6, <1>7, <1>8, <1>9, <1>10, <1>11,
     <1>12, <1>13, <1>14, <1>15, <1>16, <1>17, <1>18, <1>19, <1>20, DeviceAssumption
  DEF Next, CpuStep, LdStep, ClockStep, CpuLocal, LdLocal, Terminated

(* No step lets a process run twice in a slot.                               *)
LEMMA RanStep ==
  ASSUME IInv, [Next]_vars, (TypeOK /\ OsPcInv)' PROVE RanInv'
<1>. USE NullIsNoProcess, DeviceAssumption
<1>. DEFINE Counts == ran' = [p \in Procs |-> ran[p] + (ppc'[p] - ppc[p])]
<1>0. /\ ran \in [Procs -> Nat] /\ ppc \in [Procs -> Nat]
      /\ \A p \in Procs : ran[p] \in 0 .. 1 /\ (ran[p] = 1 => Ran(p))
  BY DEF IInv, TypeOK, OsTypeOK, RanInv
(* A step of a CPU that executes nothing and leaves Ran alone.              *)
<1>a. ASSUME Counts, UNCHANGED ppc, \A p \in Procs : Ran(p) => Ran(p)' PROVE RanInv'
  BY <1>0, <1>a DEF RanInv
<1>b. ASSUME UNCHANGED ran, \A p \in Procs : Ran(p) => Ran(p)' PROVE RanInv'
  BY <1>0, <1>b DEF RanInv
<1>. USE DEF IInv, TypeOK, OsTypeOK, SlotTypeOK, OsPcInv, Ran, Owns,
             At, Goto, memVars, slotVars
<1>. HIDE DEF Counts
<1>1. ASSUME NEW c \in Cpus, CpuIdle(c), Counts PROVE RanInv'
  <2>1. UNCHANGED ppc /\ \A p \in Procs : Ran(p) => Ran(p)'
    BY <1>1 DEF CpuIdle
  <2>. QED
    BY <1>a, <1>1, <2>1
<1>2. ASSUME NEW c \in Cpus, CpuFinished(c), Counts PROVE RanInv'
  <2>1. UNCHANGED ppc /\ \A p \in Procs : Ran(p) => Ran(p)'
    BY <1>2 DEF CpuFinished
  <2>. QED
    BY <1>a, <1>2, <2>1
<1>3. ASSUME NEW c \in Cpus, CpuExpired(c), Counts PROVE RanInv'
  <2>1. UNCHANGED ppc /\ \A p \in Procs : Ran(p) => Ran(p)'
    BY <1>3 DEF CpuExpired
  <2>. QED
    BY <1>a, <1>3, <2>1
<1>4. ASSUME NEW c \in Cpus, CpuKeeps(c), Counts PROVE RanInv'
  <2>1. UNCHANGED ppc /\ \A p \in Procs : Ran(p) => Ran(p)'
    BY <1>4 DEF CpuKeeps
  <2>. QED
    BY <1>a, <1>4, <2>1
<1>5. ASSUME NEW c \in Cpus, CpuStops(c), Counts PROVE RanInv'
  <2>1. UNCHANGED ppc /\ \A p \in Procs : Ran(p) => Ran(p)'
    BY <1>5 DEF CpuStops
  <2>. QED
    BY <1>a, <1>5, <2>1
<1>6. ASSUME NEW c \in Cpus, CpuSkips(c), Counts PROVE RanInv'
  <2>1. UNCHANGED ppc /\ \A p \in Procs : Ran(p) => Ran(p)'
    BY <1>6 DEF CpuSkips
  <2>. QED
    BY <1>a, <1>6, <2>1
<1>7. ASSUME NEW c \in Cpus, CpuDispatches(c), Counts PROVE RanInv'
  <2>1. UNCHANGED ppc /\ \A p \in Procs : Ran(p) => Ran(p)'
    BY <1>7 DEF CpuDispatches
  <2>. QED
    BY <1>a, <1>7, <2>1
<1>8. ASSUME NEW c \in Cpus, CpuNextSlot(c), Counts PROVE RanInv'
  <2>1. UNCHANGED ppc /\ \A p \in Procs : Ran(p) => Ran(p)'
    BY <1>8 DEF CpuNextSlot, next_slot, Finish
  <2>. QED
    BY <1>a, <1>8, <2>1
<1>9. ASSUME NEW c \in Cpus, CpuRuns(c), Counts PROVE RanInv'
  <2>1. /\ pc[c] = "run" /\ phase[c] = "working" /\ proc[c] \in Procs
        /\ pc'[c] = "slot" /\ UNCHANGED <<phase, proc>>
        /\ \A e \in Cpus \ {c} : pc'[e] = pc[e]
        /\ ppc' = [ppc EXCEPT ![proc[c]] = IF @ < CodeSize[proc[c]] THEN @ + 1 ELSE @]
    BY <1>9 DEF CpuRuns
  <2>2. ~Ran(proc[c])
    BY <2>1 DEF PlaceInv
  <2>3. \A p \in Procs : Ran(p) => Ran(p)'
    BY <2>1
  <2>4. Ran(proc[c])'
    BY <2>1
  <2>. HIDE DEF Ran
  <2>5. ran[proc[c]] = 0
    BY <1>0, <2>1, <2>2
  <2>6. \A p \in Procs : ran'[p] \in {ran[p], IF p = proc[c] THEN 1 ELSE ran[p]}
    BY <1>0, <1>9, <2>1, <2>5 DEF Counts
  <2>. QED
    BY <1>0, <2>1, <2>3, <2>4, <2>6 DEF RanInv
<1>10. ASSUME NEW c \in Cpus, Detach(c), Counts PROVE RanInv'
  <2>1. UNCHANGED ppc /\ \A p \in Procs : Ran(p) => Ran(p)'
    BY <1>10 DEF Detach, Leave
  <2>. QED
    BY <1>a, <1>10, <2>1
<1>11. ASSUME NEW c \in Cpus, get_proc(c), Counts PROVE RanInv'
  <2>1. /\ pc[c] \in {"getIdle", "getNext"} /\ phase[c] = "working"
        /\ \A p \in Procs : ~Owns(c, p)
        /\ \A e \in Cpus \ {c} : proc'[e] = proc[e] /\ pc'[e] = pc[e]
        /\ UNCHANGED <<phase, ppc>>
    BY <1>11 DEF get_proc, CpuGets, PlaceInv
  <2>2. \A p \in Procs : Ran(p) => Ran(p)'
    BY <2>1
  <2>. QED
    BY <1>a, <1>11, <2>1, <2>2
<1>12. ASSUME NEW t \in Devices, put_proc(t) PROVE \A p \in Procs : Ran(p) => Ran(p)'
  <2>1. /\ pc[t] = IF t = Loader THEN "add" ELSE "put"
        /\ phase[t] = "working"
        /\ pc' = [pc EXCEPT ![t] = IF t = Loader THEN "slot" ELSE "getNext"]
        /\ UNCHANGED <<phase, proc>>
    BY <1>12 DEF put_proc, EnqueueReturns, HandsOver, CpuPcs, LoaderPcs
  <2>. QED
    BY <2>1
<1>13. ASSUME NEW c \in Cpus, put_proc(c), Counts PROVE RanInv'
  <2>1. UNCHANGED ppc
    BY <1>13 DEF put_proc, EnqueueReturns
  <2>. QED
    BY <1>a, <1>12, <1>13, <2>1
<1>14. ASSUME put_proc(Loader), UNCHANGED ran PROVE RanInv'
  BY <1>b, <1>12, <1>14
<1>15. ASSUME LdLocal, UNCHANGED ran PROVE RanInv'
  <2>1. UNCHANGED proc /\ \A c \in Cpus : pc'[c] = pc[c] /\ phase'[c] = phase[c]
    BY <1>15 DEF LdLocal, LdLoad, LdWait, LdMallocMm, LdInitMm, LdNextSlot, LdDone, Detach,
                 Leave, next_slot, Finish
  <2>2. \A p \in Procs : Ran(p) => Ran(p)'
    BY <2>1
  <2>. QED
    BY <1>b, <1>15, <2>2
<1>16. ASSUME ClockStep PROVE RanInv'
  <2>1. \A p \in Procs : ran'[p] = 0
    BY <1>16 DEF ClockStep
  <2>. QED
    BY <2>1 DEF RanInv
<1>17. CASE UNCHANGED vars
  <2>1. UNCHANGED ran /\ \A p \in Procs : Ran(p) => Ran(p)'
    BY <1>17 DEF vars, osVars
  <2>. QED
    BY <1>b, <2>1
<1>. QED
  BY <1>1, <1>2, <1>3, <1>4, <1>5, <1>6, <1>7, <1>8, <1>9, <1>10, <1>11,
     <1>13, <1>14, <1>15, <1>16, <1>17
  DEF Next, CpuStep, LdStep, CpuLocal, Terminated, Counts

(* No step lets the last CPU stop while a process is ready.                  *)
LEMMA StopStep ==
  ASSUME IInv, [Next]_vars, (TypeOK /\ OsPcInv)' PROVE StopInv'
<1>. USE NullIsNoProcess, DeviceAssumption
<1>. USE DEF IInv, TypeOK, OsTypeOK, SlotTypeOK, OsPcInv, PlaceInv, StopInv, Resting,
             At, Goto, memVars, slotVars, Phases
<1>1. ASSUME NEW c \in Cpus, CpuIdle(c), UNCHANGED ready PROVE StopInv'
  BY <1>1 DEF CpuIdle
<1>2. ASSUME NEW c \in Cpus, CpuFinished(c), UNCHANGED ready PROVE StopInv'
  BY <1>2 DEF CpuFinished
<1>3. ASSUME NEW c \in Cpus, CpuExpired(c), UNCHANGED ready PROVE StopInv'
  BY <1>3 DEF CpuExpired
<1>4. ASSUME NEW c \in Cpus, CpuKeeps(c), UNCHANGED ready PROVE StopInv'
  BY <1>4 DEF CpuKeeps
<1>5. ASSUME NEW c \in Cpus, CpuStops(c), UNCHANGED ready PROVE StopInv'
  BY <1>5 DEF CpuStops
<1>6. ASSUME NEW c \in Cpus, CpuSkips(c), UNCHANGED ready PROVE StopInv'
  BY <1>6 DEF CpuSkips
<1>7. ASSUME NEW c \in Cpus, CpuDispatches(c), UNCHANGED ready PROVE StopInv'
  BY <1>7 DEF CpuDispatches
<1>8. ASSUME NEW c \in Cpus, CpuRuns(c), UNCHANGED ready PROVE StopInv'
  BY <1>8 DEF CpuRuns
<1>9. ASSUME NEW c \in Cpus, CpuNextSlot(c), UNCHANGED ready PROVE StopInv'
  BY <1>9 DEF CpuNextSlot, next_slot, Finish
<1>10. ASSUME NEW t \in Devices, Detach(t), UNCHANGED ready PROVE StopInv'
  BY <1>10 DEF Detach, Leave
<1>11. ASSUME LdLoad, UNCHANGED ready PROVE StopInv'
  BY <1>11 DEF LdLoad
<1>12. ASSUME LdWait, UNCHANGED ready PROVE StopInv'
  BY <1>12 DEF LdWait, next_slot, Finish
<1>13. ASSUME LdMallocMm, UNCHANGED ready PROVE StopInv'
  BY <1>13 DEF LdMallocMm
<1>14. ASSUME LdInitMm, UNCHANGED ready PROVE StopInv'
  BY <1>14 DEF LdInitMm
<1>15. ASSUME LdNextSlot, UNCHANGED ready PROVE StopInv'
  BY <1>15 DEF LdNextSlot, next_slot, Finish
<1>16. ASSUME LdDone, UNCHANGED ready PROVE StopInv'
  <2>1. i = NumProcs + 1
    BY <1>16, ConfigAssumption DEF LdDone
  <2>. QED
    BY <2>1, <1>16 DEF LdDone
<1>17. ASSUME NEW c \in Cpus, get_proc(c) PROVE StopInv'
  BY <1>17 DEF get_proc, CpuGets
<1>18. ASSUME NEW t \in Devices, put_proc(t) PROVE StopInv'
  BY <1>18 DEF put_proc, EnqueueReturns, HandsOver, HandedOver
<1>19. ASSUME Clock, UNCHANGED ready PROVE StopInv'
  <2>1. UNCHANGED <<pc, proc, done, i, ready>> /\ (Tick \/ LastTick)
    BY <1>19 DEF Clock, osVars
  <2>2. \A d \in Devices : /\ phase'[d] # "waiting"
                           /\ phase'[d] = "gone" => phase[d] = "gone"
    BY <2>1 DEF Tick, LastTick
  <2>3. phase[Loader] = "waiting" => \A c \in Cpus : ~Resting(c)
    <3>. SUFFICES ASSUME phase[Loader] = "waiting", NEW c \in Cpus PROVE ~Resting(c)
      OBVIOUS
    <3>1. ~done /\ Tick
      BY <2>1 DEF LastTick
    <3>2. phase[c] = "waiting"
      BY <3>1 DEF Tick, NoneWorking
    <3>. QED
      BY <3>2
  <2>. QED
    BY <2>1, <2>2, <2>3
<1>20. CASE UNCHANGED vars
  BY <1>20 DEF vars, osVars
<1>. QED
  BY <1>1, <1>2, <1>3, <1>4, <1>5, <1>6, <1>7, <1>8, <1>9, <1>10, <1>11,
     <1>12, <1>13, <1>14, <1>15, <1>16, <1>17, <1>18, <1>19, <1>20, DeviceAssumption
  DEF Next, CpuStep, LdStep, ClockStep, CpuLocal, LdLocal, Terminated

(* Initially nothing has been added, and every thread is at its start.       *)
LEMMA IInvInit == Init => IInv
<1>. SUFFICES ASSUME Init PROVE IInv
  OBVIOUS
<1>1. OsInv
  BY OsInvInit DEF Init
<1>2. /\ \A d \in Devices : phase[d] = "working"
      /\ \A c \in Cpus : pc[c] = "top" /\ proc[c] = NULL /\ time_left[c] = 0
      /\ pc[Loader] = "load" /\ i = 1 /\ ready = {}
      /\ \A p \in Procs : ppc[p] = 0 /\ pcb[p] = "none"
      /\ done = FALSE /\ phase[Loader] = "working"
  BY DeviceAssumption DEF Init, OsInit, SlotInit
<1>3. \A p \in Procs : ~Added(p) /\ \A c \in Cpus : ~Owns(c, p)
  BY <1>2, NullIsNoProcess DEF Added, Owns, Procs
<1>4. PlaceInv
  BY <1>2, <1>3 DEF PlaceInv
<1>5. QuantumInv
  BY <1>2, ConfigAssumption DEF QuantumInv
<1>6. RanInv /\ ran \in [Procs -> Nat]
  BY DEF Init, RanInv
<1>7. StopInv
  BY <1>2, DeviceAssumption DEF StopInv
<1>. QED
  BY <1>1, <1>2, <1>4, <1>5, <1>6, <1>7 DEF IInv, OsInv, TypeOK

(* The invariant holds in every reachable state.                             *)
LEMMA Inductive == Spec => []IInv
<1>1. IInv /\ [Next]_vars => IInv'
  BY TypesStep, PlaceStep, QuantumStep, RanStep, StopStep DEF IInv
<1>. QED
  BY IInvInit, <1>1, PTL DEF Spec

-----------------------------------------------------------------------------
(* The variables of os.c and the ready queue keep their types; in particular *)
(* the program counter of a process never passes the end of its code         *)
(* (os.c:98).                                                                *)
THEOREM TypeCorrect == Spec => []TypeOK
<1>1. IInv => TypeOK
  BY DEF IInv
<1>. QED
  BY Inductive, <1>1, PTL

(* Between put_proc, get_proc and free (os.c:67-79) no process is lost, on   *)
(* two CPUs, or used after it has been freed, for any number of threads.     *)
THEOREM ProcessesConserved == Spec => []ProcessConserved
<1>1. ASSUME IInv, NEW p \in Procs
      PROVE  LET owners == {c \in Cpus : Owns(c, p)}
             IN  IF Added(p)
                   THEN \/ p \in ready /\ owners = {} /\ pcb[p] = "live"
                        \/ p \notin ready /\ Cardinality(owners) = 1 /\ pcb[p] = "live"
                        \/ p \notin ready /\ owners = {} /\ pcb[p] = "freed" /\ Finished(p)
                   ELSE p \notin ready /\ owners = {} /\ pcb[p] # "freed"
  <2>. DEFINE owners == {c \in Cpus : Owns(c, p)}
  <2>. USE <1>1 DEF IInv, PlaceInv
  <2>1. CASE \E c \in Cpus : Owns(c, p)
    <3>1. PICK c \in Cpus : owners = {c}
      BY <2>1
    <3>2. Cardinality(owners) = 1
      BY <3>1, FS_Singleton
    <3>. QED
      BY <2>1, <3>2
  <2>2. CASE ~\E c \in Cpus : Owns(c, p)
    BY <2>2
  <2>. QED
    BY <2>1, <2>2
<1>2. IInv => ProcessConserved
  BY <1>1 DEF ProcessConserved
<1>. QED
  BY Inductive, <1>2, PTL

(* A CPU that stops (os.c:83-86) leaves no process behind that is not on its *)
(* way to another CPU, although get_proc and the test of done are not atomic *)
(* together.                                                                 *)
THEOREM NoneIsStranded == Spec => []NoStrandedProcess
<1>1. ASSUME IInv, NEW c \in Cpus, pc[c] \in {"detach", "exited"}
      PROVE  /\ \A p \in Procs : Added(p)
             /\ ready # {} => \E e \in Cpus : ~GivesUp(e)
  <2>1. /\ i = NumProcs + 1 /\ pc[Loader] \in {"detach", "exited"}
        /\ phase[Loader] # "waiting"
    BY <1>1 DEF IInv, StopInv
  <2>2. \A p \in Procs : Added(p)
    BY <2>1, ConfigAssumption DEF Added, Procs
  <2>3. ready # {} => \E e \in Cpus : ~Resting(e)
    BY <1>1, <2>1 DEF IInv, StopInv
  <2>. QED
    BY <2>2, <2>3 DEF Resting, GivesUp
<1>2. IInv => NoStrandedProcess
  BY <1>1 DEF NoStrandedProcess
<1>. QED
  BY Inductive, <1>2, PTL

(* time_left, which is signed and only compared with 0 (os.c:74, 95), stays  *)
(* between 0 and time_slot: every process is preempted in time, unless       *)
(* time_slot is 0.                                                           *)
THEOREM QuantaAreBounded == ASSUME TimeSlot > 0 PROVE Spec => []QuantumBound
<1>1. IInv => QuantumBound
  BY DEF IInv, QuantumInv, QuantumBound
<1>. QED
  BY Inductive, <1>1, PTL

(* A CPU takes a process with no quantum of the one before (os.c:67-96).     *)
THEOREM QuantaAreFull == Spec => FullQuantum
<1>1. ASSUME IInv, [Next]_vars, NEW c \in Cpus, proc'[c] \notin {NULL, proc[c]}
      PROVE  time_left[c] = 0
  <2>1. pc[c] \in {"getIdle", "getNext"}
    BY <1>1, DeviceAssumption
    DEF IInv, TypeOK, OsTypeOK, Next, CpuStep, LdStep, ClockStep, get_proc, put_proc, Terminated, vars,
        osVars, CpuGets, At, EnqueueReturns, Clock, CpuLocal, LdLocal, CpuIdle, CpuFinished,
        CpuExpired, CpuKeeps, CpuStops, CpuSkips, CpuDispatches, CpuRuns, CpuNextSlot,
        Detach, LdLoad, LdWait, LdMallocMm, LdInitMm, LdNextSlot, LdDone
  <2>. QED
    BY <1>1, <2>1 DEF IInv, QuantumInv
<1>2. IInv /\ [Next]_vars => [\A c \in Cpus : proc'[c] \notin {NULL, proc[c]}
                                               => time_left[c] = 0]_vars
  BY <1>1
<1>. QED
  BY Inductive, <1>2, PTL DEF Spec, FullQuantum

(* Between two ticks of the clock a process executes at most one instruction *)
(* (os.c:98-101), also when put_proc and get_proc take it from one CPU to    *)
(* another, and however long it waited before.                               *)
THEOREM OneInstruction == Spec => []OneInstructionPerSlot
<1>1. IInv => OneInstructionPerSlot
  BY DEF IInv, RanInv, OneInstructionPerSlot
<1>. QED
  BY Inductive, <1>1, PTL
=============================================================================
