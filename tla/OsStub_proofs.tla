----------------------------- MODULE OsStub_proofs -----------------------------
(***************************************************************************)
(* The simulator with the scheduler as committed comes to a halt, for any  *)
(* number of CPUs, processes and inputs.                                   *)
(***************************************************************************)
EXTENDS OsStub, Os_proofs, FiniteSetTheorems

(* No CPU ever gets a process, and none ever stops.                          *)
IdleInv ==
  \A c \in Cpus : /\ proc[c] = NULL /\ pc[c] \in {"top", "getIdle", "slot"}
                  /\ \/ phase[c] = "working"
                     \/ phase[c] = "waiting" /\ pc[c] = "top"

(* Either the clock has not moved, and a CPU that is through its slot holds  *)
(* queue_lock; or there is one CPU only, which has come to its second slot,  *)
(* where it never gets further than get_proc.                                *)
HaltInv ==
  \/ time = 0 /\ \A c \in Cpus : phase[c] = "waiting" \/ pc[c] = "slot" => queue_lock = c
  \/ /\ time <= 1 /\ queue_lock # "free"
     /\ \A c \in Cpus : phase[c] = "working" /\ pc[c] \in {"top", "getIdle"}
     /\ \A c, e \in Cpus : c = e

(* Once the loader has added a process it waits for the next slot, and in    *)
(* that one the lock is held.                                                *)
AddInv == /\ pc[Loader] = "slot" => i = 1
          /\ i = 1 \/ (i = 2 /\ (phase[Loader] = "waiting" \/ queue_lock # "free"))

IInv == TypeOK /\ OsPcInv /\ IdleInv /\ HaltInv /\ AddInv

(* A step with the committed scheduler is one of os.c.                       *)
LEMMA StepIsOsStep == Next => OsNext
BY DEF Next, CpuStep, LdStep, get_mlq_proc, put_mlq_proc, OsNext

(* Initially the lock is free and the clock at 0.                            *)
LEMMA IInvInit == "free" \notin Cpus /\ Init => IInv
<1>. SUFFICES ASSUME Init PROVE IInv
  OBVIOUS
<1>1. OsInv
  BY OsInvInit DEF Init
<1>. QED
  BY <1>1, DeviceAssumption
  DEF Init, OsInit, SlotInit, OsInv, IInv, TypeOK, IdleInv, HaltInv, AddInv

(* Every step keeps the invariant, with one CPU or more.                     *)
LEMMA IInvStep ==
  Cpus # {} /\ "free" \notin Cpus /\ IInv /\ [Next]_vars => IInv'
<1>. SUFFICES ASSUME Cpus # {}, "free" \notin Cpus, IInv, [Next]_vars
              PROVE  IInv'
  OBVIOUS
<1>0. OsInv'
  BY StepIsOsStep, OsInvStep DEF IInv, TypeOK, OsInv, vars
<1>. USE DeviceAssumption, <1>0
<1>. USE DEF OsInv, IInv, TypeOK, IdleInv, HaltInv, AddInv, OsTypeOK, SlotTypeOK, At, Goto
<1>1. ASSUME NEW c \in Cpus, get_mlq_proc(c) PROVE IInv'
  BY <1>1 DEF get_mlq_proc, CpuGets, slotVars
<1>2. ASSUME NEW c \in Cpus, CpuLocal(c), UNCHANGED queue_lock PROVE IInv'
  <2>1. CASE CpuIdle(c)
    BY <2>1, <1>2 DEF CpuIdle, slotVars
  <2>2. CASE CpuNextSlot(c)
    BY <2>2, <1>2 DEF CpuNextSlot, next_slot, Finish
  <2>. QED
    BY <2>1, <2>2, <1>2
    DEF CpuLocal, CpuFinished, CpuExpired, CpuKeeps, CpuStops, CpuSkips, CpuDispatches,
        CpuRuns, Detach, NULL
<1>3. ASSUME LdLocal, UNCHANGED queue_lock PROVE IInv'
  <2>1. CASE LdWait
    BY <2>1, <1>3 DEF LdWait, next_slot, Finish, slotVars
  <2>2. CASE LdNextSlot
    BY <2>2, <1>3 DEF LdNextSlot, next_slot, Finish
  <2>3. CASE Detach(Loader)
    BY <2>3, <1>3 DEF Detach, Leave
  <2>4. CASE LdLoad \/ LdMallocMm \/ LdInitMm \/ LdDone
    BY <2>4, <1>3 DEF LdLoad, LdMallocMm, LdInitMm, LdDone, slotVars
  <2>. QED
    BY <2>1, <2>2, <2>3, <2>4, <1>3 DEF LdLocal
<1>4. ASSUME NEW t \in Devices, put_mlq_proc(t) PROVE IInv'
  <2>1. t = Loader /\ pc[Loader] = "add" /\ i = 1
    BY <1>4 DEF put_mlq_proc, EnqueueReturns, HandsOver, LoaderPcs
  <2>. QED
    BY <2>1, <1>4 DEF put_mlq_proc, EnqueueReturns, slotVars
<1>5. ASSUME Clock, UNCHANGED queue_lock PROVE IInv'
  <2>1. Tick /\ UNCHANGED osVars
    BY <1>5 DEF Clock, LastTick
  <2>2. \A c \in Cpus : phase[c] = "waiting"
    BY <2>1 DEF Tick, NoneWorking
  <2>3. time = 0 /\ \A c \in Cpus : queue_lock = c
    BY <2>2
  <2>4. time' <= 1 /\ \A c \in Cpus : phase'[c] = "working"
    BY <2>1, <2>2, <2>3, MaxTimeAssumption DEF Tick, Bump
  <2>. QED
    BY <2>1, <2>2, <2>3, <2>4, <1>5 DEF osVars
<1>6. CASE UNCHANGED vars
  BY <1>6 DEF vars, slotVars, osVars
<1>. QED
  BY <1>1, <1>2, <1>3, <1>4, <1>5, <1>6 DEF Next, CpuStep, LdStep

(* The invariant holds in every reachable state.                             *)
LEMMA Inductive ==
  ASSUME Cpus # {}, "free" \notin Cpus PROVE Spec => []IInv
BY IInvInit, IInvStep, PTL DEF Spec

(* The variables of os.c and queue_lock keep their types with the scheduler  *)
(* as committed (os.c:51-167, sched.c:59-100): what holds queue_lock for     *)
(* good is a CPU, and never the loader, since add_proc releases it.          *)
THEOREM TypeCorrect ==
  ASSUME Cpus # {}, "free" \notin Cpus PROVE Spec => []TypeOK
<1>1. IInv => TypeOK
  BY DEF IInv
<1>. QED
  BY Inductive, <1>1, PTL

(* get_mlq_proc returns with queue_lock held (sched.c:62): with two CPUs or  *)
(* more the clock never moves, with one it moves once, whatever the input.   *)
THEOREM SimulationHalts ==
  ASSUME Cpus # {}, "free" \notin Cpus, IsFiniteSet(Cpus) PROVE Spec => []ClockStalls
<1>1. IInv => ClockStalls
  <2>. SUFFICES ASSUME IInv, time # 0 PROVE time <= 1 /\ ~(Cardinality(Cpus) > 1)
    BY DEF ClockStalls, IInv, TypeOK, OsTypeOK, SlotTypeOK
  <2>1. time <= 1 /\ \A c, e \in Cpus : c = e
    BY DEF IInv, HaltInv
  <2>2. PICK c \in Cpus : Cpus = {c}
    BY <2>1
  <2>3. Cardinality(Cpus) = 1
    BY <2>2, FS_Singleton
  <2>. QED
    BY <2>1, <2>3
<1>. QED
  BY Inductive, <1>1, PTL

(* Of all processes at most the first is ever added (os.c:157): the next     *)
(* add_proc would need the lock that the first get_proc has kept.            *)
THEOREM OneProcessAdded ==
  ASSUME Cpus # {}, "free" \notin Cpus PROVE Spec => []AtMostOneAdded
<1>1. IInv => AtMostOneAdded
  BY DEF IInv, AddInv, AtMostOneAdded
<1>. QED
  BY Inductive, <1>1, PTL
=============================================================================
