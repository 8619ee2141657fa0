------------------------------- MODULE Os_proofs -------------------------------
(***************************************************************************)
(* What the steps of os.c preserve whichever scheduler it is composed      *)
(* with: the types, and what a thread knows by where it is.                *)
(***************************************************************************)
EXTENDS Os, TLAPS

(* A CPU that is about to run or to hand back a process, or has just freed   *)
(* one, has one in proc; from load to next_slot the loader works on process  *)
(* i of the input.                                                           *)
OsPcInv ==
  /\ \A c \in Cpus : pc[c] \in {"run", "put", "getNext"} => proc[c] # NULL
  /\ pc[Loader] \in {"wait", "mallocMm", "initMm", "add", "slot"} => i \in Procs

OsInv == OsTypeOK /\ OsPcInv

(* A step of some thread or of the clock, with any answer of get_proc.       *)
OsNext == \/ \E c \in Cpus : \/ CpuLocal(c)
                             \/ \E p \in Procs \cup {NULL} : CpuGets(c, p)
          \/ LdLocal
          \/ \E t \in Devices : EnqueueReturns(t)
          \/ Clock

(* Initially the variables of os.c have their types.                         *)
LEMMA OsInvInit == OsInit => OsInv
<1>. SUFFICES ASSUME OsInit PROVE OsInv
  OBVIOUS
<1>. USE MaxTimeAssumption, ConfigAssumption, DeviceAssumption DEF OsInit
<1>1. SlotTypeOK
  BY DEF SlotInit, SlotTypeOK, Phases
<1>2. pc \in [Devices -> CpuPcs \cup LoaderPcs] /\ pc[Loader] = "load"
      /\ \A c \in Cpus : pc[c] = "top"
  BY DEF CpuPcs, LoaderPcs
<1>3. CodeSize \in [Procs -> Nat]
  BY DEF CodeSize
<1>4. ppc \in [Procs -> Nat] /\ \A p \in Procs : ppc[p] <= CodeSize[p]
  BY <1>3
<1>5. i \in 1 .. NumProcs + 1
  OBVIOUS
<1>6. /\ \A c \in Cpus : pc[c] \in CpuPcs
      /\ pc[Loader] \in LoaderPcs
  BY <1>2 DEF CpuPcs, LoaderPcs
<1>7. /\ proc \in [Cpus -> Procs \cup {NULL}] /\ time_left \in [Cpus -> Int]
      /\ pcb \in [Procs -> {"none", "live", "freed"}]
  OBVIOUS
<1>8. done \in BOOLEAN /\ mm \in Procs \cup {NULL} /\ mm_ready \in BOOLEAN
  OBVIOUS
<1>9. OsTypeOK
  BY <1>1, <1>2, <1>4, <1>5, <1>6, <1>7, <1>8 DEF OsTypeOK
<1>. QED
  BY <1>2, <1>9 DEF OsInv, OsPcInv

(* Every step of os.c keeps them, whatever the scheduler does in it.         *)
LEMMA OsInvStep == OsInv /\ (OsNext \/ UNCHANGED <<slotVars, osVars>>) => OsInv'
<1>. SUFFICES ASSUME OsInv, OsNext \/ UNCHANGED <<slotVars, osVars>>
              PROVE  OsInv'
  OBVIOUS
<1>. USE MaxTimeAssumption, ConfigAssumption, DeviceAssumption
<1>. USE DEF OsInv, OsTypeOK, SlotTypeOK, OsPcInv, Phases, CpuPcs, LoaderPcs, At, Goto,
             memVars, slotVars, CodeSize
<1>1. ASSUME NEW c \in Cpus, CpuIdle(c) PROVE OsInv'
  BY <1>1 DEF CpuIdle
<1>2. ASSUME NEW c \in Cpus, CpuFinished(c) PROVE OsInv'
  BY <1>2 DEF CpuFinished
<1>3. ASSUME NEW c \in Cpus, CpuExpired(c) PROVE OsInv'
  BY <1>3 DEF CpuExpired
<1>4. ASSUME NEW c \in Cpus, CpuKeeps(c) PROVE OsInv'
  BY <1>4 DEF CpuKeeps
<1>5. ASSUME NEW c \in Cpus, CpuStops(c) PROVE OsInv'
  BY <1>5 DEF CpuStops
<1>6. ASSUME NEW c \in Cpus, CpuSkips(c) PROVE OsInv'
  BY <1>6 DEF CpuSkips
<1>7. ASSUME NEW c \in Cpus, CpuDispatches(c) PROVE OsInv'
  BY <1>7 DEF CpuDispatches
<1>8. ASSUME NEW c \in Cpus, CpuRuns(c) PROVE OsInv'
  <2>1. proc[c] \in Procs
    BY <1>8 DEF CpuRuns
  <2>2. /\ ppc' \in [Procs -> Nat]
        /\ \A p \in Procs : ppc'[p] <= CodeSize[p]
    BY <2>1, <1>8 DEF CpuRuns
  <2>. QED
    BY <2>2, <1>8 DEF CpuRuns
<1>9. ASSUME NEW c \in Cpus, CpuNextSlot(c) PROVE OsInv'
  BY <1>9 DEF CpuNextSlot, next_slot, Finish
<1>10. ASSUME NEW t \in Devices, Detach(t) PROVE OsInv'
  BY <1>10 DEF Detach, Leave
<1>11. ASSUME NEW c \in Cpus, NEW p \in Procs \cup {NULL}, CpuGets(c, p) PROVE OsInv'
  BY <1>11 DEF CpuGets
<1>12. CASE LdLoad
  <2>1. i \in Procs
    BY <1>12 DEF LdLoad, Procs
  <2>. QED
    BY <2>1, <1>12 DEF LdLoad
<1>13. CASE LdWait
  BY <1>13 DEF LdWait, next_slot, Finish
<1>14. CASE LdMallocMm
  BY <1>14 DEF LdMallocMm
<1>15. CASE LdInitMm
  BY <1>15 DEF LdInitMm
<1>16. CASE LdNextSlot
  BY <1>16 DEF LdNextSlot, next_slot, Finish, Procs
<1>17. CASE LdDone
  BY <1>17 DEF LdDone
<1>18. ASSUME NEW t \in Devices, EnqueueReturns(t) PROVE OsInv'
  BY <1>18 DEF EnqueueReturns, HandsOver
<1>19. CASE Clock
  <2>1. time' \in 0 .. MaxTime
    BY <1>19 DEF Clock, Tick, LastTick, Bump
  <2>2. phase' \in [Devices -> Phases]
    BY <1>19 DEF Clock, Tick, LastTick
  <2>. QED
    BY <1>19, <2>1, <2>2 DEF Clock, Tick, LastTick, osVars
<1>20. CASE UNCHANGED <<slotVars, osVars>>
  BY <1>20 DEF osVars
<1>. QED
  BY <1>1, <1>2, <1>3, <1>4, <1>5, <1>6, <1>7, <1>8, <1>9, <1>10, <1>11, <1>12, <1>13,
     <1>14, <1>15, <1>16, <1>17, <1>18, <1>19, <1>20 DEF OsNext, CpuLocal, LdLocal
=============================================================================
