-------------------------------- MODULE OsStub --------------------------------
(***************************************************************************)
(* os.c with sched.c and queue.c exactly as they are: a skeleton in which  *)
(* enqueue does nothing, no process is ever taken from a queue, and        *)
(* get_mlq_proc returns without releasing queue_lock.                      *)
(***************************************************************************)
EXTENDS Os

VARIABLE queue_lock     \* the thread that holds the mutex, or "free"

vars == <<slotVars, osVars, queue_lock>>

TypeOK == OsTypeOK /\ queue_lock \in Cpus \cup {"free"}

(* init_scheduler: every queue is empty, the mutex is initialised.           *)
Init == OsInit /\ queue_lock = "free"

(* Variant: queue_lock is released.                                          *)
get_mlq_proc_Unlocks(c) ==
  /\ queue_lock = "free"
  /\ CpuGets(c, NULL)
  /\ UNCHANGED queue_lock

(* get_mlq_proc: the mutex is locked and never unlocked; proc stays NULL.    *)
get_mlq_proc(c) ==
  /\ queue_lock = "free"
  /\ CpuGets(c, NULL)
  /\ queue_lock' = c

(* Variant: queue_lock is not released here either.                          *)
put_mlq_proc_KeepsLock(t) ==
  /\ queue_lock = "free"
  /\ EnqueueReturns(t)
  /\ queue_lock' = t

(* put_mlq_proc and add_mlq_proc: lock, an enqueue that does nothing, unlock.*)
put_mlq_proc(t) ==
  /\ queue_lock = "free"
  /\ EnqueueReturns(t)
  /\ UNCHANGED queue_lock

CpuStep(c) == \/ get_mlq_proc(c)
              \/ CpuLocal(c) /\ UNCHANGED queue_lock
LdStep     == \/ LdLocal /\ UNCHANGED queue_lock

Next == \/ \E c \in Cpus : CpuStep(c)
        \/ LdStep
        \/ \E t \in Devices : put_mlq_proc(t)
        \/ Clock /\ UNCHANGED queue_lock

Spec == Init /\ [][Next]_vars

-----------------------------------------------------------------------------
(* Properties                                                                *)

(* The simulation comes to a halt: with two CPUs or more in slot 0, since the*)
(* one that gets the lock in its first get_proc keeps it and the clock waits *)
(* for the others, which block; with one CPU in slot 1, where its second     *)
(* get_proc blocks.                                                          *)
ClockStalls == time <= IF Cardinality(Cpus) > 1 THEN 0 ELSE 1

(* Of all processes in the input file at most the first is added, and only   *)
(* if the loader is faster than every CPU in slot 0.                         *)
AtMostOneAdded == i <= 2
=============================================================================
