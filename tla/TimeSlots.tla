------------------------------ MODULE TimeSlots ------------------------------
(***************************************************************************)
(* What the timer of the simulator (timer.c) promises to the threads that  *)
(* use it: simulated time is divided into slots, every attached device     *)
(* works inside a slot until it reports the end of its work (next_slot) or *)
(* leaves for good (detach_event), and a new slot starts only when no      *)
(* device is still working.  Timer.tla is the implementation with mutexes  *)
(* and condition variables; Os.tla is built on the promise.                *)
(***************************************************************************)
EXTENDS Integers

CONSTANTS Devices,     \* the attached threads: the CPUs and the loader
          MaxTime      \* bound: the modelled clock stops counting there

ASSUME MaxTimeAssumption == MaxTime \in Nat

VARIABLES time,        \* _time, the number of the current slot
          phase,       \* what each device is doing in the current slot
          running      \* the timer thread has not left its loop

slotVars == <<time, phase, running>>

Phases == {"working", "waiting", "gone"}

SlotTypeOK == /\ time \in 0 .. MaxTime
          /\ phase \in [Devices -> Phases]
          /\ running \in BOOLEAN

(* Time is compared with start times that are at most MaxTime, so a clock   *)
(* that stays at MaxTime once it is there loses no behaviour of the users.  *)
Bump(t) == IF t < MaxTime THEN t + 1 ELSE t

SlotInit == /\ time = 0
            /\ phase = [d \in Devices |-> "working"]
            /\ running = TRUE

(* next_slot: d has done its work of this slot and blocks.                  *)
Finish(d) == /\ phase[d] = "working"
             /\ phase' = [phase EXCEPT ![d] = "waiting"]
             /\ UNCHANGED <<time, running>>

(* detach_event: d takes no further part.                                   *)
Leave(d) == /\ phase[d] = "working"
            /\ phase' = [phase EXCEPT ![d] = "gone"]
            /\ UNCHANGED <<time, running>>

NoneWorking == \A d \in Devices : phase[d] # "working"

(* The slot is over: the clock moves and every blocked device is released.  *)
Tick == /\ NoneWorking
        /\ \E d \in Devices : phase[d] = "waiting"
        /\ time' = Bump(time)
        /\ phase' = [d \in Devices |->
                       IF phase[d] = "waiting" THEN "working" ELSE phase[d]]
        /\ UNCHANGED running

(* When all devices have left the timer thread ends.  It ends either at the *)
(* close of a last slot or at its loop head, where stop_timer is noticed.   *)
LastTick == /\ running
            /\ \A d \in Devices : phase[d] = "gone"
            /\ running' = FALSE
            /\ time' \in {time, Bump(time)}
            /\ UNCHANGED phase

SlotNext == \/ \E d \in Devices : Finish(d) \/ Leave(d)
        \/ Tick
        \/ LastTick

SlotSpec == SlotInit /\ [][SlotNext]_slotVars /\ WF_slotVars(Tick)
=============================================================================
