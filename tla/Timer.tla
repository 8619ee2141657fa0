-------------------------------- MODULE Timer --------------------------------
(***************************************************************************)
(* timer.c: the thread that keeps simulated time, and the five functions   *)
(* through which main and the device threads (CPUs and loader) use it.     *)
(*                                                                         *)
(* The grain is one step per critical section boundary: a step acquires a  *)
(* mutex, or does what is done under a mutex and releases it.  A thread    *)
(* that waits on a condition variable has released the mutex; a signal, or *)
(* a spurious wakeup, sends it back to acquiring the mutex, where the      *)
(* while loop around pthread_cond_wait tests its condition again.          *)
(***************************************************************************)
EXTENDS Integers, Sequences, Functions, FiniteSets

CONSTANTS Devices,     \* the threads that attach: the CPUs and the loader
          MaxTime      \* bound: the modelled _time stops counting there

ASSUME DevicesAssumption == IsFiniteSet(Devices) /\ Devices # {}
ASSUME MaxTimeAssumption == MaxTime \in Nat

VARIABLES
  mainpc,         \* where main is
  timer_started, timer_stop,
  dev_list,       \* the attached devices, the last attached first
  done, fsh,      \* the two flags of a timer_id_t
  event_lock, timer_lock,   \* who holds the two mutexes of a timer_id_t
  pc,             \* where each device thread is
  tpc,            \* where timer_routine is
  temp,           \* the position in dev_list of its pointer temp
  fshCount, eventCount,     \* its counters fsh and event
  time            \* _time

mainVars   == <<mainpc, timer_started, timer_stop, dev_list>>
flagVars   == <<done, fsh>>
lockVars   == <<event_lock, timer_lock>>
timerVars  == <<tpc, temp, fshCount, eventCount, time>>
vars       == <<mainVars, flagVars, lockVars, pc, timerVars>>

MainPcs   == {"attach", "create", "join", "joinTimer", "free", "end"}
DevicePcs == {"off", "slot",                                   \* outside
              "nsLockEvent", "nsSetDone",                      \* next_slot
              "nsLockTimer", "nsCheckDone", "nsWait",
              "deLockEvent", "deSetFsh", "exited"}             \* detach_event
TimerPcs  == {"off", "loop", "lockEvent", "check", "waitEvent",
              "tick", "lockTimer", "clear", "exit"}
Owners    == {"free", "device", "timer"}

TypeOK ==
  /\ mainpc \in MainPcs
  /\ timer_started \in BOOLEAN /\ timer_stop \in BOOLEAN
  /\ dev_list \in Seq(Devices)
  /\ done \in [Devices -> {0, 1}] /\ fsh \in [Devices -> {0, 1}]
  /\ event_lock \in [Devices -> Owners] /\ timer_lock \in [Devices -> Owners]
  /\ pc \in [Devices -> DevicePcs]
  /\ tpc \in TimerPcs
  /\ temp \in Nat /\ fshCount \in Nat /\ eventCount \in Nat
  /\ time \in 0 .. MaxTime

Init == /\ mainpc = "attach"
        /\ timer_started = FALSE /\ timer_stop = FALSE
        /\ dev_list = << >>
        /\ done = [d \in Devices |-> 0] /\ fsh = [d \in Devices |-> 0]
        /\ event_lock = [d \in Devices |-> "free"]
        /\ timer_lock = [d \in Devices |-> "free"]
        /\ pc = [d \in Devices |-> "off"]
        /\ tpc = "off" /\ temp = 1 /\ fshCount = 0 /\ eventCount = 0
        /\ time = 0

Attached == Range(dev_list)

-----------------------------------------------------------------------------
(* main, as os.c runs it                                                     *)

(* Variant: malloc'ed flags are not initialised; 2 stands for garbage.       *)
attach_event_NoInit(d) ==
  /\ mainpc = "attach" /\ ~timer_started
  /\ d \notin Attached
  /\ dev_list' = <<d>> \o dev_list
  /\ done' = [done EXCEPT ![d] = 2] /\ fsh' = [fsh EXCEPT ![d] = 0]
  /\ UNCHANGED <<mainpc, timer_started, timer_stop, lockVars, pc, timerVars>>

(* The container is pushed in front of dev_list, its flags cleared.          *)
attach_event(d) ==
  /\ mainpc = "attach" /\ ~timer_started
  /\ d \notin Attached
  /\ dev_list' = <<d>> \o dev_list
  /\ done' = [done EXCEPT ![d] = 0] /\ fsh' = [fsh EXCEPT ![d] = 0]
  /\ UNCHANGED <<mainpc, timer_started, timer_stop, lockVars, pc, timerVars>>

start_timer ==
  /\ mainpc = "attach" /\ Attached = Devices
  /\ timer_started' = TRUE
  /\ tpc' = "loop"
  /\ mainpc' = "create"
  /\ UNCHANGED <<timer_stop, dev_list, flagVars, lockVars, pc,
                 temp, fshCount, eventCount, time>>

(* pthread_create of a CPU or of the loader; the last one ends the loop.     *)
CreateThread(d) ==
  /\ mainpc = "create" /\ pc[d] = "off"
  /\ pc' = [pc EXCEPT ![d] = "slot"]
  /\ mainpc' = IF \A e \in Devices \ {d} : pc[e] # "off" THEN "join" ELSE mainpc
  /\ UNCHANGED <<timer_started, timer_stop, dev_list, flagVars, lockVars,
                 timerVars>>

(* stop_timer, once every CPU and the loader have been joined.               *)
stop_timer ==
  /\ mainpc = "join" /\ \A d \in Devices : pc[d] = "exited"
  /\ timer_stop' = TRUE
  /\ mainpc' = "joinTimer"
  /\ UNCHANGED <<timer_started, dev_list, flagVars, lockVars, pc, timerVars>>

(* Variant: the timer thread is not joined before its list is freed.         *)
JoinTimer_Detached ==
  /\ mainpc = "joinTimer"
  /\ mainpc' = "free"
  /\ UNCHANGED <<timer_started, timer_stop, dev_list, flagVars, lockVars, pc,
                 timerVars>>

JoinTimer ==
  /\ mainpc = "joinTimer" /\ tpc = "exit"
  /\ mainpc' = "free"
  /\ UNCHANGED <<timer_started, timer_stop, dev_list, flagVars, lockVars, pc,
                 timerVars>>

FreeDevice ==
  /\ mainpc = "free" /\ dev_list # << >>
  /\ dev_list' = Tail(dev_list)
  /\ UNCHANGED <<mainpc, timer_started, timer_stop, flagVars, lockVars, pc,
                 timerVars>>

MainReturns ==
  /\ mainpc = "free" /\ dev_list = << >>
  /\ mainpc' = "end"
  /\ UNCHANGED <<timer_started, timer_stop, dev_list, flagVars, lockVars, pc,
                 timerVars>>

-----------------------------------------------------------------------------
(* timer_routine                                                             *)

current == dev_list[temp]

(* Variant: the wait is not a loop on the two flags.                         *)
EventReady_Always == TRUE

(* What the first loop waits for at a device: one of its flags is up.        *)
EventReady == done[current] = 1 \/ fsh[current] = 1

(* Variant: the loops stop one device short (temp->next != NULL).            *)
NextDevice_SkipsLast(again, after) ==
  /\ temp' = temp + 1
  /\ tpc' = IF temp < Len(dev_list) - 1 THEN again ELSE after

(* temp = temp->next; behind the last device the loop is left.               *)
NextDevice(again, after) ==
  /\ temp' = temp + 1
  /\ tpc' = IF temp < Len(dev_list) THEN again ELSE after

(* Variant: the thread ends once one device has finished (if (fsh) break).   *)
AfterRound_Early == IF fshCount # 0 THEN "exit" ELSE "loop"

(* After a round the thread ends if all were finished (fsh == event).        *)
AfterRound == IF fshCount = eventCount THEN "exit" ELSE "loop"

(* Variant: timer_cond is not signalled.                                     *)
SignalTimer_Omitted(d) == UNCHANGED pc

(* The signal on timer_cond wakes the device if it waits.                    *)
SignalTimer(d) == pc' = IF pc[d] = "nsWait" THEN [pc EXCEPT ![d] = "nsLockTimer"]
                                            ELSE pc

(* while (!timer_stop): a new round starts with the first device.            *)
TimerLoop ==
  /\ tpc = "loop"
  /\ IF timer_stop
       THEN tpc' = "exit" /\ UNCHANGED <<temp, fshCount, eventCount>>
       ELSE /\ tpc' = "lockEvent"
            /\ temp' = 1 /\ fshCount' = 0 /\ eventCount' = 0
  /\ UNCHANGED <<mainVars, flagVars, lockVars, pc, time>>

TimerLockEvent ==
  /\ tpc = "lockEvent" /\ event_lock[current] = "free"
  /\ event_lock' = [event_lock EXCEPT ![current] = "timer"]
  /\ tpc' = "check"
  /\ UNCHANGED <<mainVars, flagVars, timer_lock, pc, temp, fshCount, eventCount,
                 time>>

(* Neither flag is set: pthread_cond_wait(event_cond).                       *)
TimerWait ==
  /\ tpc = "check" /\ ~EventReady
  /\ event_lock' = [event_lock EXCEPT ![current] = "free"]
  /\ tpc' = "waitEvent"
  /\ UNCHANGED <<mainVars, flagVars, timer_lock, pc, temp, fshCount, eventCount,
                 time>>

(* One is set: the device is counted and temp moves on.                      *)
TimerCount ==
  /\ tpc = "check" /\ EventReady
  /\ fshCount' = fshCount + fsh[current]
  /\ eventCount' = eventCount + 1
  /\ event_lock' = [event_lock EXCEPT ![current] = "free"]
  /\ NextDevice("lockEvent", "tick")
  /\ UNCHANGED <<mainVars, flagVars, timer_lock, pc, time>>

TimerSpuriousWakeup ==
  /\ tpc = "waitEvent"
  /\ tpc' = "lockEvent"
  /\ UNCHANGED <<mainVars, flagVars, lockVars, pc, temp, fshCount, eventCount,
                 time>>

(* _time++, and temp back to the first device.                               *)
TimerTick ==
  /\ tpc = "tick"
  /\ time' = IF time < MaxTime THEN time + 1 ELSE time
  /\ temp' = 1
  /\ tpc' = "lockTimer"
  /\ UNCHANGED <<mainVars, flagVars, lockVars, pc, fshCount, eventCount>>

TimerLockTimer ==
  /\ tpc = "lockTimer" /\ timer_lock[current] = "free"
  /\ timer_lock' = [timer_lock EXCEPT ![current] = "timer"]
  /\ tpc' = "clear"
  /\ UNCHANGED <<mainVars, flagVars, event_lock, pc, temp, fshCount, eventCount,
                 time>>

(* done = 0 and the signal, under timer_lock.                                *)
TimerClear ==
  /\ tpc = "clear"
  /\ done' = [done EXCEPT ![current] = 0]
  /\ SignalTimer(current)
  /\ timer_lock' = [timer_lock EXCEPT ![current] = "free"]
  /\ NextDevice("lockTimer", AfterRound)
  /\ UNCHANGED <<mainVars, fsh, event_lock, fshCount, eventCount, time>>

-----------------------------------------------------------------------------
(* next_slot and detach_event, run by the device threads                     *)

(* Variant: event_cond is not signalled.                                     *)
SignalEvent_Omitted(d) == UNCHANGED tpc

(* The signal on event_cond wakes the timer if it waits for this device.     *)
SignalEvent(d) == tpc' = IF tpc = "waitEvent" /\ current = d THEN "lockEvent"
                                                             ELSE tpc

next_slot(d) ==
  /\ pc[d] = "slot"
  /\ pc' = [pc EXCEPT ![d] = "nsLockEvent"]
  /\ UNCHANGED <<mainVars, flagVars, lockVars, timerVars>>

detach_event(d) ==
  /\ pc[d] = "slot"
  /\ pc' = [pc EXCEPT ![d] = "deLockEvent"]
  /\ UNCHANGED <<mainVars, flagVars, lockVars, timerVars>>

LockEvent(d) ==
  /\ pc[d] \in {"nsLockEvent", "deLockEvent"} /\ event_lock[d] = "free"
  /\ event_lock' = [event_lock EXCEPT ![d] = "device"]
  /\ pc' = [pc EXCEPT ![d] = IF @ = "nsLockEvent" THEN "nsSetDone" ELSE "deSetFsh"]
  /\ UNCHANGED <<mainVars, flagVars, timer_lock, timerVars>>

SetDone(d) ==
  /\ pc[d] = "nsSetDone"
  /\ done' = [done EXCEPT ![d] = 1]
  /\ SignalEvent(d)
  /\ event_lock' = [event_lock EXCEPT ![d] = "free"]
  /\ pc' = [pc EXCEPT ![d] = "nsLockTimer"]
  /\ UNCHANGED <<mainVars, fsh, timer_lock, temp, fshCount, eventCount, time>>

LockTimer(d) ==
  /\ pc[d] = "nsLockTimer" /\ timer_lock[d] = "free"
  /\ timer_lock' = [timer_lock EXCEPT ![d] = "device"]
  /\ pc' = [pc EXCEPT ![d] = "nsCheckDone"]
  /\ UNCHANGED <<mainVars, flagVars, event_lock, timerVars>>

(* while (timer_id->done): wait on timer_cond, or return to the caller.      *)
CheckDone(d) ==
  /\ pc[d] = "nsCheckDone"
  /\ timer_lock' = [timer_lock EXCEPT ![d] = "free"]
  /\ pc' = [pc EXCEPT ![d] = IF done[d] = 1 THEN "nsWait" ELSE "slot"]
  /\ UNCHANGED <<mainVars, flagVars, event_lock, timerVars>>

(* Variant: done is not tested again after the wait (if, not while).         *)
SpuriousWakeup_NoTest(d) ==
  /\ pc[d] = "nsWait"
  /\ pc' = [pc EXCEPT ![d] = "slot"]
  /\ UNCHANGED <<mainVars, flagVars, lockVars, timerVars>>

SpuriousWakeup(d) ==
  /\ pc[d] = "nsWait"
  /\ pc' = [pc EXCEPT ![d] = "nsLockTimer"]
  /\ UNCHANGED <<mainVars, flagVars, lockVars, timerVars>>

SetFsh(d) ==
  /\ pc[d] = "deSetFsh"
  /\ fsh' = [fsh EXCEPT ![d] = 1]
  /\ SignalEvent(d)
  /\ event_lock' = [event_lock EXCEPT ![d] = "free"]
  /\ pc' = [pc EXCEPT ![d] = "exited"]
  /\ UNCHANGED <<mainVars, done, timer_lock, temp, fshCount, eventCount, time>>

-----------------------------------------------------------------------------
MainStep  == \/ \E d \in Devices : attach_event(d) \/ CreateThread(d)
             \/ start_timer \/ stop_timer
             \/ JoinTimer \/ FreeDevice \/ MainReturns

TimerStep == \/ TimerLoop \/ TimerLockEvent \/ TimerWait \/ TimerCount
             \/ TimerTick \/ TimerLockTimer \/ TimerClear

(* The steps a device takes inside the two functions once it has called them.*)
LibraryStep(d) == \/ LockEvent(d) \/ SetDone(d) \/ LockTimer(d)
                  \/ CheckDone(d) \/ SetFsh(d)

DeviceStep(d) == next_slot(d) \/ detach_event(d) \/ LibraryStep(d)

Wakeups == TimerSpuriousWakeup \/ \E d \in Devices : SpuriousWakeup(d)

(* main has returned; the process is over.                                   *)
Terminated == mainpc = "end" /\ UNCHANGED vars

Next == \/ MainStep \/ TimerStep \/ Wakeups \/ Terminated
        \/ \E d \in Devices : DeviceStep(d)

Spec == Init /\ [][Next]_vars

(* Runnable threads are scheduled, and a thread that waits for a mutex which *)
(* is free again and again gets it: the critical sections of timer.c are a   *)
(* few instructions.  Nothing is assumed of when a device calls.             *)
Fairness == /\ WF_vars(MainStep)
            /\ SF_vars(TimerStep)
            /\ \A d \in Devices : SF_vars(LibraryStep(d))

FairSpec == Spec /\ Fairness
-----------------------------------------------------------------------------
(* Properties                                                                *)

Blocked(d) == pc[d] \in {"nsLockTimer", "nsCheckDone", "nsWait"}

(* The flag done of a device is written under event_lock by next_slot and    *)
(* under timer_lock by timer_routine: no mutex keeps the two apart, only the *)
(* protocol does.  Never are both about to write the flag of one device.     *)
NoRaceOnDone ==
  \A d \in Devices : ~(pc[d] = "nsSetDone" /\ tpc = "clear" /\ current = d)

(* _time has no lock either: current_time() reads it from a device thread.   *)
(* The clock moves only while every device is blocked in next_slot with its  *)
(* flag up, or has detached.                                                 *)
SlotBarrier ==
  [][TimerTick => \A d \in Devices : \/ Blocked(d) /\ done[d] = 1
                                     \/ pc[d] = "exited"]_vars

(* A thread that sleeps on a condition variable still has its reason to:     *)
(* the signal of next_slot, detach_event or timer_routine never comes        *)
(* between the test and the sleep, or while nobody listens and never again.  *)
NoLostWakeup ==
  /\ tpc = "waitEvent" => done[current] = 0 /\ fsh[current] = 0
  /\ \A d \in Devices : pc[d] = "nsWait" => done[d] = 1

(* The round in which timer_routine finds fsh == event.                      *)
LastRound == tpc \in {"lockTimer", "clear"} /\ fshCount = eventCount

(* The timer thread ends, at fsh == event or because of timer_stop, only     *)
(* when every device has detached: none is left waiting for a slot that      *)
(* never starts.                                                             *)
TimerOutlivesDevices ==
  tpc = "exit" \/ LastRound => \A d \in Devices : pc[d] = "exited"

(* stop_timer frees a container only when no thread can reach it any more.   *)
NoUseAfterFree ==
  /\ \A d \in Devices : pc[d] \notin {"off", "exited"} => d \in Attached
  /\ tpc \in {"lockEvent", "check", "waitEvent", "lockTimer", "clear"}
       => temp \in 1 .. Len(dev_list)

(* What a device thread sees is the slot barrier of TimeSlots.  A device that*)
(* the current round has already counted and is about to release works in    *)
(* the new slot as soon as the clock has moved.                              *)
ToBeReleased(d) == /\ tpc \in {"lockTimer", "clear"}
                   /\ \E i \in temp .. Len(dev_list) : dev_list[i] = d

SlotPhase(d) == IF fsh[d] = 1 THEN "gone"
                ELSE IF done[d] = 1 /\ ~ToBeReleased(d) THEN "waiting"
                ELSE "working"

Slots == INSTANCE TimeSlots
           WITH phase   <- [d \in Devices |-> SlotPhase(d)],
                running <- ~(tpc = "exit" \/ LastRound)

(* The implementation with mutexes and condition variables keeps the promise *)
(* of the slot barrier, including that a finished slot is followed by a next.*)
ImplementsTimeSlots == Slots!SlotSpec

(* While no device computes for ever, every call of next_slot returns: none  *)
(* is passed over by the timer, or held up by the calls of the others.       *)
NextSlotReturns ==
  (\A d \in Devices : []<>(pc[d] # "slot")) =>
    \A d \in Devices : (pc[d] = "nsWait") ~> (pc[d] = "slot")

(* Once every device detaches, the timer thread ends, stop_timer joins it    *)
(* and main returns.                                                         *)
SimulationEnds ==
  (\A d \in Devices : <>(pc[d] = "deLockEvent")) => <>(mainpc = "end")
=============================================================================
