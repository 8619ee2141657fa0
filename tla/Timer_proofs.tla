----------------------------- MODULE Timer_proofs -----------------------------
(***************************************************************************)
(* Proofs about Timer, for every finite non-empty set of devices and every *)
(* bound of the clock.                                                     *)
(***************************************************************************)
EXTENDS Timer, TLAPS

USE DevicesAssumption, MaxTimeAssumption

-----------------------------------------------------------------------------
(* The inductive invariant                                                   *)

Settled(d) == \/ pc[d] = "exited"
              \/ Blocked(d) /\ done[d] = 1

(* A mutex is held exactly between the two steps that acquire and release it.*)
LockInv ==
  \A d \in Devices :
    /\ event_lock[d] = "device" <=> pc[d] \in {"nsSetDone", "deSetFsh"}
    /\ timer_lock[d] = "device" <=> pc[d] = "nsCheckDone"
    /\ event_lock[d] = "timer" <=> tpc = "check" /\ current = d
    /\ timer_lock[d] = "timer" <=> tpc = "clear" /\ current = d

(* done is up only while its device is blocked in next_slot, fsh from        *)
(* detach_event on.                                                          *)
FlagInv ==
  \A d \in Devices :
    /\ fsh[d] = 1 <=> pc[d] = "exited"
    /\ done[d] = 1 => Blocked(d)
    /\ pc[d] = "nsWait" => done[d] = 1

(* What main has done so far.                                                *)
MainInv ==
  /\ mainpc = "attach" => /\ tpc = "off"
                          /\ \A d \in Devices : pc[d] = "off"
  /\ mainpc # "attach" => tpc # "off"
  /\ mainpc \notin {"attach", "create"} => \A d \in Devices : pc[d] # "off"
  /\ mainpc \in {"joinTimer", "free", "end"} \/ timer_stop
       => \A d \in Devices : pc[d] = "exited"
  /\ mainpc \in {"free", "end"} => tpc = "exit"

(* The list holds each device once from start_timer until it is freed.       *)
ListInv ==
  /\ \A i, j \in 1 .. Len(dev_list) : dev_list[i] = dev_list[j] => i = j
  /\ mainpc \in {"create", "join", "joinTimer"}
       => \A d \in Devices : \E i \in 1 .. Len(dev_list) : dev_list[i] = d

(* In the first loop of a round the devices before temp are settled, in the  *)
(* second the ones from temp on.                                             *)
RoundInv ==
  /\ tpc \in {"lockEvent", "check", "waitEvent"}
       => /\ temp \in 1 .. Len(dev_list)
          /\ \A i \in 1 .. temp - 1 : Settled(dev_list[i])
  /\ tpc = "waitEvent" => done[current] = 0 /\ fsh[current] = 0
  /\ tpc = "tick" => \A d \in Devices : Settled(d)
  /\ tpc \in {"lockTimer", "clear"}
       => /\ temp \in 1 .. Len(dev_list)
          /\ \A i \in temp .. Len(dev_list) : Settled(dev_list[i])

(* fsh == event exactly when every device counted so far had detached.       *)
CountInv ==
  /\ tpc \in {"lockEvent", "check", "waitEvent"}
       => /\ fshCount <= eventCount
          /\ fshCount = eventCount
               <=> \A i \in 1 .. temp - 1 : pc[dev_list[i]] = "exited"
  /\ tpc = "tick" => /\ fshCount <= eventCount
                     /\ fshCount = eventCount
                          <=> \A d \in Devices : pc[d] = "exited"
  /\ LastRound \/ tpc = "exit" => \A d \in Devices : pc[d] = "exited"

IInv == TypeOK /\ LockInv /\ FlagInv /\ MainInv /\ ListInv /\ RoundInv /\ CountInv

-----------------------------------------------------------------------------
(* Each conjunct is preserved by each step                                   *)

USE DEF mainVars, flagVars, lockVars, timerVars, vars

(* While timer_routine runs, the list holds every device.                    *)
LEMMA FullList ==
  ASSUME IInv, tpc \notin {"off", "exit"}
  PROVE  /\ Len(dev_list) \in Nat \ {0}
         /\ \A i \in 1 .. Len(dev_list) : dev_list[i] \in Devices
         /\ \A d \in Devices : \E i \in 1 .. Len(dev_list) : dev_list[i] = d
<1>1. mainpc \in {"create", "join", "joinTimer"}
  BY DEF IInv, TypeOK, MainPcs, MainInv
<1>2. \A d \in Devices : \E i \in 1 .. Len(dev_list) : dev_list[i] = d
  BY <1>1 DEF IInv, ListInv
<1>3. PICK d \in Devices : TRUE
  OBVIOUS
<1>4. QED
  BY <1>2, <1>3 DEF IInv, TypeOK

(* The steps of the devices and the wakeups leave settled devices settled.   *)
LEMMA SettledStays ==
  ASSUME IInv, NEW d \in Devices,
         \/ CreateThread(d) \/ DeviceStep(d) \/ SpuriousWakeup(d)
  PROVE  \A e \in Devices : Settled(e) => Settled(e)'
<1> SUFFICES ASSUME NEW e \in Devices, Settled(e)
             PROVE  Settled(e)'
  OBVIOUS
<1> USE DEF IInv, TypeOK, FlagInv, Settled, Blocked
<1>1. CASE CreateThread(d)
  BY <1>1 DEF CreateThread
<1>2. CASE next_slot(d)
  BY <1>2 DEF next_slot
<1>3. CASE detach_event(d)
  BY <1>3 DEF detach_event
<1>4. CASE LockEvent(d)
  BY <1>4 DEF LockEvent
<1>5. CASE SetDone(d)
  BY <1>5 DEF SetDone
<1>6. CASE LockTimer(d)
  BY <1>6 DEF LockTimer
<1>7. CASE CheckDone(d)
  BY <1>7 DEF CheckDone
<1>8. CASE SetFsh(d)
  BY <1>8 DEF SetFsh
<1>9. CASE SpuriousWakeup(d)
  BY <1>9 DEF SpuriousWakeup
<1>10. QED
  BY <1>1, <1>2, <1>3, <1>4, <1>5, <1>6, <1>7, <1>8, <1>9
     DEF DeviceStep, LibraryStep

(* Every step keeps the types.                                               *)
LEMMA TypePreserved ==
  ASSUME IInv, [Next]_vars
  PROVE  TypeOK'
<1> USE DEF IInv, TypeOK, MainPcs, DevicePcs, TimerPcs, Owners, RoundInv,
   SignalEvent, SignalTimer, EventReady, NextDevice, AfterRound, current
<1>1. ASSUME NEW d \in Devices, attach_event(d)
     PROVE  TypeOK'
  BY <1>1 DEF attach_event
<1>2. ASSUME NEW d \in Devices, CreateThread(d)
     PROVE  TypeOK'
  BY <1>2 DEF CreateThread
<1>3. CASE start_timer
  BY <1>3 DEF start_timer
<1>4. CASE stop_timer
  BY <1>4 DEF stop_timer
<1>5. CASE JoinTimer
  BY <1>5 DEF JoinTimer
<1>6. CASE FreeDevice
  BY <1>6 DEF FreeDevice
<1>7. CASE MainReturns
  BY <1>7 DEF MainReturns
<1>8. CASE TimerLoop
  BY <1>8 DEF TimerLoop
<1>9. CASE TimerLockEvent
  BY <1>9 DEF TimerLockEvent
<1>10. CASE TimerWait
  BY <1>10 DEF TimerWait
<1>11. CASE TimerCount
  BY <1>11 DEF TimerCount
<1>12. CASE TimerTick
  BY <1>12 DEF TimerTick
<1>13. CASE TimerLockTimer
  BY <1>13 DEF TimerLockTimer
<1>14. CASE TimerClear
  BY <1>14 DEF TimerClear
<1>15. CASE TimerSpuriousWakeup
  BY <1>15 DEF TimerSpuriousWakeup
<1>16. ASSUME NEW d \in Devices, next_slot(d)
     PROVE  TypeOK'
  BY <1>16 DEF next_slot
<1>17. ASSUME NEW d \in Devices, detach_event(d)
     PROVE  TypeOK'
  BY <1>17 DEF detach_event
<1>18. ASSUME NEW d \in Devices, LockEvent(d)
     PROVE  TypeOK'
  BY <1>18 DEF LockEvent
<1>19. ASSUME NEW d \in Devices, SetDone(d)
     PROVE  TypeOK'
  BY <1>19 DEF SetDone
<1>20. ASSUME NEW d \in Devices, LockTimer(d)
     PROVE  TypeOK'
  BY <1>20 DEF LockTimer
<1>21. ASSUME NEW d \in Devices, CheckDone(d)
     PROVE  TypeOK'
  BY <1>21 DEF CheckDone
<1>22. ASSUME NEW d \in Devices, SetFsh(d)
     PROVE  TypeOK'
  BY <1>22 DEF SetFsh
<1>23. ASSUME NEW d \in Devices, SpuriousWakeup(d)
     PROVE  TypeOK'
  BY <1>23 DEF SpuriousWakeup
<1>24. CASE UNCHANGED vars
  BY <1>24
<1>25. QED
  BY <1>1, <1>2, <1>3, <1>4, <1>5, <1>6, <1>7, <1>8, <1>9, <1>10, <1>11, <1>12,
     <1>13, <1>14, <1>15, <1>16, <1>17, <1>18, <1>19, <1>20, <1>21, <1>22, <1>23, <1>24
     DEF Next, MainStep, TimerStep, Wakeups, Terminated, DeviceStep, LibraryStep

(* Every step keeps each mutex with the thread in its critical section.      *)
LEMMA LockPreserved ==
  ASSUME IInv, [Next]_vars
  PROVE  LockInv'
<1> USE DEF IInv, TypeOK, Owners, LockInv, RoundInv, MainInv, SignalEvent,
   SignalTimer, EventReady, NextDevice, AfterRound, current
<1>1. ASSUME NEW d \in Devices, attach_event(d)
     PROVE  LockInv'
  BY <1>1 DEF attach_event
<1>2. ASSUME NEW d \in Devices, CreateThread(d)
     PROVE  LockInv'
  BY <1>2 DEF CreateThread
<1>3. CASE start_timer
  BY <1>3 DEF start_timer
<1>4. CASE stop_timer
  BY <1>4 DEF stop_timer
<1>5. CASE JoinTimer
  BY <1>5 DEF JoinTimer
<1>6. CASE FreeDevice
  BY <1>6 DEF FreeDevice
<1>7. CASE MainReturns
  BY <1>7 DEF MainReturns
<1>8. CASE TimerLoop
  BY <1>8 DEF TimerLoop
<1>9. CASE TimerLockEvent
  BY <1>9 DEF TimerLockEvent
<1>10. CASE TimerWait
  BY <1>10 DEF TimerWait
<1>11. CASE TimerCount
  BY <1>11 DEF TimerCount
<1>12. CASE TimerTick
  BY <1>12 DEF TimerTick
<1>13. CASE TimerLockTimer
  BY <1>13 DEF TimerLockTimer
<1>14. CASE TimerClear
  BY <1>14 DEF TimerClear
<1>15. CASE TimerSpuriousWakeup
  BY <1>15 DEF TimerSpuriousWakeup
<1>16. ASSUME NEW d \in Devices, next_slot(d)
     PROVE  LockInv'
  BY <1>16 DEF next_slot
<1>17. ASSUME NEW d \in Devices, detach_event(d)
     PROVE  LockInv'
  BY <1>17 DEF detach_event
<1>18. ASSUME NEW d \in Devices, LockEvent(d)
     PROVE  LockInv'
  BY <1>18 DEF LockEvent
<1>19. ASSUME NEW d \in Devices, SetDone(d)
     PROVE  LockInv'
  BY <1>19 DEF SetDone
<1>20. ASSUME NEW d \in Devices, LockTimer(d)
     PROVE  LockInv'
  BY <1>20 DEF LockTimer
<1>21. ASSUME NEW d \in Devices, CheckDone(d)
     PROVE  LockInv'
  BY <1>21 DEF CheckDone
<1>22. ASSUME NEW d \in Devices, SetFsh(d)
     PROVE  LockInv'
  BY <1>22 DEF SetFsh
<1>23. ASSUME NEW d \in Devices, SpuriousWakeup(d)
     PROVE  LockInv'
  BY <1>23 DEF SpuriousWakeup
<1>24. CASE UNCHANGED vars
  BY <1>24
<1>25. QED
  BY <1>1, <1>2, <1>3, <1>4, <1>5, <1>6, <1>7, <1>8, <1>9, <1>10, <1>11, <1>12,
     <1>13, <1>14, <1>15, <1>16, <1>17, <1>18, <1>19, <1>20, <1>21, <1>22, <1>23, <1>24
     DEF Next, MainStep, TimerStep, Wakeups, Terminated, DeviceStep, LibraryStep

(* Every step keeps the flags of a device in line with where it is.          *)
LEMMA FlagPreserved ==
  ASSUME IInv, [Next]_vars
  PROVE  FlagInv'
<1> USE DEF IInv, TypeOK, FlagInv, MainInv, Blocked, SignalEvent, SignalTimer,
   EventReady, NextDevice, AfterRound, current
<1>1. ASSUME NEW d \in Devices, attach_event(d)
     PROVE  FlagInv'
  BY <1>1 DEF attach_event
<1>2. ASSUME NEW d \in Devices, CreateThread(d)
     PROVE  FlagInv'
  BY <1>2 DEF CreateThread
<1>3. CASE start_timer
  BY <1>3 DEF start_timer
<1>4. CASE stop_timer
  BY <1>4 DEF stop_timer
<1>5. CASE JoinTimer
  BY <1>5 DEF JoinTimer
<1>6. CASE FreeDevice
  BY <1>6 DEF FreeDevice
<1>7. CASE MainReturns
  BY <1>7 DEF MainReturns
<1>8. CASE TimerLoop
  BY <1>8 DEF TimerLoop
<1>9. CASE TimerLockEvent
  BY <1>9 DEF TimerLockEvent
<1>10. CASE TimerWait
  BY <1>10 DEF TimerWait
<1>11. CASE TimerCount
  BY <1>11 DEF TimerCount
<1>12. CASE TimerTick
  BY <1>12 DEF TimerTick
<1>13. CASE TimerLockTimer
  BY <1>13 DEF TimerLockTimer
<1>14. CASE TimerClear
  BY <1>14 DEF TimerClear
<1>15. CASE TimerSpuriousWakeup
  BY <1>15 DEF TimerSpuriousWakeup
<1>16. ASSUME NEW d \in Devices, next_slot(d)
     PROVE  FlagInv'
  BY <1>16 DEF next_slot
<1>17. ASSUME NEW d \in Devices, detach_event(d)
     PROVE  FlagInv'
  BY <1>17 DEF detach_event
<1>18. ASSUME NEW d \in Devices, LockEvent(d)
     PROVE  FlagInv'
  BY <1>18 DEF LockEvent
<1>19. ASSUME NEW d \in Devices, SetDone(d)
     PROVE  FlagInv'
  BY <1>19 DEF SetDone
<1>20. ASSUME NEW d \in Devices, LockTimer(d)
     PROVE  FlagInv'
  BY <1>20 DEF LockTimer
<1>21. ASSUME NEW d \in Devices, CheckDone(d)
     PROVE  FlagInv'
  BY <1>21 DEF CheckDone
<1>22. ASSUME NEW d \in Devices, SetFsh(d)
     PROVE  FlagInv'
  BY <1>22 DEF SetFsh
<1>23. ASSUME NEW d \in Devices, SpuriousWakeup(d)
     PROVE  FlagInv'
  BY <1>23 DEF SpuriousWakeup
<1>24. CASE UNCHANGED vars
  BY <1>24
<1>25. QED
  BY <1>1, <1>2, <1>3, <1>4, <1>5, <1>6, <1>7, <1>8, <1>9, <1>10, <1>11, <1>12,
     <1>13, <1>14, <1>15, <1>16, <1>17, <1>18, <1>19, <1>20, <1>21, <1>22, <1>23, <1>24
     DEF Next, MainStep, TimerStep, Wakeups, Terminated, DeviceStep, LibraryStep

(* Every step keeps what exists in line with where main is.                  *)
LEMMA MainPreserved ==
  ASSUME IInv, [Next]_vars
  PROVE  MainInv'
<1> USE DEF IInv, TypeOK, MainInv, RoundInv, CountInv, LastRound, SignalEvent,
   SignalTimer, EventReady, NextDevice, AfterRound, current
<1>1. ASSUME NEW d \in Devices, attach_event(d)
     PROVE  MainInv'
  BY <1>1 DEF attach_event
<1>2. ASSUME NEW d \in Devices, CreateThread(d)
     PROVE  MainInv'
  BY <1>2 DEF CreateThread
<1>3. CASE start_timer
  BY <1>3 DEF start_timer
<1>4. CASE stop_timer
  BY <1>4 DEF stop_timer
<1>5. CASE JoinTimer
  BY <1>5 DEF JoinTimer
<1>6. CASE FreeDevice
  BY <1>6 DEF FreeDevice
<1>7. CASE MainReturns
  BY <1>7 DEF MainReturns
<1>8. CASE TimerLoop
  BY <1>8 DEF TimerLoop
<1>9. CASE TimerLockEvent
  BY <1>9 DEF TimerLockEvent
<1>10. CASE TimerWait
  BY <1>10 DEF TimerWait
<1>11. CASE TimerCount
  BY <1>11 DEF TimerCount
<1>12. CASE TimerTick
  BY <1>12 DEF TimerTick
<1>13. CASE TimerLockTimer
  BY <1>13 DEF TimerLockTimer
<1>14. CASE TimerClear
  BY <1>14 DEF TimerClear
<1>15. CASE TimerSpuriousWakeup
  BY <1>15 DEF TimerSpuriousWakeup
<1>16. ASSUME NEW d \in Devices, next_slot(d)
     PROVE  MainInv'
  BY <1>16 DEF next_slot
<1>17. ASSUME NEW d \in Devices, detach_event(d)
     PROVE  MainInv'
  BY <1>17 DEF detach_event
<1>18. ASSUME NEW d \in Devices, LockEvent(d)
     PROVE  MainInv'
  BY <1>18 DEF LockEvent
<1>19. ASSUME NEW d \in Devices, SetDone(d)
     PROVE  MainInv'
  BY <1>19 DEF SetDone
<1>20. ASSUME NEW d \in Devices, LockTimer(d)
     PROVE  MainInv'
  BY <1>20 DEF LockTimer
<1>21. ASSUME NEW d \in Devices, CheckDone(d)
     PROVE  MainInv'
  BY <1>21 DEF CheckDone
<1>22. ASSUME NEW d \in Devices, SetFsh(d)
     PROVE  MainInv'
  BY <1>22 DEF SetFsh
<1>23. ASSUME NEW d \in Devices, SpuriousWakeup(d)
     PROVE  MainInv'
  BY <1>23 DEF SpuriousWakeup
<1>24. CASE UNCHANGED vars
  BY <1>24
<1>25. QED
  BY <1>1, <1>2, <1>3, <1>4, <1>5, <1>6, <1>7, <1>8, <1>9, <1>10, <1>11, <1>12,
     <1>13, <1>14, <1>15, <1>16, <1>17, <1>18, <1>19, <1>20, <1>21, <1>22, <1>23, <1>24
     DEF Next, MainStep, TimerStep, Wakeups, Terminated, DeviceStep, LibraryStep

(* Every step keeps the list of devices complete.                            *)
LEMMA ListPreserved ==
  ASSUME IInv, [Next]_vars
  PROVE  ListInv'
<1> USE DEF IInv, TypeOK, ListInv, MainInv, Attached, Range, SignalEvent,
   SignalTimer, EventReady, NextDevice, AfterRound, current
<1>1. ASSUME NEW d \in Devices, attach_event(d)
     PROVE  ListInv'
  <2>1. /\ dev_list \in Seq(Devices) /\ dev_list' = <<d>> \o dev_list
        /\ mainpc' = "attach"
    BY <1>1 DEF attach_event
  <2>2. \A j \in 1 .. Len(dev_list) : dev_list[j] # d
    BY <1>1, <2>1 DEF attach_event
  <2>3. /\ Len(dev_list') = Len(dev_list) + 1
        /\ \A j \in 1 .. Len(dev_list) + 1 :
             dev_list'[j] = IF j = 1 THEN d ELSE dev_list[j - 1]
    <3> HIDE DEF IInv, ListInv, MainInv
    <3>1. QED
      BY <2>1
  <2>4. ASSUME NEW i \in 1 .. Len(dev_list'), NEW j \in 1 .. Len(dev_list'),
               dev_list'[i] = dev_list'[j]
        PROVE  i = j
    <3>1. Len(dev_list) \in Nat
      BY <2>1
    <3>2. CASE i = 1 \/ j = 1
      <4>1. \A k \in 2 .. Len(dev_list') : dev_list'[k] # d
        <5> TAKE k \in 2 .. Len(dev_list')
        <5>1. k - 1 \in 1 .. Len(dev_list) /\ dev_list'[k] = dev_list[k - 1]
          BY <2>3, <3>1
        <5>2. QED
          BY <2>2, <5>1
      <4>2. dev_list'[1] = d
        BY <2>3, <3>1
      <4>3. QED
        BY <2>3, <2>4, <3>1, <3>2, <4>1, <4>2
    <3>3. CASE i # 1 /\ j # 1
      <4>1. dev_list[i - 1] = dev_list[j - 1]
        BY <2>3, <2>4, <3>1, <3>3
      <4>2. i - 1 \in 1 .. Len(dev_list) /\ j - 1 \in 1 .. Len(dev_list)
        BY <2>3, <3>1, <3>3
      <4>3. i - 1 = j - 1
        BY <4>1, <4>2
      <4>4. QED
        BY <3>1, <4>3
    <3>4. QED
      BY <3>2, <3>3
  <2>5. QED
    BY <2>1, <2>4
<1>2. ASSUME NEW d \in Devices, CreateThread(d)
     PROVE  ListInv'
  BY <1>2 DEF CreateThread
<1>3. CASE start_timer
  BY <1>3 DEF start_timer
<1>4. CASE stop_timer
  BY <1>4 DEF stop_timer
<1>5. CASE JoinTimer
  BY <1>5 DEF JoinTimer
<1>6. CASE FreeDevice
  BY <1>6 DEF FreeDevice
<1>7. CASE MainReturns
  BY <1>7 DEF MainReturns
<1>8. CASE TimerLoop
  BY <1>8 DEF TimerLoop
<1>9. CASE TimerLockEvent
  BY <1>9 DEF TimerLockEvent
<1>10. CASE TimerWait
  BY <1>10 DEF TimerWait
<1>11. CASE TimerCount
  BY <1>11 DEF TimerCount
<1>12. CASE TimerTick
  BY <1>12 DEF TimerTick
<1>13. CASE TimerLockTimer
  BY <1>13 DEF TimerLockTimer
<1>14. CASE TimerClear
  BY <1>14 DEF TimerClear
<1>15. CASE TimerSpuriousWakeup
  BY <1>15 DEF TimerSpuriousWakeup
<1>16. ASSUME NEW d \in Devices, next_slot(d)
     PROVE  ListInv'
  BY <1>16 DEF next_slot
<1>17. ASSUME NEW d \in Devices, detach_event(d)
     PROVE  ListInv'
  BY <1>17 DEF detach_event
<1>18. ASSUME NEW d \in Devices, LockEvent(d)
     PROVE  ListInv'
  BY <1>18 DEF LockEvent
<1>19. ASSUME NEW d \in Devices, SetDone(d)
     PROVE  ListInv'
  BY <1>19 DEF SetDone
<1>20. ASSUME NEW d \in Devices, LockTimer(d)
     PROVE  ListInv'
  BY <1>20 DEF LockTimer
<1>21. ASSUME NEW d \in Devices, CheckDone(d)
     PROVE  ListInv'
  BY <1>21 DEF CheckDone
<1>22. ASSUME NEW d \in Devices, SetFsh(d)
     PROVE  ListInv'
  BY <1>22 DEF SetFsh
<1>23. ASSUME NEW d \in Devices, SpuriousWakeup(d)
     PROVE  ListInv'
  BY <1>23 DEF SpuriousWakeup
<1>24. CASE UNCHANGED vars
  BY <1>24
<1>25. QED
  BY <1>1, <1>2, <1>3, <1>4, <1>5, <1>6, <1>7, <1>8, <1>9, <1>10, <1>11, <1>12,
     <1>13, <1>14, <1>15, <1>16, <1>17, <1>18, <1>19, <1>20, <1>21, <1>22, <1>23, <1>24
     DEF Next, MainStep, TimerStep, Wakeups, Terminated, DeviceStep, LibraryStep

(* Every step leaves the devices settled that the timer has passed.          *)
LEMMA RoundPreserved ==
  ASSUME IInv, [Next]_vars
  PROVE  RoundInv'
<1>1. ASSUME NEW d \in Devices, attach_event(d)
     PROVE  RoundInv'
  BY <1>1 DEF attach_event, IInv, TypeOK, MainInv, FlagInv, ListInv, RoundInv,
     Settled, Blocked, current
<1>2. ASSUME NEW d \in Devices, CreateThread(d)
     PROVE  RoundInv'
  <2>1. \A e \in Devices : Settled(e) => Settled(e)'
    BY <1>2, SettledStays
  <2>2. UNCHANGED <<tpc, temp, dev_list, done, fsh>>
    BY <1>2 DEF CreateThread
  <2>3. QED
    BY <2>1, <2>2 DEF IInv, TypeOK, RoundInv, current
<1>3. CASE start_timer
  BY <1>3 DEF start_timer, IInv, TypeOK, MainInv, FlagInv, ListInv, RoundInv,
     Settled, Blocked, current
<1>4. CASE stop_timer
  BY <1>4 DEF stop_timer, IInv, TypeOK, MainInv, FlagInv, ListInv, RoundInv,
     Settled, Blocked, current
<1>5. CASE JoinTimer
  BY <1>5 DEF JoinTimer, IInv, TypeOK, MainInv, FlagInv, ListInv, RoundInv,
     Settled, Blocked, current
<1>6. CASE FreeDevice
  BY <1>6 DEF FreeDevice, IInv, TypeOK, MainInv, FlagInv, ListInv, RoundInv,
     Settled, Blocked, current
<1>7. CASE MainReturns
  BY <1>7 DEF MainReturns, IInv, TypeOK, MainInv, FlagInv, ListInv, RoundInv,
     Settled, Blocked, current
<1>8. CASE TimerLoop
  <2>1. Len(dev_list) \in Nat \ {0}
    BY <1>8, FullList DEF TimerLoop
  <2>2. QED
    BY <1>8, <2>1 DEF TimerLoop, RoundInv
<1>9. CASE TimerLockEvent
  BY <1>9 DEF TimerLockEvent, IInv, TypeOK, MainInv, FlagInv, ListInv,
     RoundInv, Settled, Blocked, current
<1>10. CASE TimerWait
  BY <1>10 DEF TimerWait, EventReady, IInv, TypeOK, MainInv, FlagInv, ListInv,
     RoundInv, Settled, Blocked, current
<1>11. CASE TimerCount
  <2>1. /\ temp \in 1 .. Len(dev_list)
        /\ \A i \in 1 .. temp - 1 : Settled(dev_list[i])
    BY <1>11 DEF TimerCount, EventReady, NextDevice, IInv, RoundInv
  <2>2. Settled(dev_list[temp])
    BY <1>11, <2>1 DEF TimerCount, EventReady, NextDevice, IInv, TypeOK,
       FlagInv, Settled, current
  <2>3. \A i \in 1 .. temp : Settled(dev_list[i])
    BY <2>1, <2>2 DEF IInv, TypeOK
  <2>4. \A e \in Devices : Settled(e)' <=> Settled(e)
    BY <1>11 DEF TimerCount, EventReady, NextDevice, Settled, Blocked
  <2>5. /\ \A i \in 1 .. Len(dev_list) : dev_list[i] \in Devices
        /\ \A e \in Devices : \E i \in 1 .. Len(dev_list) : dev_list[i] = e
    BY <1>11, FullList DEF TimerCount, EventReady, NextDevice
  <2>6. CASE temp < Len(dev_list)
    <3>1. /\ tpc' = "lockEvent" /\ temp' = temp + 1
          /\ dev_list' = dev_list
      BY <1>11, <2>6 DEF TimerCount, EventReady, NextDevice
    <3>2. temp' \in 1 .. Len(dev_list')
      BY <2>1, <2>6, <3>1 DEF IInv, TypeOK
    <3>3. \A i \in 1 .. temp' - 1 : Settled(dev_list[i])
      BY <2>1, <2>3, <3>1 DEF IInv, TypeOK
    <3>4. \A i \in 1 .. temp' - 1 : Settled(dev_list[i])'
      <4> TAKE i \in 1 .. temp' - 1
      <4>1. Settled(dev_list[i])
        BY <3>3
      <4>2. LET e == dev_list[i] IN pc'[e] = pc[e] /\ done'[e] = done[e]
        BY <1>11 DEF TimerCount, EventReady, NextDevice
      <4>3. QED
        BY <3>1, <4>1, <4>2 DEF Settled, Blocked
    <3>5. QED
      BY <3>1, <3>2, <3>4 DEF RoundInv
  <2>7. CASE ~(temp < Len(dev_list))
    <3>1. temp = Len(dev_list)
      BY <2>1, <2>7 DEF IInv, TypeOK
    <3>2. \A e \in Devices : Settled(e)
      BY <3>1, <2>3, <2>5
    <3>3. QED
      BY <1>11, <2>4, <2>7, <3>2 DEF TimerCount, EventReady, NextDevice,
         RoundInv
  <2>8. QED
    BY <2>6, <2>7
<1>12. CASE TimerTick
  <2>1. /\ Len(dev_list) \in Nat \ {0}
        /\ \A i \in 1 .. Len(dev_list) : dev_list[i] \in Devices
    BY <1>12, FullList DEF TimerTick
  <2>2. \A e \in Devices : Settled(e)'
    BY <1>12 DEF TimerTick, IInv, RoundInv, Settled, Blocked
  <2>3. QED
    BY <1>12, <2>1, <2>2 DEF TimerTick, RoundInv
<1>13. CASE TimerLockTimer
  BY <1>13 DEF TimerLockTimer, IInv, TypeOK, MainInv, FlagInv, ListInv,
     RoundInv, Settled, Blocked, current
<1>14. CASE TimerClear
  BY <1>14 DEF TimerClear, SignalTimer, NextDevice, AfterRound, IInv, TypeOK,
     MainInv, FlagInv, ListInv, RoundInv, Settled, Blocked, current
<1>15. CASE TimerSpuriousWakeup
  BY <1>15 DEF TimerSpuriousWakeup, IInv, TypeOK, MainInv, FlagInv, ListInv,
     RoundInv, Settled, Blocked, current
<1>16. ASSUME NEW d \in Devices, next_slot(d)
     PROVE  RoundInv'
  <2>1. \A e \in Devices : Settled(e) => Settled(e)'
    BY <1>16, SettledStays DEF DeviceStep
  <2>2. UNCHANGED <<tpc, temp, dev_list, done, fsh>>
    BY <1>16 DEF next_slot
  <2>3. QED
    BY <2>1, <2>2 DEF IInv, TypeOK, RoundInv, current
<1>17. ASSUME NEW d \in Devices, detach_event(d)
     PROVE  RoundInv'
  <2>1. \A e \in Devices : Settled(e) => Settled(e)'
    BY <1>17, SettledStays DEF DeviceStep
  <2>2. UNCHANGED <<tpc, temp, dev_list, done, fsh>>
    BY <1>17 DEF detach_event
  <2>3. QED
    BY <2>1, <2>2 DEF IInv, TypeOK, RoundInv, current
<1>18. ASSUME NEW d \in Devices, LockEvent(d)
     PROVE  RoundInv'
  <2>1. \A e \in Devices : Settled(e) => Settled(e)'
    BY <1>18, SettledStays DEF DeviceStep, LibraryStep
  <2>2. UNCHANGED <<tpc, temp, dev_list, done, fsh>>
    BY <1>18 DEF LockEvent
  <2>3. QED
    BY <2>1, <2>2 DEF IInv, TypeOK, RoundInv, current
<1>19. ASSUME NEW d \in Devices, SetDone(d)
     PROVE  RoundInv'
  <2>1. \A e \in Devices : Settled(e) => Settled(e)'
    BY <1>19, SettledStays DEF DeviceStep, LibraryStep
  <2>2. /\ UNCHANGED <<temp, dev_list>>
        /\ tpc' = tpc \/ (tpc = "waitEvent" /\ tpc' = "lockEvent")
    BY <1>19 DEF SetDone, SignalEvent
  <2>3. tpc' = "waitEvent" => UNCHANGED <<done[current], fsh[current]>>
    BY <1>19 DEF SetDone, SignalEvent, IInv, TypeOK, RoundInv, current
  <2>4. QED
    BY <2>1, <2>2, <2>3 DEF IInv, TypeOK, RoundInv, current
<1>20. ASSUME NEW d \in Devices, LockTimer(d)
     PROVE  RoundInv'
  <2>1. \A e \in Devices : Settled(e) => Settled(e)'
    BY <1>20, SettledStays DEF DeviceStep, LibraryStep
  <2>2. UNCHANGED <<tpc, temp, dev_list, done, fsh>>
    BY <1>20 DEF LockTimer
  <2>3. QED
    BY <2>1, <2>2 DEF IInv, TypeOK, RoundInv, current
<1>21. ASSUME NEW d \in Devices, CheckDone(d)
     PROVE  RoundInv'
  <2>1. \A e \in Devices : Settled(e) => Settled(e)'
    BY <1>21, SettledStays DEF DeviceStep, LibraryStep
  <2>2. UNCHANGED <<tpc, temp, dev_list, done, fsh>>
    BY <1>21 DEF CheckDone
  <2>3. QED
    BY <2>1, <2>2 DEF IInv, TypeOK, RoundInv, current
<1>22. ASSUME NEW d \in Devices, SetFsh(d)
     PROVE  RoundInv'
  <2>1. \A e \in Devices : Settled(e) => Settled(e)'
    BY <1>22, SettledStays DEF DeviceStep, LibraryStep
  <2>2. /\ UNCHANGED <<temp, dev_list>>
        /\ tpc' = tpc \/ (tpc = "waitEvent" /\ tpc' = "lockEvent")
    BY <1>22 DEF SetFsh, SignalEvent
  <2>3. tpc' = "waitEvent" => UNCHANGED <<done[current], fsh[current]>>
    BY <1>22 DEF SetFsh, SignalEvent, IInv, TypeOK, RoundInv, current
  <2>4. QED
    BY <2>1, <2>2, <2>3 DEF IInv, TypeOK, RoundInv, current
<1>23. ASSUME NEW d \in Devices, SpuriousWakeup(d)
     PROVE  RoundInv'
  <2>1. \A e \in Devices : Settled(e) => Settled(e)'
    BY <1>23, SettledStays
  <2>2. UNCHANGED <<tpc, temp, dev_list, done, fsh>>
    BY <1>23 DEF SpuriousWakeup
  <2>3. QED
    BY <2>1, <2>2 DEF IInv, TypeOK, RoundInv, current
<1>24. CASE UNCHANGED vars
  BY <1>24 DEF IInv, TypeOK, MainInv, FlagInv, ListInv, RoundInv, Settled,
     Blocked, current
<1>25. QED
  BY <1>1, <1>2, <1>3, <1>4, <1>5, <1>6, <1>7, <1>8, <1>9, <1>10, <1>11, <1>12,
     <1>13, <1>14, <1>15, <1>16, <1>17, <1>18, <1>19, <1>20, <1>21, <1>22, <1>23, <1>24
     DEF Next, MainStep, TimerStep, Wakeups, Terminated, DeviceStep, LibraryStep

(* Every step keeps the counters equal only if all counted have left.        *)
LEMMA CountPreserved ==
  ASSUME IInv, [Next]_vars
  PROVE  CountInv'
<1>1. ASSUME NEW d \in Devices, attach_event(d)
     PROVE  CountInv'
  BY <1>1 DEF attach_event, IInv, TypeOK, MainInv, CountInv, RoundInv,
     LastRound, Settled, Blocked, current
<1>2. ASSUME NEW d \in Devices, CreateThread(d)
     PROVE  CountInv'
  <2>1. \A e \in Devices : pc'[e] = "exited" <=> pc[e] = "exited"
    BY <1>2 DEF CreateThread, IInv, TypeOK
  <2>2. UNCHANGED <<temp, dev_list, fshCount, eventCount>>
    BY <1>2 DEF CreateThread
  <2>3. tpc' = tpc \/ (tpc = "waitEvent" /\ tpc' = "lockEvent")
    BY <1>2 DEF CreateThread
  <2>4. QED
    BY <2>1, <2>2, <2>3 DEF IInv, TypeOK, RoundInv, CountInv, LastRound
<1>3. CASE start_timer
  BY <1>3 DEF start_timer, IInv, TypeOK, MainInv, CountInv, RoundInv,
     LastRound, Settled, Blocked, current
<1>4. CASE stop_timer
  BY <1>4 DEF stop_timer, IInv, TypeOK, MainInv, CountInv, RoundInv,
     LastRound, Settled, Blocked, current
<1>5. CASE JoinTimer
  BY <1>5 DEF JoinTimer, IInv, TypeOK, MainInv, CountInv, RoundInv, LastRound,
     Settled, Blocked, current
<1>6. CASE FreeDevice
  BY <1>6 DEF FreeDevice, IInv, TypeOK, MainInv, CountInv, RoundInv,
     LastRound, Settled, Blocked, current
<1>7. CASE MainReturns
  BY <1>7 DEF MainReturns, IInv, TypeOK, MainInv, CountInv, RoundInv,
     LastRound, Settled, Blocked, current
<1>8. CASE TimerLoop
  BY <1>8 DEF TimerLoop, IInv, TypeOK, MainInv, CountInv, RoundInv, LastRound,
     Settled, Blocked, current
<1>9. CASE TimerLockEvent
  BY <1>9 DEF TimerLockEvent, IInv, TypeOK, MainInv, CountInv, RoundInv,
     LastRound, Settled, Blocked, current
<1>10. CASE TimerWait
  BY <1>10 DEF TimerWait, EventReady, IInv, TypeOK, MainInv, CountInv,
     RoundInv, LastRound, Settled, Blocked, current
<1>11. CASE TimerCount
  <2>1. /\ temp \in 1 .. Len(dev_list)
        /\ fshCount <= eventCount
        /\ fshCount = eventCount
             <=> \A i \in 1 .. temp - 1 : pc[dev_list[i]] = "exited"
    BY <1>11 DEF TimerCount, EventReady, NextDevice, IInv, RoundInv, CountInv
  <2>2. /\ fsh[current] \in {0, 1}
        /\ fsh[current] = 1 <=> pc[current] = "exited"
    BY <2>1 DEF IInv, TypeOK, FlagInv, current
  <2>3. /\ fshCount' <= eventCount'
        /\ fshCount' = eventCount'
             <=> fshCount = eventCount /\ pc[current] = "exited"
    BY <1>11, <2>1, <2>2 DEF TimerCount, EventReady, NextDevice, IInv, TypeOK
  <2>4. fshCount' = eventCount'
          <=> \A i \in 1 .. temp : pc[dev_list[i]] = "exited"
    BY <2>1, <2>3 DEF IInv, TypeOK, current
  <2>5. CASE temp < Len(dev_list)
    BY <1>11, <2>1, <2>3, <2>4, <2>5 DEF TimerCount, EventReady, NextDevice,
       IInv, TypeOK, CountInv, LastRound
  <2>6. CASE ~(temp < Len(dev_list))
    <3>1. temp = Len(dev_list)
      BY <2>1, <2>6 DEF IInv, TypeOK
    <3>2. /\ \A i \in 1 .. Len(dev_list) : dev_list[i] \in Devices
          /\ \A e \in Devices : \E i \in 1 .. Len(dev_list) : dev_list[i] = e
      BY <1>11, FullList DEF TimerCount, EventReady, NextDevice
    <3>3. fshCount' = eventCount' <=> \A e \in Devices : pc[e] = "exited"
      BY <2>4, <3>1, <3>2
    <3>4. QED
      BY <1>11, <2>3, <2>6, <3>3 DEF TimerCount, EventReady, NextDevice,
         CountInv, LastRound
  <2>7. QED
    BY <2>5, <2>6
<1>12. CASE TimerTick
  BY <1>12 DEF TimerTick, IInv, TypeOK, MainInv, CountInv, RoundInv,
     LastRound, Settled, Blocked, current
<1>13. CASE TimerLockTimer
  BY <1>13 DEF TimerLockTimer, IInv, TypeOK, MainInv, CountInv, RoundInv,
     LastRound, Settled, Blocked, current
<1>14. CASE TimerClear
  BY <1>14 DEF TimerClear, SignalTimer, NextDevice, AfterRound, IInv, TypeOK,
     MainInv, CountInv, RoundInv, LastRound, Settled, Blocked, current
<1>15. CASE TimerSpuriousWakeup
  BY <1>15 DEF TimerSpuriousWakeup, IInv, TypeOK, MainInv, CountInv, RoundInv,
     LastRound, Settled, Blocked, current
<1>16. ASSUME NEW d \in Devices, next_slot(d)
     PROVE  CountInv'
  <2>1. \A e \in Devices : pc'[e] = "exited" <=> pc[e] = "exited"
    BY <1>16 DEF next_slot, IInv, TypeOK
  <2>2. UNCHANGED <<temp, dev_list, fshCount, eventCount>>
    BY <1>16 DEF next_slot
  <2>3. tpc' = tpc \/ (tpc = "waitEvent" /\ tpc' = "lockEvent")
    BY <1>16 DEF next_slot
  <2>4. QED
    BY <2>1, <2>2, <2>3 DEF IInv, TypeOK, RoundInv, CountInv, LastRound
<1>17. ASSUME NEW d \in Devices, detach_event(d)
     PROVE  CountInv'
  <2>1. \A e \in Devices : pc'[e] = "exited" <=> pc[e] = "exited"
    BY <1>17 DEF detach_event, IInv, TypeOK
  <2>2. UNCHANGED <<temp, dev_list, fshCount, eventCount>>
    BY <1>17 DEF detach_event
  <2>3. tpc' = tpc \/ (tpc = "waitEvent" /\ tpc' = "lockEvent")
    BY <1>17 DEF detach_event
  <2>4. QED
    BY <2>1, <2>2, <2>3 DEF IInv, TypeOK, RoundInv, CountInv, LastRound
<1>18. ASSUME NEW d \in Devices, LockEvent(d)
     PROVE  CountInv'
  <2>1. \A e \in Devices : pc'[e] = "exited" <=> pc[e] = "exited"
    BY <1>18 DEF LockEvent, IInv, TypeOK
  <2>2. UNCHANGED <<temp, dev_list, fshCount, eventCount>>
    BY <1>18 DEF LockEvent
  <2>3. tpc' = tpc \/ (tpc = "waitEvent" /\ tpc' = "lockEvent")
    BY <1>18 DEF LockEvent
  <2>4. QED
    BY <2>1, <2>2, <2>3 DEF IInv, TypeOK, RoundInv, CountInv, LastRound
<1>19. ASSUME NEW d \in Devices, SetDone(d)
     PROVE  CountInv'
  <2>1. \A e \in Devices : pc'[e] = "exited" <=> pc[e] = "exited"
    BY <1>19 DEF SetDone, IInv, TypeOK
  <2>2. UNCHANGED <<temp, dev_list, fshCount, eventCount>>
    BY <1>19 DEF SetDone
  <2>3. tpc' = tpc \/ (tpc = "waitEvent" /\ tpc' = "lockEvent")
    BY <1>19 DEF SetDone, SignalEvent
  <2>4. QED
    BY <2>1, <2>2, <2>3 DEF IInv, TypeOK, RoundInv, CountInv, LastRound
<1>20. ASSUME NEW d \in Devices, LockTimer(d)
     PROVE  CountInv'
  <2>1. \A e \in Devices : pc'[e] = "exited" <=> pc[e] = "exited"
    BY <1>20 DEF LockTimer, IInv, TypeOK
  <2>2. UNCHANGED <<temp, dev_list, fshCount, eventCount>>
    BY <1>20 DEF LockTimer
  <2>3. tpc' = tpc \/ (tpc = "waitEvent" /\ tpc' = "lockEvent")
    BY <1>20 DEF LockTimer
  <2>4. QED
    BY <2>1, <2>2, <2>3 DEF IInv, TypeOK, RoundInv, CountInv, LastRound
<1>21. ASSUME NEW d \in Devices, CheckDone(d)
     PROVE  CountInv'
  <2>1. \A e \in Devices : pc'[e] = "exited" <=> pc[e] = "exited"
    BY <1>21 DEF CheckDone, IInv, TypeOK
  <2>2. UNCHANGED <<temp, dev_list, fshCount, eventCount>>
    BY <1>21 DEF CheckDone
  <2>3. tpc' = tpc \/ (tpc = "waitEvent" /\ tpc' = "lockEvent")
    BY <1>21 DEF CheckDone
  <2>4. QED
    BY <2>1, <2>2, <2>3 DEF IInv, TypeOK, RoundInv, CountInv, LastRound
<1>22. ASSUME NEW d \in Devices, SetFsh(d)
     PROVE  CountInv'
  <2>1. ~Settled(d)
    BY <1>22 DEF SetFsh, Settled, Blocked
  <2>2. \A e \in Devices : Settled(e) => (pc'[e] = "exited" <=> pc[e] = "exited")
    BY <1>22, <2>1 DEF SetFsh, IInv, TypeOK
  <2>3. UNCHANGED <<temp, dev_list, fshCount, eventCount>>
    BY <1>22 DEF SetFsh
  <2>4. tpc' = tpc \/ (tpc = "waitEvent" /\ tpc' = "lockEvent")
    BY <1>22 DEF SetFsh, SignalEvent
  <2>5. \A e \in Devices : pc[e] = "exited" => pc'[e] = "exited"
    BY <1>22 DEF SetFsh, IInv, TypeOK
  <2>6. tpc # "tick"
    BY <2>1 DEF IInv, RoundInv
  <2>7. QED
    BY <2>2, <2>3, <2>4, <2>5, <2>6 DEF IInv, TypeOK, RoundInv, CountInv,
       LastRound
<1>23. ASSUME NEW d \in Devices, SpuriousWakeup(d)
     PROVE  CountInv'
  <2>1. \A e \in Devices : pc'[e] = "exited" <=> pc[e] = "exited"
    BY <1>23 DEF SpuriousWakeup, IInv, TypeOK
  <2>2. UNCHANGED <<temp, dev_list, fshCount, eventCount>>
    BY <1>23 DEF SpuriousWakeup
  <2>3. tpc' = tpc \/ (tpc = "waitEvent" /\ tpc' = "lockEvent")
    BY <1>23 DEF SpuriousWakeup
  <2>4. QED
    BY <2>1, <2>2, <2>3 DEF IInv, TypeOK, RoundInv, CountInv, LastRound
<1>24. CASE UNCHANGED vars
  BY <1>24 DEF IInv, TypeOK, MainInv, CountInv, RoundInv, LastRound, Settled,
     Blocked, current
<1>25. QED
  BY <1>1, <1>2, <1>3, <1>4, <1>5, <1>6, <1>7, <1>8, <1>9, <1>10, <1>11, <1>12,
     <1>13, <1>14, <1>15, <1>16, <1>17, <1>18, <1>19, <1>20, <1>21, <1>22, <1>23, <1>24
     DEF Next, MainStep, TimerStep, Wakeups, Terminated, DeviceStep, LibraryStep
-----------------------------------------------------------------------------
(* The invariant of the specification, and what follows from it              *)

(* The invariant holds initially.                                            *)
LEMMA InitIInv ==
  ASSUME Init
  PROVE  IInv
<1>1. TypeOK
  <2>1. dev_list \in Seq(Devices)
    BY DEF Init
  <2>2. time \in 0 .. MaxTime
    BY DEF Init
  <2>3. QED
    BY <2>1, <2>2 DEF Init, TypeOK, MainPcs, DevicePcs, TimerPcs, Owners
<1>2. LockInv /\ FlagInv /\ MainInv /\ ListInv /\ RoundInv /\ CountInv
  BY DEF Init, LockInv, FlagInv, MainInv, ListInv, RoundInv, CountInv,
         LastRound, Blocked, current
<1>3. QED
  BY <1>1, <1>2 DEF IInv

(* Every reachable state of the timer and its devices satisfies the inductive*)
(* invariant: timer_routine, next_slot, detach_event and stop_timer keep     *)
(* locks, flags, list and counters in step.                                  *)
THEOREM Invariant == Spec => []IInv
<1>1. Init => IInv
  BY InitIInv
<1>2. IInv /\ [Next]_vars => IInv'
  BY TypePreserved, LockPreserved, FlagPreserved, MainPreserved,
     ListPreserved, RoundPreserved, CountPreserved DEF IInv
<1>3. QED
  BY <1>1, <1>2, PTL DEF Spec

(* Every variable keeps its type: the flags stay 0 or 1, the clock within    *)
(* its bound and the list a list of devices.                                 *)
THEOREM TypeCorrect == Spec => []TypeOK
<1>1. IInv => TypeOK
  BY DEF IInv
<1>2. QED
  BY <1>1, Invariant, PTL

(* next_slot and timer_routine, which write done under different mutexes,    *)
(* are never both about to write the flag of the same device.                *)
THEOREM DoneIsRaceFree == Spec => []NoRaceOnDone
<1>1. IInv => NoRaceOnDone
  <2> SUFFICES ASSUME IInv, NEW d \in Devices,
                      pc[d] = "nsSetDone", tpc = "clear", current = d
               PROVE  FALSE
    BY DEF NoRaceOnDone
  <2>1. Settled(d)
    BY DEF IInv, TypeOK, RoundInv, current
  <2>2. QED
    BY <2>1 DEF Settled, Blocked
<1>2. QED
  BY <1>1, Invariant, PTL

(* No thread sleeps on a condition variable after the event it waits for.    *)
THEOREM WakeupsAreNotLost == Spec => []NoLostWakeup
<1>1. IInv => NoLostWakeup
  BY DEF IInv, RoundInv, FlagInv, NoLostWakeup
<1>2. QED
  BY <1>1, Invariant, PTL

(* The timer thread ends only after every device has detached.               *)
THEOREM TimerIsLast == Spec => []TimerOutlivesDevices
<1>1. IInv => TimerOutlivesDevices
  BY DEF IInv, CountInv, TimerOutlivesDevices
<1>2. QED
  BY <1>1, Invariant, PTL

(* stop_timer frees no container a device or the timer can still reach.      *)
THEOREM ContainersOutliveUse == Spec => []NoUseAfterFree
<1>1. IInv => NoUseAfterFree
  <2> SUFFICES ASSUME IInv PROVE NoUseAfterFree
    OBVIOUS
  <2>1. ASSUME NEW d \in Devices, pc[d] \notin {"off", "exited"}
        PROVE  d \in Attached
    <3>1. mainpc \in {"create", "join"}
      BY <2>1 DEF IInv, TypeOK, MainPcs, MainInv
    <3>2. PICK i \in 1 .. Len(dev_list) : dev_list[i] = d
      BY <3>1 DEF IInv, ListInv
    <3>3. i \in DOMAIN dev_list
      BY DEF IInv, TypeOK
    <3>4. QED
      BY <3>2, <3>3 DEF Attached, Range
  <2>2. QED
    BY <2>1 DEF IInv, RoundInv, NoUseAfterFree
<1>2. QED
  BY <1>1, Invariant, PTL

(* _time is incremented only while no device is inside its slot.             *)
THEOREM ClockWaitsForAll == Spec => SlotBarrier
<1>1. IInv /\ [Next]_vars
        => [TimerTick => \A d \in Devices : \/ Blocked(d) /\ done[d] = 1
                                            \/ pc[d] = "exited"]_vars
  BY DEF IInv, RoundInv, Settled, TimerTick
<1>2. QED
  BY <1>1, Invariant, PTL DEF Spec, SlotBarrier

-----------------------------------------------------------------------------
(* The slot barrier of TimeSlots is implemented                              *)

(* Initially every device works in slot 0.                                   *)
LEMMA InitImplementsSlots ==
  ASSUME Init
  PROVE  Slots!SlotInit
  BY DEF Init, Slots!SlotInit, SlotPhase, LastRound

(* Which half of its round the timer is in, as the users of the timer see it.*)
Half == CASE tpc \in {"lockTimer", "clear"} -> "release"
          [] tpc = "exit" -> "over"
          [] OTHER -> "collect"

(* A step that leaves the flags alone and stays in its half of the round is  *)
(* invisible to the users of the timer.                                      *)
LEMMA Invisible ==
  ASSUME UNCHANGED <<done, fsh, time, Half>>,
         Half = "release" => UNCHANGED <<temp, dev_list, fshCount, eventCount>>
  PROVE  UNCHANGED Slots!slotVars
<1>1. /\ (tpc \in {"lockTimer", "clear"}) <=> (tpc' \in {"lockTimer", "clear"})
      /\ (tpc = "exit") <=> (tpc' = "exit")
      /\ Half = "release" <=> tpc \in {"lockTimer", "clear"}
  BY DEF Half
<1>2. LastRound' <=> LastRound
  BY <1>1 DEF LastRound
<1>3. \A d \in Devices : ToBeReleased(d)' <=> ToBeReleased(d)
  BY <1>1 DEF ToBeReleased
<1>4. \A d \in Devices : SlotPhase(d)' = SlotPhase(d)
  BY <1>3 DEF SlotPhase
<1>5. QED
  BY <1>1, <1>2, <1>4 DEF Slots!slotVars

(* next_slot ends the work of its device: the abstract Finish.               *)
LEMMA SetDoneFinishes ==
  ASSUME IInv, NEW d \in Devices, SetDone(d)
  PROVE  Slots!Finish(d)
<1> USE DEF IInv, TypeOK
<1>1. /\ pc[d] = "nsSetDone" /\ done' = [done EXCEPT ![d] = 1]
      /\ UNCHANGED <<fsh, temp, dev_list, fshCount, eventCount, time>>
      /\ tpc' = tpc \/ (tpc = "waitEvent" /\ tpc' = "lockEvent")
  BY DEF SetDone, SignalEvent
<1>2. ~Settled(d) /\ fsh[d] = 0 /\ done[d] = 0
  BY <1>1 DEF FlagInv, Settled, Blocked
<1>3. ~ToBeReleased(d)
  BY <1>2 DEF ToBeReleased, RoundInv
<1>4. \A e \in Devices : ToBeReleased(e)' <=> ToBeReleased(e)
  BY <1>1 DEF ToBeReleased
<1>5. SlotPhase(d) = "working" /\ SlotPhase(d)' = "waiting"
  BY <1>1, <1>2, <1>3, <1>4 DEF SlotPhase
<1>6. \A e \in Devices \ {d} : SlotPhase(e)' = SlotPhase(e)
  BY <1>1, <1>4 DEF SlotPhase
<1>7. (tpc' = "exit" \/ LastRound') <=> (tpc = "exit" \/ LastRound)
  BY <1>1 DEF LastRound
<1>8. QED
  BY <1>1, <1>5, <1>6, <1>7 DEF Slots!Finish

(* detach_event takes its device out: the abstract Leave.                    *)
LEMMA SetFshLeaves ==
  ASSUME IInv, NEW d \in Devices, SetFsh(d)
  PROVE  Slots!Leave(d)
<1> USE DEF IInv, TypeOK
<1>1. /\ pc[d] = "deSetFsh" /\ fsh' = [fsh EXCEPT ![d] = 1]
      /\ UNCHANGED <<done, temp, dev_list, fshCount, eventCount, time>>
      /\ tpc' = tpc \/ (tpc = "waitEvent" /\ tpc' = "lockEvent")
  BY DEF SetFsh, SignalEvent
<1>2. fsh[d] = 0 /\ done[d] = 0
  BY <1>1 DEF FlagInv, Blocked
<1>3. \A e \in Devices : ToBeReleased(e)' <=> ToBeReleased(e)
  BY <1>1 DEF ToBeReleased
<1>4. SlotPhase(d) = "working" /\ SlotPhase(d)' = "gone"
  BY <1>1, <1>2 DEF SlotPhase
<1>5. \A e \in Devices \ {d} : SlotPhase(e)' = SlotPhase(e)
  BY <1>1, <1>3 DEF SlotPhase
<1>6. (tpc' = "exit" \/ LastRound') <=> (tpc = "exit" \/ LastRound)
  BY <1>1 DEF LastRound
<1>7. QED
  BY <1>1, <1>4, <1>5, <1>6 DEF Slots!Leave

(* _time++ is the abstract Tick, or LastTick when every device has detached. *)
LEMMA TickImplements ==
  ASSUME IInv, TimerTick
  PROVE  Slots!Tick \/ Slots!LastTick
<1> USE DEF IInv, TypeOK
<1>1. /\ tpc = "tick" /\ tpc' = "lockTimer" /\ temp' = 1
      /\ time' = Slots!Bump(time)
      /\ UNCHANGED <<done, fsh, dev_list, fshCount, eventCount>>
  BY DEF TimerTick, Slots!Bump
<1>2. \A d \in Devices : ToBeReleased(d)' /\ ~ToBeReleased(d)
  BY <1>1, FullList DEF ToBeReleased
<1>3. \A d \in Devices :
        /\ SlotPhase(d) = IF pc[d] = "exited" THEN "gone" ELSE "waiting"
        /\ SlotPhase(d)' = IF pc[d] = "exited" THEN "gone" ELSE "working"
  BY <1>1, <1>2 DEF SlotPhase, RoundInv, Settled, FlagInv
<1>4. LastRound' <=> \A d \in Devices : pc[d] = "exited"
  BY <1>1 DEF LastRound, CountInv
<1>5. ~(tpc = "exit" \/ LastRound) /\ tpc' # "exit"
  BY <1>1 DEF LastRound
<1>6. CASE \A d \in Devices : pc[d] = "exited"
  <2>1. \A d \in Devices : SlotPhase(d) = "gone" /\ SlotPhase(d)' = "gone"
    BY <1>3, <1>6
  <2>2. Slots!LastTick
    BY <1>1, <1>4, <1>5, <1>6, <2>1 DEF Slots!LastTick
  <2>3. QED
    BY <2>2
<1>7. CASE \E d \in Devices : pc[d] # "exited"
  <2>1. Slots!NoneWorking /\ \E d \in Devices : SlotPhase(d) = "waiting"
    BY <1>3, <1>7 DEF Slots!NoneWorking
  <2>2. \A d \in Devices : SlotPhase(d)' = IF SlotPhase(d) = "waiting"
                                             THEN "working" ELSE SlotPhase(d)
    BY <1>3
  <2>3. Slots!Tick
    BY <1>1, <1>4, <1>5, <1>7, <2>1, <2>2 DEF Slots!Tick
  <2>4. QED
    BY <2>3
<1>8. QED
  BY <1>6, <1>7

(* Clearing the flag of a device that works already is invisible.            *)
LEMMA ClearInvisible ==
  ASSUME IInv, TimerClear
  PROVE  UNCHANGED Slots!slotVars
<1> USE DEF IInv, TypeOK
<1>1. /\ tpc = "clear" /\ done' = [done EXCEPT ![current] = 0]
      /\ temp' = temp + 1
      /\ tpc' = IF temp < Len(dev_list) THEN "lockTimer"
                ELSE IF fshCount = eventCount THEN "exit" ELSE "loop"
      /\ UNCHANGED <<fsh, dev_list, fshCount, eventCount, time>>
  BY DEF TimerClear, SignalTimer, NextDevice, AfterRound
<1>2. temp \in 1 .. Len(dev_list) /\ current \in Devices
  BY <1>1 DEF RoundInv, current
<1>3. \A d \in Devices : ToBeReleased(d) <=> d = current \/ ToBeReleased(d)'
  <2>1. CASE temp < Len(dev_list)
    BY <1>1, <1>2, <2>1 DEF ToBeReleased, current
  <2>2. CASE ~(temp < Len(dev_list))
    BY <1>1, <1>2, <2>2 DEF ToBeReleased, current
  <2>3. QED
    BY <2>1, <2>2
<1>4. \A d \in Devices : d = current => ~ToBeReleased(d)'
  <2>1. \A i \in temp + 1 .. Len(dev_list) : dev_list[i] # current
    BY <1>2 DEF ListInv, current
  <2>2. QED
    BY <1>1, <1>2, <2>1 DEF ToBeReleased, current
<1>5. \A d \in Devices : SlotPhase(d)' = SlotPhase(d)
  BY <1>1, <1>2, <1>3 DEF SlotPhase
<1>6. (tpc' = "exit" \/ LastRound') <=> LastRound
  BY <1>1 DEF LastRound
<1>7. QED
  BY <1>1, <1>5, <1>6 DEF Slots!slotVars

(* The head of the loop is invisible, unless it sees timer_stop.             *)
LEMMA LoopImplements ==
  ASSUME IInv, TimerLoop
  PROVE  Slots!LastTick \/ UNCHANGED Slots!slotVars
<1>1. tpc = "loop" /\ UNCHANGED <<done, fsh, time>>
  BY DEF TimerLoop
<1>2. CASE timer_stop
  <2>1. tpc' = "exit" /\ \A d \in Devices : fsh[d] = 1
    BY <1>2 DEF TimerLoop, IInv, MainInv, FlagInv
  <2>2. \A d \in Devices : SlotPhase(d) = "gone" /\ SlotPhase(d)' = "gone"
    BY <1>1, <2>1 DEF SlotPhase
  <2>3. Slots!LastTick
    BY <1>1, <2>1, <2>2 DEF Slots!LastTick, LastRound
  <2>4. QED
    BY <2>3
<1>3. CASE ~timer_stop
  <2>1. UNCHANGED Half /\ Half # "release"
    BY <1>1, <1>3 DEF TimerLoop, Half
  <2>2. QED
    BY <1>1, <2>1, Invisible
<1>4. QED
  BY <1>2, <1>3

(* Every step is one of TimeSlots or invisible there.                        *)
LEMMA StepImplementsSlots ==
  ASSUME IInv, [Next]_vars
  PROVE  [Slots!SlotNext]_(Slots!slotVars)
<1>1. ASSUME NEW d \in Devices, attach_event(d)
      PROVE  UNCHANGED Slots!slotVars
  <2>1. UNCHANGED <<done, fsh, time, Half>> /\ Half # "release"
    BY <1>1 DEF attach_event, IInv, TypeOK, MainInv, FlagInv, Blocked, Half
  <2>2. QED
    BY <2>1, Invisible
<1>2. CASE start_timer \/ FreeDevice
  <2>1. UNCHANGED <<done, fsh, time, Half>> /\ Half # "release"
    BY <1>2 DEF start_timer, FreeDevice, IInv, MainInv, Half
  <2>2. QED
    BY <2>1, Invisible
<1>3. CASE \/ stop_timer \/ JoinTimer \/ MainReturns \/ Terminated
           \/ TimerLockEvent \/ TimerWait \/ TimerLockTimer \/ TimerSpuriousWakeup
           \/ UNCHANGED vars
  <2>1. UNCHANGED <<done, fsh, time, Half, temp, dev_list, fshCount, eventCount>>
    BY <1>3 DEF stop_timer, JoinTimer, MainReturns, Terminated, TimerLockEvent,
                TimerWait, TimerLockTimer, TimerSpuriousWakeup, Half
  <2>2. QED
    BY <2>1, Invisible
<1>4. ASSUME NEW d \in Devices,
             \/ CreateThread(d) \/ next_slot(d) \/ detach_event(d) \/ LockEvent(d)
             \/ LockTimer(d) \/ CheckDone(d) \/ SpuriousWakeup(d)
      PROVE  UNCHANGED Slots!slotVars
  <2>1. UNCHANGED <<done, fsh, time, Half, temp, dev_list, fshCount, eventCount>>
    BY <1>4 DEF CreateThread, next_slot, detach_event, LockEvent, LockTimer,
                CheckDone, SpuriousWakeup, Half
  <2>2. QED
    BY <2>1, Invisible
<1>5. CASE TimerCount
  <2>1. UNCHANGED <<done, fsh, time, Half>> /\ Half # "release"
    BY <1>5 DEF TimerCount, EventReady, NextDevice, Half
  <2>2. QED
    BY <2>1, Invisible
<1>6. QED
  BY <1>1, <1>2, <1>3, <1>4, <1>5, SetDoneFinishes, SetFshLeaves,
     TickImplements,
     ClearInvisible, LoopImplements
     DEF Next, MainStep, TimerStep, Wakeups, DeviceStep, LibraryStep, Slots!SlotNext

(* timer.c keeps the promise of TimeSlots, its fairness aside: every step of *)
(* main, the timer and the devices is a step of the slot barrier or          *)
(* invisible to it.                                                          *)
THEOREM TimerImplementsSlots ==
  Spec => Slots!SlotInit /\ [][Slots!SlotNext]_(Slots!slotVars)
<1>1. Init => Slots!SlotInit
  BY InitImplementsSlots
<1>2. IInv /\ [Next]_vars => [Slots!SlotNext]_(Slots!slotVars)
  BY StepImplementsSlots
<1>3. QED
  BY <1>1, <1>2, Invariant, PTL DEF Spec
=============================================================================
