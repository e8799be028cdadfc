-------------------------- MODULE SpiBusLockProofs --------------------------
(***************************************************************************)
(* Theorems about the SPI bus lock, for any set of devices, any queue size *)
(* and either placement of the interrupt handler.                          *)
(***************************************************************************)
EXTENDS SpiBusLock, WellFoundedInduction, TLAPS

(* mask_get_id on a nonzero mask names a device whose bit is set, and no   *)
(* device with a smaller id has its bit set.                               *)
LEMMA LowestIdProperties ==
  ASSUME NEW S \in SUBSET Dev, S # {}
  PROVE  LowestId(S) \in S /\ \A e \in S : LowestId(S) <= e
<1> DEFINE R == OpToRel(<, Nat)
<1>1. S \subseteq Nat
  BY DevAssumption
<1>2. PICK x \in S : \A y \in S : ~ (<<y, x>> \in R)
  <2>1. IsWellFoundedOn(R, Nat)
    BY NatLessThanWellFounded
  <2> HIDE DEF R
  <2> QED  BY <1>1, <2>1, WFMin
<1>3. \A y \in S : x <= y
  <2>1. ASSUME NEW y \in S, y < x PROVE <<y, x>> \in R
    BY <1>1, <2>1 DEF OpToRel
  <2> HIDE DEF R
  <2>2. \A y \in S : ~ (y < x)
    BY <1>2, <2>1
  <2> QED  BY <1>1, <2>2
<1> QED  BY <1>3 DEF LowestId

(* What schedule_core returns: a record of its results, whose desired      *)
(* device has BG bits when the BG goes on.                                 *)
LEMMA ScheduleType ==
  ASSUME NEW lock \in SUBSET Dev, NEW bg \in SUBSET Dev
  PROVE  LET s == schedule_core(lock, bg)
         IN  /\ s \in SchedType
             /\ s.to = "bg" => s.desired \in bg
<1>1. lock # {} => LowestId(lock) \in lock
  BY LowestIdProperties
<1>2. bg # {} => LowestId(bg) \in bg
  BY LowestIdProperties
<1> QED  BY <1>1, <1>2 DEF schedule_core, Sched, NoSched, SchedType, MaybeDev

(* The result of a pass that schedules nothing is a schedule too.          *)
LEMMA NoSchedType == NoSched \in SchedType
BY DEF NoSched, Sched, SchedType, MaybeDev

(* spi_bus_init_lock sets up a state of the right type.                    *)
LEMMA TypeOKInit == Init => TypeOK
<1> SUFFICES ASSUME Init PROVE TypeOK
  OBVIOUS
<1> USE QueueAssumption, CallsAssumption, NoSchedType DEF Init
<1>1. /\ pc \in [Dev -> TaskPcs] /\ isr \in IsrPcs
      /\ call \in [Dev -> {"none", "acquire", "poll"}]
  BY DEF TaskPcs, IsrPcs
<1>2. semphr \in [Dev -> 0..1] /\ calls \in [Dev -> 0..MaxCalls]
  OBVIOUS
<1>3. /\ trans_queue \in [Dev -> 0..QueueSize]
      /\ ret_queue \in [Dev -> 0..QueueSize]
  OBVIOUS
<1>4. snap \in [lock : SUBSET Dev, pend : SUBSET Dev, req : SUBSET Dev]
  BY DEF NoStatus, Snapshot
<1> QED  BY <1>1, <1>2, <1>3, <1>4 DEF TypeOK, MaybeDev

(* Each step of a device task, one per access to the lock, keeps the type. *)
LEMMA TypeOKTask ==
  ASSUME TypeOK, NEW d \in Dev, TaskStep(d) \/ NewCall(d)
  PROVE  TypeOK'
<1> USE QueueAssumption, CallsAssumption
<1> USE DEF TypeOK, MaybeDev, TaskPcs, At, Goto,
            statusVars, lockVars, hostVars, taskVars, isrVars
<1>1. CASE req_core_test(d)
  BY <1>1 DEF req_core_test
<1>2. CASE req_core_mark(d)
  BY <1>2 DEF req_core_mark
<1>3. CASE req_core_set(d)
  BY <1>3 DEF req_core_set, bgBits
<1>4. CASE req_core_enable(d)
  BY <1>4 DEF req_core_enable
<1>5. CASE dev_wait_prepare(d)
  BY <1>5 DEF dev_wait_prepare
<1>6. CASE acquire_core(d)
  BY <1>6 DEF acquire_core, bgBits
<1>7. CASE acquire_core_claim(d)
  BY <1>7 DEF acquire_core_claim
<1>8. CASE dev_wait(d)
  BY <1>8 DEF dev_wait
<1>9. CASE wait_bg_done_test(d)
  BY <1>9 DEF wait_bg_done_test, bgBits
<1>10. CASE acquire_bus_granted(d)
  BY <1>10 DEF acquire_bus_granted
<1>11. CASE polling_start_granted(d)
  BY <1>11 DEF polling_start_granted
<1>12. CASE spi_device_polling_end(d)
  BY <1>12 DEF spi_device_polling_end
<1>13. CASE spi_device_release_bus(d)
  BY <1>13 DEF spi_device_release_bus
<1>14. CASE acquire_end_core_clear(d)
  BY <1>14, ScheduleType DEF acquire_end_core_clear, bgBits
<1>15. CASE acquire_end_core_schedule(d)
  BY <1>15 DEF acquire_end_core_schedule, SchedType, BgServesAcq
<1>16. CASE acquire_end_core_pass(d)
  BY <1>16, NoSchedType DEF acquire_end_core_pass, SchedType
<1>17. CASE spi_device_get_trans_result(d)
  BY <1>17 DEF spi_device_get_trans_result
<1>18. CASE spi_device_queue_trans(d)
  BY <1>18 DEF spi_device_queue_trans, Call
<1>19. CASE spi_device_acquire_bus(d)
  BY <1>19 DEF spi_device_acquire_bus, Call
<1>20. CASE spi_device_polling_start(d)
  BY <1>20 DEF spi_device_polling_start, Call
<1> QED
  BY <1>1, <1>2, <1>3, <1>4, <1>5, <1>6, <1>7, <1>8, <1>9,
     <1>10, <1>11, <1>12, <1>13, <1>14, <1>15, <1>16, <1>17,
     <1>18, <1>19, <1>20
  DEF TaskStep, NewCall

(* Giving a binary semaphore leaves every semaphore binary.                *)
LEMMA GiveType ==
  ASSUME NEW f \in [Dev -> 0..1], NEW x
  PROVE  [f EXCEPT ![x] = 1] \in [Dev -> 0..1]
<1> DEFINE g == [y \in Dev |-> IF y = x THEN 1 ELSE f[y]]
<1>1. g \in [Dev -> 0..1]
  OBVIOUS
<1>2. [f EXCEPT ![x] = 1] = g
  OBVIOUS
<1> QED  BY <1>1, <1>2

(* Each step of the interrupt handler keeps the type.                      *)
LEMMA TypeOKIsr ==
  ASSUME TypeOK, IsrStep \/ spi_hal_usr_is_done
  PROVE  TypeOK'
<1> USE QueueAssumption
<1> USE DEF TypeOK, MaybeDev, IsrPcs, IsrAt, Snapshot, NoStatus,
            statusVars, lockVars, hostVars, taskVars, isrVars
<1>1. CASE bg_entry_core
  <2>1. ret_queue' \in [Dev -> 0..QueueSize]
    BY <1>1 DEF bg_entry_core
  <2>2. cur_cs' \in MaybeDev
    BY <1>1 DEF bg_entry_core
  <2> QED  BY <1>1, <2>1, <2>2 DEF bg_entry_core
<1>2. CASE isr_get_acquiring_dev
  BY <1>2 DEF isr_get_acquiring_dev
<1>3. CASE bg_check_dev_acq_fetch
  BY <1>3 DEF bg_check_dev_acq_fetch
<1>4. CASE bg_check_dev_acq
  BY <1>4, ScheduleType DEF bg_check_dev_acq, BgOf, SchedType, BgServesAcq
<1>5. CASE bg_check_dev_req
  BY <1>5 DEF bg_check_dev_req
<1>6. CASE update_pend_core_set
  BY <1>6 DEF update_pend_core_set
<1>7. CASE update_pend_core_clear
  BY <1>7 DEF update_pend_core_clear
<1>8. CASE isr_receive
  <2>1. trans_queue' \in [Dev -> 0..QueueSize]
    BY <1>8 DEF isr_receive
  <2>2. cur_cs' \in MaybeDev /\ trans_done' \in BOOLEAN
    BY <1>8 DEF isr_receive
  <2> QED  BY <1>8, <2>1, <2>2 DEF isr_receive
<1>9. CASE bg_exit_core_wip
  BY <1>9 DEF bg_exit_core_wip
<1>10. CASE clear_pend_core
  BY <1>10 DEF clear_pend_core
<1>11. CASE clear_pend_core_active
  BY <1>11 DEF clear_pend_core_active
<1>12. CASE bg_exit_core_fetch
  BY <1>12 DEF bg_exit_core_fetch
<1>13. CASE bg_exit_core_decide
  BY <1>13, ScheduleType DEF bg_exit_core_decide, BgOf, SchedType, BgServesAcq
<1>14. CASE bg_exit_core_resume
  <2>1. semphr' = [semphr EXCEPT ![desired_dev] = 1] /\ semphr \in [Dev -> 0..1]
    BY <1>14 DEF bg_exit_core_resume
  <2>2. semphr' \in [Dev -> 0..1]
    BY <2>1, GiveType
  <2> QED  BY <1>14, <2>2 DEF bg_exit_core_resume
<1>15. CASE bg_exit_core_leave
  BY <1>15 DEF bg_exit_core_leave
<1>16. CASE spi_hal_usr_is_done
  BY <1>16
  DEF spi_hal_usr_is_done
<1> QED
  BY <1>1, <1>2, <1>3, <1>4, <1>5, <1>6, <1>7, <1>8, <1>9,
     <1>10, <1>11, <1>12, <1>13, <1>14, <1>15, <1>16
  DEF IsrStep

(* Every step keeps the lock's words, the host's fields and the program    *)
(* counters in their types, for any number of devices.                     *)
THEOREM TypeCorrect == Spec => []TypeOK
<1>1. TypeOK /\ [Next]_vars => TypeOK'
  <2> SUFFICES ASSUME TypeOK, [Next]_vars PROVE TypeOK'
    OBVIOUS
  <2>1. CASE Next
    BY <2>1, TypeOKTask, TypeOKIsr DEF Next
  <2>2. CASE UNCHANGED vars
    BY <2>2 DEF TypeOK, vars, statusVars, lockVars, hostVars, taskVars, isrVars
  <2> QED  BY <2>1, <2>2
<1> QED  BY <1>1, TypeOKInit, PTL DEF Spec

-----------------------------------------------------------------------------
(* QueuedIsMarked.  A task step can break it only by enqueueing, which puts*)
(* the task at a RequestPc, or by leaving the RequestPcs, which sets REQ.  *)
LEMMA MarkTask ==
  ASSUME TypeOK, MarkInv, NEW d \in Dev, TaskStep(d) \/ NewCall(d)
  PROVE  MarkInv'
<1> USE DEF TypeOK, MarkInv, QueuedIsMarked, RequestPcs, TaskPcs, bgBits,
            At, Goto, statusVars, lockVars, hostVars, taskVars, isrVars
<1>1. CASE req_core_test(d)
  BY <1>1 DEF req_core_test
<1>2. CASE req_core_mark(d)
  BY <1>2 DEF req_core_mark
<1>3. CASE req_core_set(d)
  BY <1>3 DEF req_core_set
<1>4. CASE req_core_enable(d)
  BY <1>4 DEF req_core_enable
<1>5. CASE dev_wait_prepare(d)
  BY <1>5 DEF dev_wait_prepare
<1>6. CASE acquire_core(d)
  BY <1>6 DEF acquire_core
<1>7. CASE acquire_core_claim(d)
  BY <1>7 DEF acquire_core_claim
<1>8. CASE dev_wait(d)
  BY <1>8 DEF dev_wait
<1>9. CASE wait_bg_done_test(d)
  BY <1>9 DEF wait_bg_done_test
<1>10. CASE acquire_bus_granted(d)
  BY <1>10 DEF acquire_bus_granted
<1>11. CASE polling_start_granted(d)
  BY <1>11 DEF polling_start_granted
<1>12. CASE spi_device_polling_end(d)
  BY <1>12 DEF spi_device_polling_end
<1>13. CASE spi_device_release_bus(d)
  BY <1>13 DEF spi_device_release_bus
<1>14. CASE acquire_end_core_clear(d)
  BY <1>14 DEF acquire_end_core_clear
<1>15. CASE acquire_end_core_schedule(d)
  BY <1>15 DEF acquire_end_core_schedule
<1>16. CASE acquire_end_core_pass(d)
  BY <1>16
  DEF acquire_end_core_pass
<1>17. CASE spi_device_get_trans_result(d)
  BY <1>17 DEF spi_device_get_trans_result
<1>18. CASE spi_device_queue_trans(d)
  BY <1>18 DEF spi_device_queue_trans, Call
<1>19. CASE spi_device_acquire_bus(d)
  BY <1>19 DEF spi_device_acquire_bus, Call
<1>20. CASE spi_device_polling_start(d)
  BY <1>20 DEF spi_device_polling_start, Call
<1> QED
  BY <1>1, <1>2, <1>3, <1>4, <1>5, <1>6, <1>7, <1>8, <1>9,
     <1>10, <1>11, <1>12, <1>13, <1>14, <1>15, <1>16, <1>17,
     <1>18, <1>19, <1>20
  DEF TaskStep, NewCall

(* The ISR moves REQ bits to PEND bits without ever dropping both, and     *)
(* clears a PEND bit only after it found the queue empty.                  *)
LEMMA MarkIsr ==
  ASSUME TypeOK, MarkInv, IsrStep \/ spi_hal_usr_is_done
  PROVE  MarkInv'
<1> USE DEF TypeOK, MarkInv, QueuedIsMarked, RequestPcs, bgBits,
            IsrAt, Snapshot, NoStatus,
            statusVars, lockVars, hostVars, taskVars, isrVars
<1>1. CASE bg_entry_core
  BY <1>1 DEF bg_entry_core
<1>2. CASE isr_get_acquiring_dev
  BY <1>2 DEF isr_get_acquiring_dev
<1>3. CASE bg_check_dev_acq_fetch
  BY <1>3 DEF bg_check_dev_acq_fetch
<1>4. CASE bg_check_dev_acq
  BY <1>4 DEF bg_check_dev_acq
<1>5. CASE bg_check_dev_req
  BY <1>5 DEF bg_check_dev_req
<1>6. CASE update_pend_core_set
  BY <1>6 DEF update_pend_core_set
<1>7. CASE update_pend_core_clear
  BY <1>7 DEF update_pend_core_clear
<1>8. CASE isr_receive
  BY <1>8 DEF isr_receive
<1>9. CASE bg_exit_core_wip
  BY <1>9 DEF bg_exit_core_wip
<1>10. CASE clear_pend_core
  BY <1>10 DEF clear_pend_core
<1>11. CASE clear_pend_core_active
  BY <1>11 DEF clear_pend_core_active
<1>12. CASE bg_exit_core_fetch
  BY <1>12 DEF bg_exit_core_fetch
<1>13. CASE bg_exit_core_decide
  BY <1>13 DEF bg_exit_core_decide
<1>14. CASE bg_exit_core_resume
  BY <1>14 DEF bg_exit_core_resume
<1>15. CASE bg_exit_core_leave
  BY <1>15 DEF bg_exit_core_leave
<1>16. CASE spi_hal_usr_is_done
  BY <1>16
  DEF spi_hal_usr_is_done
<1> QED
  BY <1>1, <1>2, <1>3, <1>4, <1>5, <1>6, <1>7, <1>8, <1>9,
     <1>10, <1>11, <1>12, <1>13, <1>14, <1>15, <1>16
  DEF IsrStep

(* No descriptor is ever left in a device's queue without a REQ or PEND    *)
(* bit to announce it, in any mix of calls, on one core or on several.     *)
THEOREM QueuedIsAlwaysMarked == Spec => []QueuedIsMarked
<1>1. Init => MarkInv
  BY DEF Init, MarkInv, QueuedIsMarked, RequestPcs
<1>2. TypeOK /\ MarkInv /\ [Next]_vars => MarkInv'
  <2> SUFFICES ASSUME TypeOK, MarkInv, [Next]_vars PROVE MarkInv'
    OBVIOUS
  <2>1. CASE Next
    BY <2>1, MarkTask, MarkIsr DEF Next
  <2>2. CASE UNCHANGED vars
    BY <2>2 DEF MarkInv, QueuedIsMarked, RequestPcs, bgBits, vars, statusVars,
                lockVars, hostVars, taskVars, isrVars
  <2> QED  BY <2>1, <2>2
<1>3. MarkInv => QueuedIsMarked
  BY DEF MarkInv
<1> QED  BY <1>1, <1>2, <1>3, TypeCorrect, PTL DEF Spec

-----------------------------------------------------------------------------
(* The bus on one core.  The right to use it passes from hand to hand: a   *)
(* task has it, or the interrupt handler, or one of them is about to pass  *)
(* it on.                                                                  *)

(* Where a task works with the bus, and where it waits for its own BG.     *)
Using == {"acquired", "bg_done", "poll", "end_clear", "end_schedule"}
Waits == {"wait_test", "wait_prepare", "wait_retest", "wait_sem"}
Holds(d) == pc[d] \in (Using \ {"end_schedule"}) \cup Waits \/ Owner(d)

(* Where a task is about to enable the BG, to claim the bus or to pass it  *)
(* on.                                                                     *)
Passing(d) == pc[d] = "end_pass" /\ sched[d].desired # NoDev
Claims(d) == pc[d] \in {"req_enable", "acq_claim"} \/ Passing(d)

(* Who is the owner, and where its task can be.                            *)
OwnerInv ==
  \A d \in Dev :
    /\ Owner(d) =>
         pc[d] \in {"ready", "req_test", "req_mark", "req_set_acq", "req_enable",
                   "bg_done", "poll"} \cup Waits
    /\ pc[d] \in {"req_mark", "req_set_acq", "bg_done"} \cup Waits => Owner(d)

(* The LOCK bits are those of the tasks that hold or await the bus, and    *)
(* acquiring_dev is the one that holds it or is chosen next.               *)
LockInv ==
  /\ \A d \in Dev : d \in lockBits <=> pc[d] \in {"acq_claim", "acq_wait"} \/ Holds(d)
  /\ \A d \in Dev : Holds(d) \/ pc[d] = "end_schedule" => acquiring_dev = d
  /\ acquiring_dev # NoDev =>
       acquiring_dev \in lockBits \/ pc[acquiring_dev] = "end_schedule"
  /\ \A d \in Dev : pc[d] \in Using => d \notin bgBits

(* acquire_end_core's critical section.                                    *)
SpinInv ==
  /\ spinlock # NoDev => isr = "off" /\ pc[spinlock] = "end_schedule"
  /\ \A d \in Dev : pc[d] = "end_schedule" =>
       spinlock = d /\ sched[d] = schedule_core(lockBits, bgBits)

(* The right to the bus is in one place.                                   *)
ClaimInv ==
  /\ \A d \in Dev : Claims(d) =>
       ~intr /\ isr = "off" /\ \A e \in Dev : Claims(e) => e = d
  /\ \A d \in Dev : pc[d] = "req_enable" =>
       acquiring_dev \in {NoDev, d} /\ d \in bgBits
  /\ \A d \in Dev : pc[d] = "acq_claim" =>
       acquiring_dev = NoDev /\ d \notin bgBits
  /\ \A d \in Dev : pc[d] = "end_pass" /\ sched[d].to = "bg" =>
       sched[d].desired \in bgBits /\ acquiring_dev \in {NoDev, sched[d].desired}
  /\ \A d \in Dev : Passing(d) /\ sched[d].to = "task" =>
       acquiring_dev = sched[d].desired /\ acquiring_dev \notin bgBits
  /\ \A d \in Dev : Passing(d) /\ acquiring_dev # NoDev =>
       pc[acquiring_dev] = "acq_wait" /\ semphr[acquiring_dev] = 0

(* The BG is enabled exactly while it may use the bus.                     *)
EnabledInv ==
  isr = "off" =>
    /\ intr => IF acquiring_dev = NoDev THEN bgBits # {} ELSE acquiring_dev \in bgBits
    /\ acquiring_dev \in bgBits =>
         intr \/ pc[acquiring_dev] \in {"req_enable", "acq_wait"}

(* A semaphore that a task finds given, after it emptied it, was given for *)
(* this wait.                                                              *)
GivenInv ==
  \A d \in Dev :
    /\ pc[d] = "acq_core" => semphr[d] = 0
    /\ pc[d] = "acq_wait" /\ semphr[d] = 1 => acquiring_dev = d /\ d \notin bgBits
    /\ pc[d] \in {"wait_retest", "wait_sem"} /\ semphr[d] = 1 => d \notin bgBits

(* The transaction in flight is the polling one of the task that holds the *)
(* bus or the one spi_intr started.                                        *)
FlightInv ==
  /\ \A d \in Dev : pc[d] = "poll" => cur_cs = d /\ polling
  /\ polling => cur_cs # NoDev /\ pc[cur_cs] = "poll"
  /\ cur_cs # NoDev => polling \/ (in_isr /\ isr \in {"off", "exit_wip"})
  /\ isr \in {"off", "exit_wip"} /\ in_isr =>
       cur_cs # NoDev /\ ~polling /\ acquiring_dev \in {NoDev, cur_cs}
  /\ IF isr = "off" THEN in_isr => intr ELSE ~polling
  /\ ~trans_done => cur_cs # NoDev

(* What spi_intr knows at each of its steps.                               *)
HandlerInv ==
  /\ isr # "off" => ~intr /\ in_isr
  /\ isr \in {"check_acq", "schedule"} => acquiring_dev = NoDev
  /\ isr \in {"schedule", "exit_decide"} => snap = Snapshot(lockBits, pendBits, reqBits)
  /\ isr \in {"check_req", "set_pend", "clear_req", "receive", "exit_wip", "clear_pend",
              "clear_active"} =>
       desired_dev \in Dev /\ acquiring_dev \in {NoDev, desired_dev}
  /\ isr \in {"set_pend", "clear_req"} =>
       snap.req \subseteq reqBits /\ desired_dev \in snap.req
  /\ isr = "clear_req" => snap.req \subseteq pendBits
  /\ isr = "exit_wip" => cur_cs = desired_dev
  /\ isr \in {"receive", "exit_wip"} => desired_dev \in pendBits
  /\ isr = "exit_resume" => desired_dev = acquiring_dev /\ desired_dev \in Dev
  /\ isr \in {"exit_resume", "exit_leave"} => acquiring_dev \notin bgBits

BusInv ==
  /\ OwnerInv /\ LockInv /\ SpinInv /\ ClaimInv
  /\ EnabledInv /\ GivenInv /\ FlightInv /\ HandlerInv

(* What schedule_core decides: the device it names, the task it gives the  *)
(* lock to, and when it is the BG that goes on.                            *)
LEMMA ScheduleIs ==
  ASSUME NEW lock \in SUBSET Dev, NEW bg \in SUBSET Dev,
         NEW s, s = schedule_core(lock, bg)
  PROVE  /\ s \in SchedType
         /\ s.to = "bg" => s.desired \in bg /\ s.acq \in {NoDev, s.desired}
         /\ s.to = "task" => s.acq = s.desired /\ s.acq \notin bg
         /\ s.acq # NoDev => s.acq \in lock
         /\ s.desired = NoDev => lock = {} /\ bg = {}
<1>1. lock # {} => LowestId(lock) \in lock
  BY LowestIdProperties
<1>2. bg # {} => LowestId(bg) \in bg
  BY LowestIdProperties
<1> QED
  BY <1>1, <1>2, NoDevAssumption
  DEF schedule_core, Sched, NoSched, SchedType, MaybeDev

(* On one core a task runs, but for its critical section, only while       *)
(* spi_intr does not and no interrupt is pending.                          *)
LEMMA TaskRuns ==
  ASSUME SameCore, TypeOK, SpinInv, NEW d \in Dev, CanRun(d),
         pc[d] # "end_schedule"
  PROVE  isr = "off" /\ spinlock = NoDev /\ ~(intr /\ trans_done)
BY NoDevAssumption DEF CanRun, SpinInv, TypeOK, MaybeDev, IntrPending

(* A request that finds the status word empty, or its own BG bits clear,   *)
(* has the BG to itself.                                                   *)
LEMMA BusRequest ==
  ASSUME SameCore, TypeOK, BusInv, NEW d \in Dev, req_core_set(d)
  PROVE  BusInv'
<1> USE NoDevAssumption
    DEF TypeOK, MaybeDev, BusInv, OwnerInv, LockInv, SpinInv, ClaimInv,
        EnabledInv, GivenInv, FlightInv, HandlerInv, Using, Waits, Holds,
        Owner, Passing, Claims, bgBits, statusVars, lockVars, hostVars,
        taskVars, isrVars, TaskPcs, At, Goto
<1>1. isr = "off" /\ spinlock = NoDev /\ ~(intr /\ trans_done)
  BY TaskRuns DEF req_core_set
<1>2. OwnerInv' /\ LockInv' /\ SpinInv' /\ EnabledInv' /\ GivenInv'
      /\ FlightInv' /\ HandlerInv'
  BY <1>1 DEF req_core_set
<1>3. ClaimInv'
  <2>1. CASE pc'[d] = "req_enable"
    <3>1. ~intr /\ acquiring_dev \in {NoDev, d}
      BY <1>1, <2>1 DEF req_core_set
    <3>2. ASSUME NEW e \in Dev, Claims(e) PROVE FALSE
      <4>1. CASE pc[e] = "req_enable"
        BY <1>1, <2>1, <3>1, <4>1 DEF req_core_set
      <4>2. CASE pc[e] = "acq_claim"
        BY <1>1, <2>1, <3>1, <4>2 DEF req_core_set
      <4>3. CASE Passing(e)
        <5>1. acquiring_dev # d
          BY <2>1, <4>3 DEF req_core_set
        <5>2. lockBits \cup bgBits = {} /\ acquiring_dev = NoDev
          BY <2>1, <3>1, <5>1 DEF req_core_set
        <5> QED  BY <4>3, <5>2 DEF SchedType
      <4> QED  BY <3>2, <4>1, <4>2, <4>3
    <3>3. \A e \in Dev : Claims(e)' => e = d
      BY <1>1, <2>1, <3>2 DEF req_core_set
    <3> QED  BY <1>1, <2>1, <3>1, <3>2, <3>3 DEF req_core_set
  <2>2. CASE pc'[d] # "req_enable"
    <3>1. \A e \in Dev : Claims(e)' => Claims(e)
      BY <1>1, <2>2 DEF req_core_set
    <3>2. acquiring_dev # d \/ d \in bgBits
      BY <1>1, <2>2 DEF req_core_set
    <3> QED  BY <1>1, <2>2, <3>1, <3>2 DEF req_core_set
  <2> QED  BY <2>1, <2>2
<1> QED  BY <1>2, <1>3

(* A task that finds the status word empty claims a bus nobody uses.       *)
LEMMA BusAcquire ==
  ASSUME SameCore, TypeOK, BusInv, NEW d \in Dev, acquire_core(d)
  PROVE  BusInv'
<1> USE NoDevAssumption
    DEF TypeOK, MaybeDev, BusInv, OwnerInv, LockInv, SpinInv, ClaimInv,
        EnabledInv, GivenInv, FlightInv, HandlerInv, Using, Waits, Holds,
        Owner, Passing, Claims, bgBits, statusVars, lockVars, hostVars,
        taskVars, isrVars, TaskPcs, At, Goto
<1>1. isr = "off" /\ spinlock = NoDev /\ ~(intr /\ trans_done)
  BY TaskRuns DEF acquire_core
<1>2. OwnerInv' /\ LockInv' /\ SpinInv' /\ EnabledInv' /\ GivenInv'
      /\ FlightInv' /\ HandlerInv'
  BY <1>1 DEF acquire_core
<1>3. ClaimInv'
  <2>1. CASE pc'[d] = "acq_claim"
    <3>1. ~intr /\ acquiring_dev = NoDev /\ bgBits = {}
      BY <1>1, <2>1 DEF acquire_core
    <3>2. ASSUME NEW e \in Dev, Claims(e) PROVE FALSE
      <4>1. CASE pc[e] \in {"req_enable", "acq_claim"}
        BY <1>1, <2>1, <3>1, <4>1 DEF acquire_core
      <4>2. CASE Passing(e)
        BY <3>1, <4>2 DEF SchedType
      <4> QED  BY <3>2, <4>1, <4>2
    <3>3. \A e \in Dev : Claims(e)' => e = d
      BY <1>1, <2>1, <3>2 DEF acquire_core
    <3> QED  BY <1>1, <2>1, <3>1, <3>2, <3>3 DEF acquire_core
  <2>2. CASE pc'[d] # "acq_claim"
    BY <1>1, <2>2 DEF acquire_core
  <2> QED  BY <2>1, <2>2
<1> QED  BY <1>2, <1>3

(* acquire_end_core gives up the LOCK bit and decides who is next.         *)
LEMMA BusEnd ==
  ASSUME SameCore, TypeOK, BusInv, NEW d \in Dev, acquire_end_core_clear(d)
  PROVE  BusInv'
<1> USE NoDevAssumption
    DEF TypeOK, MaybeDev, BusInv, OwnerInv, LockInv, SpinInv, ClaimInv,
        EnabledInv, GivenInv, FlightInv, HandlerInv, Using, Waits, Holds,
        Owner, Passing, Claims, bgBits, statusVars, lockVars, hostVars,
        taskVars, isrVars, TaskPcs, At, Goto
<1>1. isr = "off" /\ spinlock = NoDev /\ ~(intr /\ trans_done)
  BY TaskRuns DEF acquire_end_core_clear
<1>2. acquiring_dev = d
  BY DEF acquire_end_core_clear
<1>3. OwnerInv' /\ LockInv' /\ ClaimInv' /\ EnabledInv' /\ GivenInv'
      /\ FlightInv' /\ HandlerInv'
  BY <1>1, <1>2 DEF acquire_end_core_clear
<1>4. SpinInv'
  <2>1. /\ spinlock' = d /\ isr' = "off" /\ pc'[d] = "end_schedule"
        /\ \A e \in Dev : pc'[e] = "end_schedule" => e = d
    BY <1>1, <1>2 DEF acquire_end_core_clear
  <2>2. bgBits' = bgBits /\ lockBits' = lockBits \ {d}
    BY <1>2 DEF acquire_end_core_clear
  <2>3. sched'[d] = schedule_core(lockBits \ {d}, bgBits)
    BY <1>2 DEF acquire_end_core_clear
  <2> HIDE DEF bgBits
  <2> QED  BY <2>1, <2>2, <2>3
<1> QED  BY <1>3, <1>4

(* The task it decided on waits for the bus, and nobody else has it.       *)
LEMMA BusSchedule ==
  ASSUME SameCore, TypeOK, BusInv, NEW d \in Dev, acquire_end_core_schedule(d)
  PROVE  BusInv'
<1> USE NoDevAssumption
    DEF TypeOK, MaybeDev, BusInv, OwnerInv, LockInv, SpinInv, ClaimInv,
        EnabledInv, GivenInv, FlightInv, HandlerInv, Using, Waits, Holds,
        Owner, Passing, Claims, bgBits, statusVars, lockVars, hostVars,
        taskVars, isrVars, TaskPcs, At, Goto
<1>1. /\ isr = "off" /\ spinlock = d /\ acquiring_dev = d /\ d \notin lockBits
      /\ d \notin bgBits /\ ~intr
  BY DEF acquire_end_core_schedule
<1> DEFINE s == sched[d]
<1>2. /\ s \in SchedType
      /\ s.to = "bg" => s.desired \in bgBits /\ s.acq \in {NoDev, s.desired}
      /\ s.to = "task" => s.acq = s.desired /\ s.acq \notin bgBits
      /\ s.acq # NoDev => s.acq \in lockBits
      /\ s.desired = NoDev => lockBits = {} /\ bgBits = {}
  <2>1. s = schedule_core(lockBits, bgBits)
    BY DEF acquire_end_core_schedule
  <2>2. lockBits \in SUBSET Dev /\ bgBits \in SUBSET Dev
    OBVIOUS
  <2> HIDE DEF s, bgBits
  <2> QED  BY <2>1, <2>2, ScheduleIs
<1>3. /\ acquiring_dev' = s.acq /\ sched' = sched
      /\ pc' = [pc EXCEPT ![d] = "end_pass"] /\ spinlock' = NoDev
      /\ UNCHANGED <<statusVars, in_isr, semphr, hostVars, calls, call, isrVars>>
  BY DEF acquire_end_core_schedule
<1>4. s.acq # NoDev => s.acq # d /\ pc[s.acq] = "acq_wait" /\ semphr[s.acq] = 0
  BY <1>1, <1>2 DEF SchedType
<1>5. \A e \in Dev : ~Claims(e) /\ (Claims(e)' => e = d) /\ ~Holds(e)
  BY <1>1, <1>3
<1>6. OwnerInv' /\ SpinInv' /\ GivenInv' /\ FlightInv' /\ HandlerInv'
  BY <1>1, <1>3
<1> HIDE DEF s
<1>7. LockInv'
  BY <1>1, <1>2, <1>3, <1>4, <1>5
<1>8. ClaimInv'
  BY <1>1, <1>2, <1>3, <1>4, <1>5 DEF SchedType, s
<1>9. EnabledInv'
  BY <1>1, <1>2, <1>3, <1>4, <1>5 DEF SchedType
<1> QED  BY <1>6, <1>7, <1>8, <1>9

(* When nobody has acquired the bus, spi_intr serves a device or gives the *)
(* bus to a task that waits for it.                                        *)
LEMMA BusCheck ==
  ASSUME SameCore, TypeOK, BusInv, bg_check_dev_acq
  PROVE  BusInv'
<1> USE NoDevAssumption
    DEF TypeOK, MaybeDev, BusInv, OwnerInv, LockInv, SpinInv, ClaimInv,
        EnabledInv, GivenInv, FlightInv, HandlerInv, Using, Waits, Holds,
        Owner, Passing, Claims, bgBits, statusVars, lockVars, hostVars,
        taskVars, isrVars, IsrPcs, IsrAt, Snapshot, NoStatus
<1> DEFINE s == schedule_core(snap.lock, BgOf(snap))
<1>1. snap.lock = lockBits /\ BgOf(snap) = bgBits
  BY DEF bg_check_dev_acq, BgOf
<1>2. /\ s \in SchedType
      /\ s.to = "bg" => s.desired \in bgBits /\ s.acq \in {NoDev, s.desired}
      /\ s.acq # NoDev => s.acq \in lockBits
  <2>1. s = schedule_core(lockBits, bgBits)
    BY <1>1
  <2>2. lockBits \in SUBSET Dev /\ bgBits \in SUBSET Dev
    OBVIOUS
  <2> HIDE DEF s, bgBits
  <2> QED  BY <2>1, <2>2, ScheduleIs
<1>3. /\ isr = "schedule" /\ acquiring_dev = NoDev /\ acquiring_dev' = s.acq
      /\ desired_dev' = s.desired
      /\ isr' = IF s.to = "task" THEN "exit_fetch" ELSE "check_req"
      /\ UNCHANGED <<statusVars, in_isr, spinlock, semphr, hostVars, taskVars>>
  BY DEF bg_check_dev_acq
<1> HIDE DEF s
<1>4. OwnerInv' /\ SpinInv' /\ ClaimInv' /\ EnabledInv' /\ GivenInv' /\ FlightInv'
  BY <1>3
<1>5. LockInv'
  BY <1>2, <1>3
<1>6. HandlerInv'
  BY <1>2, <1>3 DEF SchedType
<1> QED  BY <1>4, <1>5, <1>6

(* bg_exit_core goes on while there is BG work it may do, and otherwise    *)
(* leaves the bus to the acquiring device or to a task that waits.         *)
LEMMA BusExit ==
  ASSUME SameCore, TypeOK, BusInv, bg_exit_core_decide
  PROVE  BusInv'
<1> USE NoDevAssumption
    DEF TypeOK, MaybeDev, BusInv, OwnerInv, LockInv, SpinInv, ClaimInv,
        EnabledInv, GivenInv, FlightInv, HandlerInv, Using, Waits, Holds,
        Owner, Passing, Claims, bgBits, statusVars, lockVars, hostVars,
        taskVars, isrVars, IsrPcs, IsrAt, Snapshot, NoStatus
<1> DEFINE s == schedule_core(snap.lock, BgOf(snap))
           retry == IF acquiring_dev # NoDev
                      THEN acquiring_dev \in bgBits ELSE bgBits # {}
           hand == ~retry /\ acquiring_dev = NoDev /\ lockBits # {}
<1>1. snap.lock = lockBits /\ BgOf(snap) = bgBits
  BY DEF bg_exit_core_decide, BgOf
<1>2. /\ s \in SchedType
      /\ s.to = "bg" => s.desired \in bgBits
      /\ s.to = "task" => s.acq = s.desired /\ s.acq \notin bgBits
      /\ s.acq # NoDev => s.acq \in lockBits
      /\ s.desired = NoDev => lockBits = {} /\ bgBits = {}
  <2>1. s = schedule_core(lockBits, bgBits)
    BY <1>1
  <2>2. lockBits \in SUBSET Dev /\ bgBits \in SUBSET Dev
    OBVIOUS
  <2> HIDE DEF s, bgBits
  <2> QED  BY <2>1, <2>2, ScheduleIs
<1>3. hand => s.acq # NoDev /\ s.acq \notin bgBits
  <2> HIDE DEF s
  <2> QED  BY <1>2 DEF SchedType
<1>4. /\ isr = "exit_decide"
      /\ acquiring_dev' = IF hand THEN s.acq ELSE acquiring_dev
      /\ isr' = IF retry THEN "loop"
                ELSE IF acquiring_dev' = NoDev THEN "exit_leave" ELSE "exit_resume"
      /\ desired_dev' = IF retry THEN NoDev ELSE acquiring_dev'
      /\ UNCHANGED <<statusVars, in_isr, spinlock, semphr, hostVars, taskVars>>
  BY <1>1 DEF bg_exit_core_decide
<1> HIDE DEF s
<1>5. OwnerInv' /\ SpinInv' /\ ClaimInv' /\ EnabledInv' /\ GivenInv' /\ FlightInv'
  BY <1>4
<1>6. LockInv'
  BY <1>2, <1>3, <1>4
<1>7. HandlerInv'
  BY <1>2, <1>3, <1>4 DEF SchedType
<1> QED  BY <1>5, <1>6, <1>7

(* Each step of a device task keeps the right to the bus in one place.     *)
LEMMA BusTask ==
  ASSUME SameCore, TypeOK, BusInv, NEW d \in Dev, TaskStep(d) \/ NewCall(d)
  PROVE  BusInv'
<1> USE NoDevAssumption
    DEF TypeOK, MaybeDev, BusInv, OwnerInv, LockInv, SpinInv, ClaimInv,
        EnabledInv, GivenInv, FlightInv, HandlerInv, Using, Waits, Holds,
        Owner, Passing, Claims, bgBits, statusVars, lockVars, hostVars,
        taskVars, isrVars, TaskPcs, At, Goto
<1>0. CanRun(d) /\ pc[d] # "end_schedule" =>
        isr = "off" /\ spinlock = NoDev /\ ~(intr /\ trans_done)
  BY TaskRuns
<1>1. CASE req_core_test(d)
  BY <1>0, <1>1 DEF req_core_test
<1>2. CASE req_core_mark(d)
  BY <1>0, <1>2 DEF req_core_mark
<1>3. CASE req_core_set(d)
  BY <1>3, BusRequest
<1>4. CASE req_core_enable(d)
  BY <1>0, <1>4 DEF req_core_enable
<1>5. CASE dev_wait_prepare(d)
  BY <1>0, <1>5 DEF dev_wait_prepare
<1>6. CASE acquire_core(d)
  BY <1>6, BusAcquire
<1>7. CASE acquire_core_claim(d)
  BY <1>0, <1>7 DEF acquire_core_claim
<1>8. CASE dev_wait(d)
  BY <1>0, <1>8 DEF dev_wait
<1>9. CASE wait_bg_done_test(d)
  BY <1>0, <1>9 DEF wait_bg_done_test
<1>10. CASE acquire_bus_granted(d)
  BY <1>0, <1>10 DEF acquire_bus_granted
<1>11. CASE polling_start_granted(d)
  BY <1>0, <1>11 DEF polling_start_granted
<1>12. CASE spi_device_polling_end(d)
  BY <1>0, <1>12 DEF spi_device_polling_end
<1>13. CASE spi_device_release_bus(d)
  BY <1>0, <1>13 DEF spi_device_release_bus
<1>14. CASE acquire_end_core_clear(d)
  BY <1>14, BusEnd
<1>15. CASE acquire_end_core_schedule(d)
  BY <1>15, BusSchedule
<1>16. CASE acquire_end_core_pass(d)
  BY <1>0, <1>16 DEF acquire_end_core_pass
<1>17. CASE spi_device_get_trans_result(d)
  BY <1>0, <1>17 DEF spi_device_get_trans_result
<1>18. CASE spi_device_queue_trans(d)
  BY <1>0, <1>18 DEF spi_device_queue_trans, Call
<1>19. CASE spi_device_acquire_bus(d)
  BY <1>0, <1>19 DEF spi_device_acquire_bus, Call
<1>20. CASE spi_device_polling_start(d)
  BY <1>0, <1>20 DEF spi_device_polling_start, Call
<1> QED
  BY <1>1, <1>2, <1>3, <1>4, <1>5, <1>6, <1>7, <1>8, <1>9,
     <1>10, <1>11, <1>12, <1>13, <1>14, <1>15, <1>16, <1>17, <1>18, <1>19, <1>20
  DEF TaskStep, NewCall

(* So does each step of spi_intr, which runs only while it has the bus.    *)
LEMMA BusIsr ==
  ASSUME SameCore, TypeOK, BusInv, IsrStep \/ spi_hal_usr_is_done
  PROVE  BusInv'
<1> USE NoDevAssumption
    DEF TypeOK, MaybeDev, BusInv, OwnerInv, LockInv, SpinInv, ClaimInv,
        EnabledInv, GivenInv, FlightInv, HandlerInv, Using, Waits, Holds,
        Owner, Passing, Claims, bgBits, statusVars, lockVars, hostVars,
        taskVars, isrVars, IsrPcs, IsrAt, Snapshot, NoStatus
<1>1. CASE bg_entry_core
  BY <1>1 DEF bg_entry_core, IntrPending
<1>2. CASE isr_get_acquiring_dev
  BY <1>2 DEF isr_get_acquiring_dev
<1>3. CASE bg_check_dev_acq_fetch
  BY <1>3 DEF bg_check_dev_acq_fetch
<1>4. CASE bg_check_dev_acq
  BY <1>4, BusCheck
<1>5. CASE bg_check_dev_req
  BY <1>5 DEF bg_check_dev_req
<1>6. CASE update_pend_core_set
  BY <1>6 DEF update_pend_core_set
<1>7. CASE update_pend_core_clear
  BY <1>7 DEF update_pend_core_clear
<1>8. CASE isr_receive
  BY <1>8 DEF isr_receive
<1>9. CASE bg_exit_core_wip
  BY <1>9 DEF bg_exit_core_wip
<1>10. CASE clear_pend_core
  BY <1>10 DEF clear_pend_core
<1>11. CASE clear_pend_core_active
  BY <1>11 DEF clear_pend_core_active
<1>12. CASE bg_exit_core_fetch
  BY <1>12 DEF bg_exit_core_fetch
<1>13. CASE bg_exit_core_decide
  BY <1>13, BusExit
<1>14. CASE bg_exit_core_resume
  BY <1>14 DEF bg_exit_core_resume
<1>15. CASE bg_exit_core_leave
  BY <1>15 DEF bg_exit_core_leave
<1>16. CASE spi_hal_usr_is_done
  BY <1>16 DEF spi_hal_usr_is_done
<1> QED
  BY <1>1, <1>2, <1>3, <1>4, <1>5, <1>6, <1>7, <1>8, <1>9,
     <1>10, <1>11, <1>12, <1>13, <1>14, <1>15, <1>16
  DEF IsrStep

(* On one core, the right to the bus is always in one place.               *)
LEMMA BusInvariant ==
  ASSUME SameCore
  PROVE  Spec => []BusInv
<1>1. Init => BusInv
  BY NoDevAssumption
  DEF Init, BusInv, OwnerInv, LockInv, SpinInv, ClaimInv, EnabledInv, GivenInv,
      FlightInv, HandlerInv, Using, Waits, Holds, Owner, Passing, Claims, bgBits
<1>2. TypeOK /\ BusInv /\ [Next]_vars => BusInv'
  <2> SUFFICES ASSUME TypeOK, BusInv, [Next]_vars PROVE BusInv'
    OBVIOUS
  <2>1. CASE Next
    BY <2>1, BusTask, BusIsr DEF Next
  <2>2. CASE UNCHANGED vars
    <3> USE <2>2 DEF BusInv, Using, Waits, Holds, Owner, Passing, Claims, bgBits,
                     vars, statusVars, lockVars, hostVars, taskVars, isrVars
    <3>1. OwnerInv' /\ LockInv' /\ SpinInv'
      BY DEF OwnerInv, LockInv, SpinInv
    <3>2. ClaimInv' /\ EnabledInv' /\ GivenInv'
      BY DEF ClaimInv, EnabledInv, GivenInv
    <3>3. FlightInv' /\ HandlerInv'
      BY DEF FlightInv, HandlerInv
    <3> QED  BY <3>1, <3>2, <3>3
  <2> QED  BY <2>1, <2>2
<1> QED  BY <1>1, <1>2, TypeCorrect, PTL DEF Spec

(* On one core, for any number of devices and any mix of calls: a polling  *)
(* transaction has the bus to itself from polling_start to polling_end,    *)
(* whatever the other tasks and spi_intr do, and the assertions of         *)
(* polling_end hold.                                                       *)
THEOREM PollingAlwaysHoldsBus ==
  ASSUME SameCore
  PROVE  Spec => []PollingHoldsBus
<1>1. TypeOK /\ BusInv => PollingHoldsBus
  BY DEF TypeOK, MaybeDev, BusInv, LockInv, FlightInv, PollingHoldsBus, Holds, Using, Owner
<1> QED  BY <1>1, BusInvariant, TypeCorrect, PTL

(* Under the same assumption, when acquire_start or wait_bg_done returns,  *)
(* the task has the bus and all transactions it queued before have left it.*)
THEOREM AlwaysGrantedAfterOwnBg ==
  ASSUME SameCore
  PROVE  Spec => []GrantedAfterOwnBg
<1>1. TypeOK /\ BusInv /\ QueuedIsMarked => GrantedAfterOwnBg
  <2> SUFFICES ASSUME TypeOK, BusInv, QueuedIsMarked,
                      NEW d \in Dev, pc[d] \in {"acquired", "bg_done"}
               PROVE  /\ acquiring_dev = d /\ d \notin bgBits
                      /\ trans_queue[d] = 0 /\ cur_cs # d
    BY DEF GrantedAfterOwnBg
  <2>1. acquiring_dev = d /\ d \notin bgBits
    BY DEF BusInv, LockInv, Holds, Using
  <2>2. trans_queue[d] = 0
    BY <2>1, QueueAssumption DEF QueuedIsMarked, RequestPcs, TypeOK
  <2>3. cur_cs # d
    BY <2>1, NoDevAssumption DEF BusInv, FlightInv, EnabledInv, HandlerInv, bgBits
  <2> QED  BY <2>1, <2>2, <2>3
<1> QED  BY <1>1, BusInvariant, QueuedIsAlwaysMarked, TypeCorrect, PTL

(* Under the same assumption, neither spi_intr nor polling_start programs  *)
(* the peripheral while a transaction is in flight on it.                  *)
THEOREM AlwaysOneTransaction ==
  ASSUME SameCore
  PROVE  Spec => OneTransaction
<1>1. TypeOK /\ BusInv /\ [Next]_vars => [trans_done /\ ~trans_done' => cur_cs = NoDev]_vars
  <2> SUFFICES ASSUME TypeOK, BusInv, Next, trans_done, ~trans_done'
               PROVE  cur_cs = NoDev
    OBVIOUS
  <2> USE NoDevAssumption DEF TypeOK, MaybeDev, BusInv, LockInv, FlightInv,
                              Holds, Using, bgBits
  <2>1. CASE isr_receive
    BY <2>1 DEF isr_receive, IsrAt, HandlerInv
  <2>2. ASSUME NEW d \in Dev, polling_start_granted(d) PROVE cur_cs = NoDev
    <3>1. isr = "off"
      BY <2>2, TaskRuns DEF polling_start_granted, At
    <3>2. acquiring_dev = d /\ d \notin bgBits /\ pc[d] # "poll"
      BY <2>2 DEF polling_start_granted, At
    <3> QED  BY <3>1, <3>2 DEF EnabledInv
  <2>3. ASSUME NEW d \in Dev, TaskStep(d) \/ NewCall(d)
        PROVE  polling_start_granted(d)
    BY <2>3
    DEF TaskStep, NewCall, hostVars, req_core_test, req_core_mark, req_core_set,
        req_core_enable, dev_wait_prepare, acquire_core, acquire_core_claim,
        dev_wait, wait_bg_done_test, acquire_bus_granted, spi_device_polling_end,
        spi_device_release_bus, acquire_end_core_clear, acquire_end_core_schedule,
        acquire_end_core_pass, spi_device_get_trans_result, spi_device_queue_trans,
        spi_device_acquire_bus, spi_device_polling_start
  <2>4. ASSUME IsrStep \/ spi_hal_usr_is_done PROVE isr_receive
    BY <2>4
    DEF IsrStep, hostVars, bg_entry_core, isr_get_acquiring_dev,
        bg_check_dev_acq_fetch, bg_check_dev_acq, bg_check_dev_req,
        update_pend_core_set, update_pend_core_clear, bg_exit_core_wip,
        clear_pend_core, clear_pend_core_active, bg_exit_core_fetch,
        bg_exit_core_decide, bg_exit_core_resume, bg_exit_core_leave,
        spi_hal_usr_is_done
  <2> QED
    BY <2>1, <2>2, <2>3, <2>4 DEF Next
<1> QED  BY <1>1, BusInvariant, TypeCorrect, PTL DEF Spec, OneTransaction

(* Under the same assumption, the driver's own assertions hold: spi_intr   *)
(* finds a transaction to close when it is entered again, none in flight   *)
(* when it starts the next and a device to serve, and polling_end and      *)
(* release_bus release a lock that their device holds.                     *)
THEOREM DriverAssertsAlwaysHold ==
  ASSUME SameCore
  PROVE  Spec => [](IsrAsserts /\ ReleaseSucceeds)
<1>1. TypeOK /\ BusInv => IsrAsserts
  BY NoDevAssumption DEF TypeOK, BusInv, FlightInv, HandlerInv, IsrAsserts
<1>2. BusInv => ReleaseSucceeds
  BY DEF BusInv, LockInv, Holds, Using, ReleaseSucceeds
<1> QED  BY <1>1, <1>2, BusInvariant, TypeCorrect, PTL
=============================================================================
