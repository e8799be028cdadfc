----------------------------- MODULE SpiBusLock -----------------------------
(***************************************************************************)
(* The SPI bus lock (esp_hw_support/spi_bus_lock.c) as the SPI master      *)
(* driver (esp_driver_spi/src/gpspi/spi_master.c) uses it.                 *)
(*                                                                         *)
(* Each device of the bus is driven by one task, which calls               *)
(* spi_device_queue_trans, spi_device_acquire_bus/release_bus and          *)
(* spi_device_polling_start/end.  The BG is the interrupt handler spi_intr. *)
(* One step is one access to the shared words of spi_bus_lock_t: the       *)
(* atomic status word is the three sets lockBits, pendBits and reqBits.    *)
(***************************************************************************)
EXTENDS Integers, FiniteSets

CONSTANTS
  Dev,        \* device ids: the index of the device's bits in the status word
  NoDev,      \* the NULL device pointer
  QueueSize,  \* queue_size of spi_device_interface_config_t
  MaxCalls,   \* bound on the API calls one task makes; 0 is no bound
  Calls,      \* the API calls the tasks make
  SameCore    \* TRUE: the tasks and spi_intr share one core

CallNames == {"queue", "acquire", "poll"}

ASSUME DevAssumption == Dev \subseteq Nat /\ Dev # {} /\ IsFiniteSet(Dev)
ASSUME NoDevAssumption == NoDev \notin Dev
ASSUME QueueAssumption == QueueSize \in Nat \ {0}
ASSUME CallsAssumption == MaxCalls \in Nat /\ Calls \subseteq CallNames
ASSUME SameCoreAssumption == SameCore \in BOOLEAN

VARIABLES
  \* spi_bus_lock_t
  lockBits, pendBits, reqBits,  \* the status word
  acquiring_dev, acq_dev_bg_active, in_isr,
  spinlock,                     \* holder of s_spinlock
  semphr,                       \* the binary semaphore of each device
  \* spi_host_t and the peripheral
  intr,                         \* the SPI interrupt is enabled
  cur_cs,                       \* device of the transaction in flight
  trans_done,                   \* the peripheral's trans_done bit
  polling,                      \* the transaction in flight is a polling one
  device_acquiring_lock,
  trans_queue, ret_queue,       \* number of entries in each device's queues
  \* control
  pc,                           \* of each device's task
  calls,                        \* API calls made so far by each task
  call,                         \* the API call each task executes
  sched,                        \* each task's result of schedule_core
  isr,                          \* program counter of spi_intr
  snap,                         \* spi_intr's copy of the status word
  desired_dev                   \* spi_intr's local

statusVars == <<lockBits, pendBits, reqBits>>
lockVars == <<acquiring_dev, acq_dev_bg_active, in_isr, spinlock, semphr>>
hostVars == <<intr, cur_cs, trans_done, polling, device_acquiring_lock,
              trans_queue, ret_queue>>
taskVars == <<pc, calls, call, sched>>
isrVars == <<isr, snap, desired_dev>>
vars == <<statusVars, lockVars, hostVars, taskVars, isrVars>>

-----------------------------------------------------------------------------
(* The status word.                                                        *)

bgBits == reqBits \cup pendBits

LowestId(S) == CHOOSE d \in S : \A e \in S : d <= e

Snapshot(lock, pend, req) == [lock |-> lock, pend |-> pend, req |-> req]
BgOf(s) == s.req \cup s.pend
NoStatus == Snapshot({}, {}, {})

(* The result of schedule_core: the desired device, the acquiring device it *)
(* sets, and whether the BG goes on or yields to the task.                 *)
Sched(desired, acq, to) == [desired |-> desired, acq |-> acq, to |-> to]
NoSched == Sched(NoDev, NoDev, "task")
BgServesAcq(s) == s.acq # NoDev /\ s.to = "bg"

schedule_core(lock, bg) ==
  IF lock # {} /\ (bg = {} \/ LowestId(lock) \in bg)
    THEN LET d == LowestId(lock)
         IN  Sched(d, d, IF d \in bg THEN "bg" ELSE "task")
  ELSE IF bg # {} THEN Sched(LowestId(bg), NoDev, "bg")
  ELSE NoSched

-----------------------------------------------------------------------------
(* Control.  The interrupt is level-triggered: it is pending while it is   *)
(* enabled and the peripheral's trans_done bit is set.  When everything    *)
(* runs on one core, a pending interrupt preempts the tasks at once unless *)
(* a critical section masks it, spi_intr then runs to its end, and a task  *)
(* in a critical section is not switched out.                              *)

IntrPending == intr /\ trans_done

CanRun(d) ==
  SameCore => \/ spinlock = d
              \/ spinlock = NoDev /\ isr = "off" /\ ~IntrPending

At(d, from) == pc[d] = from /\ CanRun(d)
Goto(d, to) == pc' = [pc EXCEPT ![d] = to]
IsrAt(from) == isr = from

Owner(d) == device_acquiring_lock = d

(* An API call starts in a task that has none under way.                   *)
Call(d, name, to) ==
  /\ At(d, "ready")
  /\ name \in Calls
  /\ MaxCalls = 0 \/ calls[d] < MaxCalls
  /\ calls' = IF MaxCalls = 0 THEN calls ELSE [calls EXCEPT ![d] = @ + 1]
  /\ Goto(d, to)

(* Fault: the queue takes more than queue_size descriptors.                *)
queue_trans_unbounded(d) ==
  /\ Call(d, "queue", "req_test")
  /\ ~(acquiring_dev = d /\ polling)
  /\ trans_queue' = [trans_queue EXCEPT ![d] = @ + 1]
  /\ UNCHANGED <<statusVars, lockVars, intr, cur_cs, trans_done, polling,
                 device_acquiring_lock, ret_queue, call, sched, isrVars>>

(* spi_device_queue_trans: the descriptor goes into the queue first.       *)
spi_device_queue_trans(d) ==
  /\ Call(d, "queue", "req_test")
  /\ ~(acquiring_dev = d /\ polling)
  /\ trans_queue[d] < QueueSize
  /\ trans_queue' = [trans_queue EXCEPT ![d] = @ + 1]
  /\ UNCHANGED <<statusVars, lockVars, intr, cur_cs, trans_done, polling,
                 device_acquiring_lock, ret_queue, call, sched, isrVars>>

(* spi_device_get_trans_result takes a finished descriptor back.           *)
spi_device_get_trans_result(d) ==
  /\ At(d, "ready")
  /\ ret_queue[d] > 0
  /\ ret_queue' = [ret_queue EXCEPT ![d] = @ - 1]
  /\ UNCHANGED <<statusVars, lockVars, intr, cur_cs, trans_done, polling,
                 device_acquiring_lock, trans_queue, taskVars, isrVars>>

-----------------------------------------------------------------------------
(* req_core.                                                               *)

req_core_test(d) ==
  /\ At(d, "req_test")
  /\ Goto(d, IF acquiring_dev = d THEN "req_mark" ELSE "req_set")
  /\ UNCHANGED <<statusVars, lockVars, hostVars, calls, call, sched,
                 isrVars>>

req_core_mark(d) ==
  /\ At(d, "req_mark")
  /\ acq_dev_bg_active' = TRUE
  /\ Goto(d, "req_set_acq")
  /\ UNCHANGED <<statusVars, acquiring_dev, in_isr, spinlock, semphr, hostVars,
                 calls, call, sched, isrVars>>

(* Fault: the acquiring device invokes the BG only on an empty status word. *)
req_core_set_no_bg(d) ==
  /\ At(d, "req_set_acq") \/ At(d, "req_set")
  /\ Goto(d, IF lockBits \cup bgBits = {} THEN "req_enable" ELSE "ready")
  /\ reqBits' = reqBits \cup {d}
  /\ UNCHANGED <<lockBits, pendBits, lockVars, hostVars, calls, call, sched,
                 isrVars>>

req_core_set(d) ==
  /\ \/ At(d, "req_set_acq")
        /\ Goto(d, IF d \notin bgBits THEN "req_enable" ELSE "ready")
     \/ At(d, "req_set")
        /\ Goto(d, IF lockBits \cup bgBits = {} THEN "req_enable" ELSE "ready")
  /\ reqBits' = reqBits \cup {d}
  /\ UNCHANGED <<lockBits, pendBits, lockVars, hostVars, calls, call, sched,
                 isrVars>>

req_core_enable(d) ==
  /\ At(d, "req_enable")
  /\ intr' = TRUE
  /\ Goto(d, "ready")
  /\ UNCHANGED <<statusVars, lockVars, cur_cs, trans_done, polling,
                 device_acquiring_lock, trans_queue, ret_queue, calls, call,
                 sched, isrVars>>

-----------------------------------------------------------------------------
(* spi_bus_lock_acquire_start, for spi_device_acquire_bus and for a polling *)
(* transaction of a device that has not acquired the bus.                  *)

spi_device_acquire_bus(d) ==
  /\ ~Owner(d)
  /\ Call(d, "acquire", "acq_prepare")
  /\ call' = [call EXCEPT ![d] = "acquire"]
  /\ UNCHANGED <<statusVars, lockVars, hostVars, sched, isrVars>>

(* A device that owns the bus waits for its own BG work instead.           *)
spi_device_polling_start(d) ==
  /\ Call(d, "poll", IF Owner(d) THEN "wait_test" ELSE "acq_prepare")
  /\ call' = [call EXCEPT ![d] = "poll"]
  /\ UNCHANGED <<statusVars, lockVars, hostVars, sched, isrVars>>

(* Fault: a stale semaphore is not taken before the status is looked at.   *)
dev_wait_unprepared(d) ==
  /\ \/ At(d, "acq_prepare") /\ Goto(d, "acq_core")
     \/ At(d, "wait_prepare") /\ Goto(d, "wait_retest")
  /\ UNCHANGED <<statusVars, lockVars, hostVars, calls, call, sched,
                 isrVars>>

dev_wait_prepare(d) ==
  /\ \/ At(d, "acq_prepare") /\ Goto(d, "acq_core")
     \/ At(d, "wait_prepare") /\ Goto(d, "wait_retest")
  /\ semphr' = [semphr EXCEPT ![d] = 0]
  /\ UNCHANGED <<statusVars, acquiring_dev, acq_dev_bg_active, in_isr, spinlock,
                 hostVars, calls, call, sched, isrVars>>

(* Fault: acquire_core looks at the LOCK bits only.                        *)
acquire_core_ignoring_bg(d) ==
  /\ At(d, "acq_core")
  /\ spinlock = NoDev
  /\ lockBits' = lockBits \cup {d}
  /\ Goto(d, IF lockBits = {} THEN "acq_claim" ELSE "acq_wait")
  /\ UNCHANGED <<pendBits, reqBits, lockVars, hostVars, calls, call, sched,
                 isrVars>>

(* The critical section of acquire_core holds one atomic operation.        *)
acquire_core(d) ==
  /\ At(d, "acq_core")
  /\ spinlock = NoDev
  /\ lockBits' = lockBits \cup {d}
  /\ Goto(d, IF lockBits \cup bgBits = {} THEN "acq_claim" ELSE "acq_wait")
  /\ UNCHANGED <<pendBits, reqBits, lockVars, hostVars, calls, call, sched,
                 isrVars>>

acquire_core_claim(d) ==
  /\ At(d, "acq_claim")
  /\ acquiring_dev' = d
  /\ Goto(d, "acquired")
  /\ UNCHANGED <<statusVars, acq_dev_bg_active, in_isr, spinlock, semphr,
                 hostVars, calls, call, sched, isrVars>>

dev_wait(d) ==
  /\ \/ At(d, "acq_wait") /\ Goto(d, "acquired")
     \/ At(d, "wait_sem") /\ Goto(d, "bg_done")
  /\ semphr[d] = 1
  /\ semphr' = [semphr EXCEPT ![d] = 0]
  /\ UNCHANGED <<statusVars, acquiring_dev, acq_dev_bg_active, in_isr, spinlock,
                 hostVars, calls, call, sched, isrVars>>

(* spi_bus_lock_wait_bg_done looks at the BG bits before and after it      *)
(* empties the semaphore.                                                  *)
wait_bg_done_test(d) ==
  /\ \/ At(d, "wait_test")
        /\ Goto(d, IF acquiring_dev # d THEN "ready"
                   ELSE IF d \in bgBits THEN "wait_prepare" ELSE "bg_done")
     \/ At(d, "wait_retest")
        /\ Goto(d, IF d \in bgBits THEN "wait_sem" ELSE "bg_done")
  /\ UNCHANGED <<statusVars, lockVars, hostVars, calls, call, sched,
                 isrVars>>

(* The lock has been granted to spi_device_acquire_bus.                    *)
acquire_bus_granted(d) ==
  /\ At(d, "acquired")
  /\ call[d] = "acquire"
  /\ device_acquiring_lock' = d
  /\ call' = [call EXCEPT ![d] = "none"]
  /\ Goto(d, "ready")
  /\ UNCHANGED <<statusVars, lockVars, intr, cur_cs, trans_done, polling,
                 trans_queue, ret_queue, calls, sched, isrVars>>

(* The lock has been granted to spi_device_polling_start: spi_new_trans     *)
(* programs the peripheral.                                                *)
polling_start_granted(d) ==
  /\ At(d, "acquired") \/ At(d, "bg_done")
  /\ call[d] = "poll"
  /\ polling' = TRUE
  /\ cur_cs' = d
  /\ trans_done' = FALSE
  /\ call' = [call EXCEPT ![d] = "none"]
  /\ Goto(d, "poll")
  /\ UNCHANGED <<statusVars, lockVars, intr, device_acquiring_lock, trans_queue,
                 ret_queue, calls, sched, isrVars>>

-----------------------------------------------------------------------------
(* spi_device_polling_end spins on trans_done, closes the transaction and  *)
(* releases the bus unless the device has acquired it.                     *)
spi_device_polling_end(d) ==
  /\ At(d, "poll")
  /\ trans_done
  /\ cur_cs' = NoDev
  /\ polling' = FALSE
  /\ Goto(d, IF Owner(d) THEN "ready" ELSE "end_clear")
  /\ UNCHANGED <<statusVars, lockVars, intr, trans_done, device_acquiring_lock,
                 trans_queue, ret_queue, calls, call, sched, isrVars>>

(* spi_device_release_bus.  The application calls it after its transactions *)
(* have been sent and their results fetched (spi_master.rst, Bus Acquiring). *)
spi_device_release_bus(d) ==
  /\ At(d, "ready")
  /\ Owner(d)
  /\ trans_queue[d] = 0 /\ cur_cs # d /\ ret_queue[d] = 0
  /\ device_acquiring_lock' = NoDev
  /\ Goto(d, "end_clear")
  /\ UNCHANGED <<statusVars, lockVars, intr, cur_cs, trans_done, polling,
                 trans_queue, ret_queue, calls, call, sched, isrVars>>

(* acquire_end_core: clear the LOCK bit and schedule in one critical section, *)
(* then enable the BG or resume the next task.                             *)
acquire_end_core_clear(d) ==
  /\ At(d, "end_clear")
  /\ spinlock = NoDev
  /\ IF acquiring_dev # d
       THEN /\ Goto(d, "ready")
            /\ UNCHANGED <<lockBits, sched, spinlock>>
       ELSE /\ spinlock' = d
            /\ lockBits' = lockBits \ {d}
            /\ sched' = [sched EXCEPT
                           ![d] = schedule_core(lockBits \ {d}, bgBits)]
            /\ Goto(d, "end_schedule")
  /\ UNCHANGED <<pendBits, reqBits, acquiring_dev, acq_dev_bg_active, in_isr,
                 semphr, hostVars, calls, call, isrVars>>

acquire_end_core_schedule(d) ==
  /\ At(d, "end_schedule")
  /\ acquiring_dev' = sched[d].acq
  /\ acq_dev_bg_active' = BgServesAcq(sched[d])
  /\ spinlock' = NoDev
  /\ Goto(d, "end_pass")
  /\ UNCHANGED <<statusVars, in_isr, semphr, hostVars, calls, call, sched,
                 isrVars>>

(* Fault: the next lock owner is chosen but not resumed.                   *)
acquire_end_core_silent(d) ==
  /\ At(d, "end_pass")
  /\ intr' = (intr \/ sched[d].to = "bg")
  /\ sched' = [sched EXCEPT ![d] = NoSched]
  /\ Goto(d, "ready")
  /\ UNCHANGED <<statusVars, lockVars, cur_cs, trans_done, polling,
                 device_acquiring_lock, trans_queue, ret_queue, calls, call,
                 isrVars>>

acquire_end_core_pass(d) ==
  /\ At(d, "end_pass")
  /\ intr' = (intr \/ sched[d].to = "bg")
  /\ semphr' = IF sched[d].to = "task" /\ sched[d].desired # NoDev
                 THEN [semphr EXCEPT ![sched[d].desired] = 1] ELSE semphr
  /\ sched' = [sched EXCEPT ![d] = NoSched]
  /\ Goto(d, "ready")
  /\ UNCHANGED <<statusVars, acquiring_dev, acq_dev_bg_active, in_isr, spinlock,
                 cur_cs, trans_done, polling, device_acquiring_lock,
                 trans_queue, ret_queue, calls, call, isrVars>>

-----------------------------------------------------------------------------
(* spi_intr.                                                               *)

(* bg_entry_core and the closure of the transaction in flight.             *)
bg_entry_core ==
  /\ IsrAt("off")
  /\ IntrPending
  /\ SameCore => spinlock = NoDev
  /\ intr' = FALSE
  /\ in_isr' = TRUE
  /\ IF in_isr /\ cur_cs # NoDev
       THEN /\ cur_cs' = NoDev
            /\ ret_queue' = IF ret_queue[cur_cs] < QueueSize
                              THEN [ret_queue EXCEPT ![cur_cs] = @ + 1]
                              ELSE ret_queue
       ELSE UNCHANGED <<cur_cs, ret_queue>>
  /\ isr' = "loop"
  /\ UNCHANGED <<statusVars, acquiring_dev, acq_dev_bg_active, spinlock, semphr,
                 trans_done, polling, device_acquiring_lock, trans_queue,
                 taskVars, snap, desired_dev>>

isr_get_acquiring_dev ==
  /\ IsrAt("loop")
  /\ desired_dev' = acquiring_dev
  /\ isr' = IF acquiring_dev = NoDev THEN "check_acq" ELSE "check_req"
  /\ UNCHANGED <<statusVars, lockVars, hostVars, taskVars, snap>>

(* spi_bus_lock_bg_check_dev_acq: fetch the status, then schedule.         *)
bg_check_dev_acq_fetch ==
  /\ IsrAt("check_acq")
  /\ snap' = Snapshot(lockBits, pendBits, reqBits)
  /\ isr' = "schedule"
  /\ UNCHANGED <<statusVars, lockVars, hostVars, taskVars, desired_dev>>

bg_check_dev_acq ==
  /\ IsrAt("schedule")
  /\ LET s == schedule_core(snap.lock, BgOf(snap))
     IN  /\ acquiring_dev' = s.acq
         /\ acq_dev_bg_active' = BgServesAcq(s)
         /\ desired_dev' = s.desired
         /\ isr' = IF s.to = "task" THEN "exit_fetch" ELSE "check_req"
  /\ snap' = NoStatus
  /\ UNCHANGED <<statusVars, in_isr, spinlock, semphr, hostVars, taskVars>>

(* spi_bus_lock_bg_check_dev_req and the two atomics of update_pend_core.  *)
bg_check_dev_req ==
  /\ IsrAt("check_req")
  /\ snap' = Snapshot({}, {}, IF desired_dev \in reqBits THEN reqBits ELSE {})
  /\ isr' = IF desired_dev \in reqBits THEN "set_pend"
            ELSE IF desired_dev \in pendBits THEN "receive" ELSE "exit_fetch"
  /\ UNCHANGED <<statusVars, lockVars, hostVars, taskVars, desired_dev>>

update_pend_core_set ==
  /\ IsrAt("set_pend")
  /\ pendBits' = pendBits \cup snap.req
  /\ isr' = "clear_req"
  /\ UNCHANGED <<lockBits, reqBits, lockVars, hostVars, taskVars, snap,
                 desired_dev>>

update_pend_core_clear ==
  /\ IsrAt("clear_req")
  /\ reqBits' = reqBits \ snap.req
  /\ snap' = NoStatus
  /\ isr' = "receive"
  /\ UNCHANGED <<lockBits, pendBits, lockVars, hostVars, taskVars, desired_dev>>

(* A queued transaction is started, and bg_exit_core(wip) re-enables the   *)
(* interrupt; with an empty queue the request is cleared.                  *)
isr_receive ==
  /\ IsrAt("receive")
  /\ IF trans_queue[desired_dev] > 0
       THEN /\ trans_queue' = [trans_queue EXCEPT ![desired_dev] = @ - 1]
            /\ cur_cs' = desired_dev
            /\ trans_done' = FALSE
            /\ isr' = "exit_wip"
       ELSE /\ isr' = "clear_pend"
            /\ UNCHANGED <<trans_queue, cur_cs, trans_done>>
  /\ UNCHANGED <<statusVars, lockVars, intr, polling, device_acquiring_lock,
                 ret_queue, taskVars, snap, desired_dev>>

bg_exit_core_wip ==
  /\ IsrAt("exit_wip")
  /\ intr' = TRUE
  /\ isr' = "off"
  /\ desired_dev' = NoDev
  /\ UNCHANGED <<statusVars, lockVars, cur_cs, trans_done, polling,
                 device_acquiring_lock, trans_queue, ret_queue, taskVars, snap>>

(* Fault: the PEND bits of all devices are cleared.                        *)
clear_pend_all ==
  /\ IsrAt("clear_pend")
  /\ pendBits' = {}
  /\ snap' = Snapshot(lockBits, {}, reqBits)
  /\ isr' = "clear_active"
  /\ UNCHANGED <<lockBits, reqBits, lockVars, hostVars, taskVars, desired_dev>>

(* clear_pend_core: drop the PEND bit, then the BG flag of the acquirer.   *)
clear_pend_core ==
  /\ IsrAt("clear_pend")
  /\ pendBits' = pendBits \ {desired_dev}
  /\ snap' = Snapshot(lockBits, {}, reqBits)
  /\ isr' = "clear_active"
  /\ UNCHANGED <<lockBits, reqBits, lockVars, hostVars, taskVars, desired_dev>>

clear_pend_core_active ==
  /\ IsrAt("clear_active")
  /\ acq_dev_bg_active' = (acq_dev_bg_active /\
       ~(acquiring_dev = desired_dev /\ desired_dev \notin snap.req))
  /\ snap' = NoStatus
  /\ isr' = "exit_fetch"
  /\ UNCHANGED <<statusVars, acquiring_dev, in_isr, spinlock, semphr, hostVars,
                 taskVars, desired_dev>>

(* bg_exit_core with wip = false: fetch the status, then decide.           *)
bg_exit_core_fetch ==
  /\ IsrAt("exit_fetch")
  /\ snap' = Snapshot(lockBits, pendBits, reqBits)
  /\ isr' = "exit_decide"
  /\ UNCHANGED <<statusVars, lockVars, hostVars, taskVars, desired_dev>>

bg_exit_core_decide ==
  /\ IsrAt("exit_decide")
  /\ LET retry == IF acquiring_dev # NoDev
                    THEN acquiring_dev \in BgOf(snap) ELSE BgOf(snap) # {}
         hand  == ~retry /\ acquiring_dev = NoDev /\ snap.lock # {}
         s     == schedule_core(snap.lock, BgOf(snap))
     IN  /\ acquiring_dev' = IF hand THEN s.acq ELSE acquiring_dev
         /\ acq_dev_bg_active' = IF hand THEN BgServesAcq(s)
                                  ELSE acq_dev_bg_active
         /\ isr' = IF retry THEN "loop"
                   ELSE IF acquiring_dev' = NoDev THEN "exit_leave"
                   ELSE "exit_resume"
         /\ desired_dev' = IF retry THEN NoDev ELSE acquiring_dev'
  /\ snap' = NoStatus
  /\ UNCHANGED <<statusVars, in_isr, spinlock, semphr, hostVars, taskVars>>

bg_exit_core_resume ==
  /\ IsrAt("exit_resume")
  /\ semphr' = [semphr EXCEPT ![desired_dev] = 1]
  /\ isr' = "exit_leave"
  /\ UNCHANGED <<statusVars, acquiring_dev, acq_dev_bg_active, in_isr, spinlock,
                 hostVars, taskVars, snap, desired_dev>>

bg_exit_core_leave ==
  /\ IsrAt("exit_leave")
  /\ in_isr' = FALSE
  /\ isr' = "off"
  /\ desired_dev' = NoDev
  /\ UNCHANGED <<statusVars, acquiring_dev, acq_dev_bg_active, spinlock, semphr,
                 hostVars, taskVars, snap>>

(* The peripheral finishes the transaction that runs on it.                *)
spi_hal_usr_is_done ==
  /\ ~trans_done
  /\ trans_done' = TRUE
  /\ UNCHANGED <<statusVars, lockVars, intr, cur_cs, polling,
                 device_acquiring_lock, trans_queue, ret_queue,
                 taskVars, isrVars>>

-----------------------------------------------------------------------------
(* spi_bus_init_lock and spi_master_init_driver: trans_done is kept set    *)
(* while nothing is in flight, and the interrupt starts disabled.          *)
Init ==
  /\ lockBits = {} /\ pendBits = {} /\ reqBits = {}
  /\ acquiring_dev = NoDev /\ acq_dev_bg_active = FALSE /\ in_isr = FALSE
  /\ spinlock = NoDev
  /\ semphr = [d \in Dev |-> 0]
  /\ intr = FALSE /\ cur_cs = NoDev /\ trans_done = TRUE
  /\ polling = FALSE /\ device_acquiring_lock = NoDev
  /\ trans_queue = [d \in Dev |-> 0] /\ ret_queue = [d \in Dev |-> 0]
  /\ pc = [d \in Dev |-> "ready"]
  /\ calls = [d \in Dev |-> 0]
  /\ call = [d \in Dev |-> "none"] /\ sched = [d \in Dev |-> NoSched]
  /\ isr = "off" /\ snap = NoStatus /\ desired_dev = NoDev

TaskStep(d) ==
  \/ req_core_test(d) \/ req_core_mark(d) \/ req_core_set(d)
  \/ req_core_enable(d)
  \/ dev_wait_prepare(d) \/ acquire_core(d) \/ acquire_core_claim(d)
  \/ dev_wait(d) \/ wait_bg_done_test(d)
  \/ acquire_bus_granted(d) \/ polling_start_granted(d)
  \/ spi_device_polling_end(d) \/ spi_device_release_bus(d)
  \/ acquire_end_core_clear(d) \/ acquire_end_core_schedule(d)
  \/ acquire_end_core_pass(d) \/ spi_device_get_trans_result(d)

NewCall(d) ==
  \/ spi_device_queue_trans(d) \/ spi_device_acquire_bus(d)
  \/ spi_device_polling_start(d)

IsrStep ==
  \/ bg_entry_core \/ isr_get_acquiring_dev \/ bg_check_dev_acq_fetch
  \/ bg_check_dev_acq \/ bg_check_dev_req \/ update_pend_core_set
  \/ update_pend_core_clear \/ isr_receive \/ bg_exit_core_wip
  \/ clear_pend_core \/ clear_pend_core_active \/ bg_exit_core_fetch
  \/ bg_exit_core_decide \/ bg_exit_core_resume \/ bg_exit_core_leave

Next ==
  \/ \E d \in Dev : TaskStep(d) \/ NewCall(d)
  \/ IsrStep
  \/ spi_hal_usr_is_done

Spec == Init /\ [][Next]_vars

(* Every task the scheduler may run eventually runs, a pending interrupt is *)
(* eventually taken, and the peripheral finishes.                          *)
FairSpec ==
  /\ Spec
  /\ \A d \in Dev : WF_vars(TaskStep(d))
  /\ WF_vars(IsrStep)
  /\ WF_vars(spi_hal_usr_is_done)

-----------------------------------------------------------------------------
(* Properties.                                                             *)

TaskPcs == {"ready", "req_test", "req_mark", "req_set", "req_set_acq",
            "req_enable", "acq_prepare", "acq_core", "acq_claim", "acq_wait",
            "wait_test", "wait_prepare", "wait_retest", "wait_sem", "bg_done",
            "acquired", "poll", "end_clear", "end_schedule", "end_pass"}

IsrPcs == {"off", "loop", "check_acq", "schedule", "check_req", "set_pend",
           "clear_req", "receive", "exit_wip", "clear_pend", "clear_active",
           "exit_fetch", "exit_decide", "exit_resume", "exit_leave"}

MaybeDev == Dev \cup {NoDev}

SchedType == [desired : MaybeDev, acq : MaybeDev, to : {"bg", "task"}]

(* The values of the lock, the host and the program counters.              *)
TypeOK ==
  /\ lockBits \in SUBSET Dev
  /\ pendBits \in SUBSET Dev /\ reqBits \in SUBSET Dev
  /\ acquiring_dev \in MaybeDev
  /\ acq_dev_bg_active \in BOOLEAN /\ in_isr \in BOOLEAN
  /\ spinlock \in MaybeDev
  /\ semphr \in [Dev -> 0..1]
  /\ intr \in BOOLEAN /\ trans_done \in BOOLEAN /\ polling \in BOOLEAN
  /\ cur_cs \in MaybeDev /\ device_acquiring_lock \in MaybeDev
  /\ trans_queue \in [Dev -> 0..QueueSize]
  /\ ret_queue \in [Dev -> 0..QueueSize]
  /\ pc \in [Dev -> TaskPcs]
  /\ calls \in [Dev -> 0..MaxCalls]
  /\ call \in [Dev -> {"none", "acquire", "poll"}]
  /\ sched \in [Dev -> SchedType]
  /\ isr \in IsrPcs
  /\ snap \in [lock : SUBSET Dev, pend : SUBSET Dev, req : SUBSET Dev]
  /\ desired_dev \in MaybeDev

(* A polling transaction has the bus to itself until polling_end: the two  *)
(* assertions at its head, that host->cur_cs is this device and that this  *)
(* device is the acquiring device, and the one before acquire_end.         *)
PollingHoldsBus ==
  \A d \in Dev : pc[d] = "poll" =>
    /\ cur_cs = d /\ polling
    /\ acquiring_dev = d
    /\ device_acquiring_lock \in {NoDev, d}

(* The checks at the end of acquire_start and wait_bg_done, and the        *)
(* ordering they stand for: when the task gets the bus it is the acquiring *)
(* device and every transaction it queued before has left the bus.         *)
GrantedAfterOwnBg ==
  \A d \in Dev : pc[d] \in {"acquired", "bg_done"} =>
    /\ acquiring_dev = d
    /\ d \notin bgBits
    /\ trans_queue[d] = 0 /\ cur_cs # d

(* A transaction is started, by spi_intr or by polling_start, only when    *)
(* none is in flight on the peripheral.                                    *)
OneTransaction == [][trans_done /\ ~trans_done' => cur_cs = NoDev]_vars

(* The assertions of spi_intr: a re-entry finds a transaction to close, no *)
(* transaction is in flight when it looks for the next one, and it serves  *)
(* a device.                                                               *)
IsrAsserts ==
  /\ isr = "off" /\ in_isr => cur_cs # NoDev /\ ~polling
  /\ isr \in {"loop", "check_acq", "schedule", "check_req", "receive"} =>
       cur_cs = NoDev
  /\ isr \in {"check_req", "receive"} => desired_dev # NoDev

(* release_bus and polling_end release a lock their device holds: the      *)
(* assertion that spi_bus_lock_acquire_end returns ESP_OK.                 *)
ReleaseSucceeds ==
  \A d \in Dev : pc[d] = "end_clear" => acquiring_dev = d /\ d \in lockBits

(* No task, no ISR and no transaction is under way.                        *)
AtRest ==
  /\ isr = "off" /\ trans_done /\ ~intr
  /\ \A d \in Dev : pc[d] = "ready" \/ (pc[d] \in {"acq_wait", "wait_sem"}
                                           /\ semphr[d] = 0)

(* Nothing is forgotten.  At rest, a request or a waiting task is there    *)
(* only because a task that owns the bus has not released it, and the      *)
(* owner itself never waits.                                               *)
NoLostWork ==
  AtRest =>
    /\ lockBits \cup bgBits # {} => device_acquiring_lock # NoDev
    /\ \A d \in Dev : trans_queue[d] > 0 => d \in bgBits
    /\ device_acquiring_lock # NoDev =>
         /\ pc[device_acquiring_lock] = "ready"
         /\ device_acquiring_lock \notin bgBits

(* Where a task that put a descriptor in its queue is to set its REQ bit.  *)
RequestPcs == {"req_test", "req_mark", "req_set", "req_set_acq"}

(* A descriptor in a device's queue is announced by the device's REQ or    *)
(* PEND bit, or its task is about to set the REQ bit: the argument of the  *)
(* appendix for having two bits, whatever the other calls do and wherever  *)
(* spi_intr runs.                                                          *)
QueuedIsMarked ==
  \A d \in Dev : trans_queue[d] > 0 => d \in bgBits \/ pc[d] \in RequestPcs

(* Its inductive strengthening: the REQ bits being moved have their PEND   *)
(* bits already, and a PEND bit about to be cleared announces nothing.     *)
MarkInv ==
  /\ QueuedIsMarked
  /\ isr = "clear_req" => snap.req \subseteq pendBits
  /\ isr = "clear_pend" /\ trans_queue[desired_dev] > 0 =>
       desired_dev \in reqBits \/ pc[desired_dev] \in RequestPcs
  /\ isr \in {"set_pend", "clear_req", "receive", "clear_pend"} =>
       desired_dev \in Dev

(* Every queued transaction is taken by spi_intr and sent in the end.      *)
QueuedIsSent == \A d \in Dev : trans_queue[d] > 0 ~> trans_queue[d] = 0

(* Every task that waits in dev_wait, for the bus or for its own queued    *)
(* transactions, finishes its call.                                        *)
WaiterResumes ==
  \A d \in Dev : pc[d] \in {"acq_wait", "wait_sem"} ~> pc[d] = "ready"

=============================================================================
